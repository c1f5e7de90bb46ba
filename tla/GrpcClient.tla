----------------------------- MODULE GrpcClient -----------------------------
(***************************************************************************)
(* gRPC clients shared by the VUs: SharedGrpcRegistry and SharedGrpcClient *)
(* (wrkr-grpc/src/shared.rs), the pool of channels (wrkr-grpc/src/client.rs) *)
(* and the calls new, load, connect, invoke and encode of the Lua client   *)
(* (wrkr-lua/src/modules/grpc/client.rs).                                  *)
(*                                                                         *)
(* A shared client is found by its pool size.  load runs under a lock, but *)
(* method reads schema and cache without it; connect records its arguments *)
(* under a mutex and then initialises a tokio OnceCell.  Servers are       *)
(* external: a dial may fail, a call may end in any way.                   *)
(***************************************************************************)
EXTENDS Integers, FiniteSets

CONSTANTS
    Vus,        \* VUs, whose scripts make the calls
    MaxVus,     \* max_vus of the scenario
    PerChannel, MinPool, MaxPool,  \* default_pool_size: 8, 16 and 64
    PoolSizes,  \* values of the option pool_size that scripts try
    Files,      \* arguments of load
    Targets,    \* arguments of connect
    Methods,    \* method names that scripts try
    MethodsOf,  \* MethodsOf[f]: the methods that schema f can build
    MaxCalls    \* bound: calls that get a channel

ASSUME ClientAssumption ==
    /\ {MaxVus, PerChannel, MinPool, MaxPool} \subseteq Nat \ {0}
    /\ MinPool <= MaxPool
    /\ PoolSizes \subseteq Int
    /\ MethodsOf \in [Files -> SUBSET Methods]
    /\ MaxCalls \in Nat
    /\ IsFiniteSet(Vus)

None == "none"

\* None stands for the absence of a dialer, a schema or a target.
ASSUME NoneAssumption == None \notin Vus \union Files \union Targets

Least(a, b) == IF a <= b THEN a ELSE b
Greatest(a, b) == IF a >= b THEN a ELSE b
Clamp(n, low, high) == Greatest(low, Least(n, high))

DefaultPoolSize == Clamp(MaxVus \div PerChannel, MinPool, MaxPool)

\* parse_pool_size: what the option may be.
PoolSizeOk(n) == n \in 1..Clamp(MaxVus, 1, 1024)

\* Keys of the registry.
Keys == {n \in PoolSizes : PoolSizeOk(n)} \union {DefaultPoolSize}

VARIABLES
    pc,       \* what VU v is doing; "idle" between two calls
    obj,      \* obj[v]: the client that v's client object is for, or 0
    arg,      \* arg[v]: file, target or method of the running call
    held,     \* held[v]: the schema of the method that v's call uses
    conn,     \* conn[v]: what v's last successful connect of obj[v] asked for
    clients,  \* SharedGrpcClient, by pool size
    flight    \* flight[v]: the channel of v's request, 0 if none

vars == <<pc, obj, arg, held, conn, clients, flight>>

\* SharedGrpcClient::new.
Fresh ==
    [locked |-> FALSE,      \* load_lock
     loadSpec |-> None,
     schema |-> None,
     methods |-> [m \in Methods |-> None],  \* the schema a cached method was built from
     spec |-> None,         \* connect_spec
     dialer |-> None,       \* who holds the permit of the OnceCell
     channels |-> 0,        \* opened by the dialer
     client |-> None,       \* the OnceCell: target of the pool
     rr |-> 0,
     used |-> <<>>,         \* per channel: the requests it was given
     sent |-> 0, ok |-> 0, failed |-> 0]  \* requests sent; request metrics

Init ==
    /\ pc = [v \in Vus |-> "idle"]
    /\ obj = [v \in Vus |-> 0]
    /\ arg = [v \in Vus |-> None]
    /\ held = [v \in Vus |-> None]
    /\ conn = [v \in Vus |-> None]
    /\ clients = [k \in Keys |-> Fresh]   \* get_or_create makes them on demand
    /\ flight = [v \in Vus |-> 0]

Shared(v) == clients[obj[v]]
Update(v, c) == clients' = [clients EXCEPT ![obj[v]] = c]
Goto(v, label) == pc' = [pc EXCEPT ![v] = label]
Call(v, label, a) ==
    /\ pc[v] = "idle"
    /\ obj[v] # 0
    /\ Goto(v, label)
    /\ arg' = [arg EXCEPT ![v] = a]

\* The call returns.
Return(v) ==
    /\ Goto(v, "idle")
    /\ arg' = [arg EXCEPT ![v] = None]

-----------------------------------------------------------------------------
(* new and load. *)

\* Client.new(opts): get_or_create of the size asked for, or of the default.
New(v, n) ==
    /\ pc[v] = "idle"
    /\ obj' = [obj EXCEPT ![v] = n]
    /\ conn' = [conn EXCEPT ![v] = None]
    /\ UNCHANGED <<pc, arg, held, clients, flight>>

\* Mutant of LoadBegin: a later load of another file is accepted, too.
LoadAgain(v, f) ==
    LET c == Shared(v) IN
    /\ Call(v, "set_schema", f)
    /\ ~c.locked
    /\ Update(v, [c EXCEPT !.locked = TRUE, !.loadSpec = f])
    /\ UNCHANGED <<obj, held, conn, flight>>

\* load: the arguments are compared under the lock; the first to compile wins.  All
\* other calls (LoadSpecMismatch, the same again, an error of protoc) change nothing.
LoadBegin(v, f) ==
    LET c == Shared(v) IN
    /\ Call(v, "set_schema", f)
    /\ ~c.locked
    /\ c.loadSpec = None
    /\ Update(v, [c EXCEPT !.locked = TRUE, !.loadSpec = f])
    /\ UNCHANGED <<obj, held, conn, flight>>

SetSchema(v) ==
    /\ pc[v] = "set_schema"
    /\ Goto(v, "clear")
    /\ Update(v, [Shared(v) EXCEPT !.schema = arg[v]])
    /\ UNCHANGED <<obj, arg, held, conn, flight>>

ClearMethods(v) ==
    /\ pc[v] = "clear"
    /\ Return(v)
    /\ Update(v, [Shared(v) EXCEPT !.methods = [m \in Methods |-> None], !.locked = FALSE])
    /\ UNCHANGED <<obj, held, conn, flight>>

-----------------------------------------------------------------------------
(* connect. *)

\* Mutant of CheckSpec: another target goes on to the cell as well.
CheckSpecAlways(v, t) ==
    LET c == Shared(v) IN
    /\ Call(v, "connect", t)
    /\ IF c.spec = None THEN Update(v, [c EXCEPT !.spec = t]) ELSE UNCHANGED clients
    /\ UNCHANGED <<obj, held, conn, flight>>

\* The first arguments are recorded, others are refused (ConnectSpecMismatch).
CheckSpec(v, t) ==
    LET c == Shared(v) IN
    /\ Call(v, "connect", t)
    /\ c.spec \in {None, t}
    /\ Update(v, [c EXCEPT !.spec = t])
    /\ UNCHANGED <<obj, held, conn, flight>>

\* The connection of the pool is there.
Connected(v) ==
    /\ pc[v] = "connect"
    /\ Shared(v).client # None
    /\ Return(v)
    /\ conn' = [conn EXCEPT ![v] = arg[v]]
    /\ UNCHANGED <<obj, held, clients, flight>>

\* get_or_try_init: one caller at a time runs the initialiser.
Acquire(v) ==
    /\ pc[v] = "connect"
    /\ Shared(v).client = None
    /\ Shared(v).dialer = None
    /\ Goto(v, "dial")
    /\ Update(v, [Shared(v) EXCEPT !.dialer = v])
    /\ UNCHANGED <<obj, arg, held, conn, flight>>

\* Mutant of DialNext: one channel too many.
DialOneMore(v) ==
    /\ pc[v] = "dial"
    /\ Shared(v).channels <= obj[v]
    /\ Update(v, [Shared(v) EXCEPT !.channels = @ + 1])
    /\ UNCHANGED <<pc, obj, arg, held, conn, flight>>

\* connect_pooled: one channel after the other.
DialNext(v) ==
    /\ pc[v] = "dial"
    /\ Shared(v).channels < obj[v]
    /\ Update(v, [Shared(v) EXCEPT !.channels = @ + 1])
    /\ UNCHANGED <<pc, obj, arg, held, conn, flight>>

DialDone(v) ==
    /\ pc[v] = "dial"
    /\ Shared(v).channels = obj[v]
    /\ Return(v)
    /\ conn' = [conn EXCEPT ![v] = arg[v]]
    /\ Update(v, [Shared(v) EXCEPT !.client = arg[v], !.dialer = None,
                                   !.used = [i \in 1..obj[v] |-> 0]])
    /\ UNCHANGED <<obj, held, flight>>

\* Mutant of DialFails: the permit is kept.
DialFailsHolding(v) ==
    /\ pc[v] = "dial"
    /\ Return(v)
    /\ Update(v, [Shared(v) EXCEPT !.channels = 0])
    /\ UNCHANGED <<obj, held, conn, flight>>

\* Any channel may fail: all are dropped, and the next caller tries again.
DialFails(v) ==
    /\ pc[v] = "dial"
    /\ Shared(v).channels < obj[v]
    /\ Return(v)
    /\ Update(v, [Shared(v) EXCEPT !.dialer = None, !.channels = 0])
    /\ UNCHANGED <<obj, held, conn, flight>>

-----------------------------------------------------------------------------
(* invoke and encode. *)

\* client() and the method cache, read in this order; not_connected ends the call.
InvokeBegin(v, m) ==
    /\ Call(v, "method", m)
    /\ Shared(v).client # None
    /\ UNCHANGED <<obj, held, conn, clients, flight>>

\* encode asks for the method, too, connected or not.
EncodeBegin(v, m) ==
    /\ Call(v, "encode_method", m)
    /\ UNCHANGED <<obj, held, conn, clients, flight>>

\* A cached method, or the schema to build it from; not_loaded ends the call.
FindMethod(v) ==
    LET c == Shared(v) IN
    /\ pc[v] \in {"method", "encode_method"}
    /\ IF c.methods[arg[v]] # None
       THEN /\ Goto(v, IF pc[v] = "method" THEN "encode" ELSE "encode_only")
            /\ held' = [held EXCEPT ![v] = c.methods[arg[v]]]
            /\ UNCHANGED arg
       ELSE IF c.schema = None \/ arg[v] \notin MethodsOf[c.schema]
            THEN Return(v) /\ UNCHANGED held      \* not_loaded
            ELSE /\ Goto(v, IF pc[v] = "method" THEN "cache" ELSE "encode_cache")
                 /\ held' = [held EXCEPT ![v] = c.schema]
                 /\ UNCHANGED arg
    /\ UNCHANGED <<obj, conn, clients, flight>>

\* entry(..).or_insert_with: what is cached meanwhile is used.
CacheMethod(v) ==
    LET c == Shared(v)
        kept == IF c.methods[arg[v]] = None THEN held[v] ELSE c.methods[arg[v]]
    IN
    /\ pc[v] \in {"cache", "encode_cache"}
    /\ Goto(v, IF pc[v] = "cache" THEN "encode" ELSE "encode_only")
    /\ held' = [held EXCEPT ![v] = kept]
    /\ Update(v, [c EXCEPT !.methods[arg[v]] = kept])
    /\ UNCHANGED <<obj, arg, conn, flight>>

\* encode returns the bytes of the request, or nil and an error.
EncodeReturns(v) ==
    /\ pc[v] = "encode_only"
    /\ Return(v)
    /\ held' = [held EXCEPT ![v] = None]
    /\ UNCHANGED <<obj, conn, clients, flight>>

\* Options that cannot be parsed, or a request that cannot be encoded.
InvokeRefused(v) ==
    /\ pc[v] = "encode"
    /\ Return(v)
    /\ held' = [held EXCEPT ![v] = None]
    /\ UNCHANGED <<obj, conn, clients, flight>>

\* Invalid metadata: no channel is taken, yet the request is recorded as failed.
MetadataError(v) ==
    /\ pc[v] = "encode"
    /\ Shared(v).sent < MaxCalls
    /\ Return(v)
    /\ held' = [held EXCEPT ![v] = None]
    /\ Update(v, [Shared(v) EXCEPT !.sent = @ + 1, !.failed = @ + 1])
    /\ UNCHANGED <<obj, conn, flight>>

\* rr.fetch_add(1) % channels.len().
Channel(c, size) == (c.rr % size) + 1

\* unary_inner takes the next channel and sends the request.
Send(v) ==
    LET c == Shared(v)
        i == Channel(c, obj[v])
    IN
    /\ pc[v] = "encode"
    /\ c.sent < MaxCalls
    /\ Goto(v, "flight")
    /\ flight' = [flight EXCEPT ![v] = i]
    /\ Update(v, [c EXCEPT !.rr = @ + 1, !.used[i] = @ + 1, !.sent = @ + 1])
    /\ UNCHANGED <<obj, arg, held, conn>>

\* Mutant of Reply: a failed request is not recorded.
ReplyUnrecorded(v) ==
    /\ pc[v] = "flight"
    /\ Return(v)
    /\ flight' = [flight EXCEPT ![v] = 0]
    /\ held' = [held EXCEPT ![v] = None]
    /\ \/ Update(v, [Shared(v) EXCEPT !.ok = @ + 1])
       \/ UNCHANGED clients
    /\ UNCHANGED <<obj, conn>>

\* The response, of any status, is recorded as ok; an error of the transport or of
\* decoding as failed.
Reply(v) ==
    /\ pc[v] = "flight"
    /\ Return(v)
    /\ flight' = [flight EXCEPT ![v] = 0]
    /\ held' = [held EXCEPT ![v] = None]
    /\ \/ Update(v, [Shared(v) EXCEPT !.ok = @ + 1])
       \/ Update(v, [Shared(v) EXCEPT !.failed = @ + 1])
    /\ UNCHANGED <<obj, conn>>

-----------------------------------------------------------------------------

\* What goes on by itself once a call has begun.
CallStep(v) ==
    \/ SetSchema(v) \/ ClearMethods(v)
    \/ Connected(v) \/ Acquire(v) \/ DialNext(v) \/ DialDone(v) \/ DialFails(v)
    \/ FindMethod(v) \/ CacheMethod(v) \/ EncodeReturns(v)
    \/ InvokeRefused(v) \/ MetadataError(v)
    \/ Send(v) \/ Reply(v)

ClientNext ==
    \E v \in Vus :
        \/ \E n \in Keys : New(v, n)
        \/ \E f \in Files : LoadBegin(v, f)
        \/ \E t \in Targets : CheckSpec(v, t)
        \/ \E m \in Methods : InvokeBegin(v, m) \/ EncodeBegin(v, m)
        \/ CallStep(v)

\* Tasks are polled, dials and calls come to an end; the permit of the OnceCell is a
\* fair semaphore's, so a task that waits for it gets its turn.
ClientSpec ==
    /\ Init /\ [][ClientNext]_vars
    /\ \A v \in Vus : WF_vars(CallStep(v)) /\ SF_vars(Acquire(v))

-----------------------------------------------------------------------------
(* Properties. *)

\* The variables have their types.
ClientTypeOK ==
    /\ pc \in [Vus -> {"idle", "set_schema", "clear", "connect", "dial", "method", "cache",
                       "encode", "flight", "encode_method", "encode_cache", "encode_only"}]
    /\ obj \in [Vus -> Keys \union {0}]
    /\ arg \in [Vus -> {None} \union Files \union Targets \union Methods]
    /\ held \in [Vus -> {None} \union Files]
    /\ conn \in [Vus -> {None} \union Targets]
    /\ \A v \in Vus : flight[v] \in 0..obj[v]
    /\ \A k \in Keys : clients[k].channels \in 0..k /\ clients[k].sent \in 0..MaxCalls

\* A VU whose connect returned true has a client that is connected to the target it
\* asked for, with all of the pool's channels, whoever dialled and however many dials
\* failed before, and it stays so.
ConnectedToTarget ==
    \A v \in Vus : conn[v] # None =>
        /\ Shared(v).client = conn[v]
        /\ Shared(v).spec = conn[v]
        /\ Shared(v).channels = obj[v]

\* A client's pool is dialled by one task at a time, and never again once it is there.
OneDialer ==
    \A k \in Keys :
        LET dialing == {v \in Vus : pc[v] = "dial" /\ obj[v] = k}
        IN /\ Cardinality(dialing) <= 1
           /\ clients[k].client # None => dialing = {}

\* Whoever is connected is connected to what it asked for, by the one dial that worked.
ConnectionsSound == ConnectedToTarget /\ OneDialer

\* Methods, in the cache or in use, are of the schema that load recorded, however the
\* calls of load, invoke and encode interleave.
MethodsOfSchema ==
    /\ \A k \in Keys : \A m \in Methods :
          clients[k].methods[m] # None => clients[k].methods[m] = clients[k].loadSpec
    /\ \A v \in Vus : held[v] # None => held[v] = Shared(v).loadSpec

\* The channels of a pool get their turns: none is ever two requests ahead of another.
ChannelsBalanced ==
    \A k \in Keys : \A i, j \in DOMAIN clients[k].used :
        clients[k].used[i] - clients[k].used[j] <= 1

\* Every request that was sent, or refused for its metadata, is counted exactly once by
\* the request metrics when its call returns.
RequestsRecorded ==
    \A k \in Keys :
        clients[k].ok + clients[k].failed
            + Cardinality({v \in Vus : obj[v] = k /\ pc[v] = "flight"}) = clients[k].sent

\* Requests are spread over the pool and each is counted once.
RequestsSound == ChannelsBalanced /\ RequestsRecorded

\* Whoever calls connect gets an answer: a dial that fails hands the permit on.
ConnectReturns == \A v \in Vus : (pc[v] \in {"connect", "dial"}) ~> (pc[v] = "idle")
=============================================================================
