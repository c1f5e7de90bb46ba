----------------------------- MODULE GrpcProofs -----------------------------
(***************************************************************************)
(* Proofs about the shared gRPC clients, for any VUs, pool sizes, files,   *)
(* targets and methods: types, that whoever connected is connected to what *)
(* it asked for by the only dial that worked, that methods are of the      *)
(* schema that was loaded, and that requests are spread over the channels  *)
(* and counted once.                                                       *)
(*                                                                         *)
(* Proofs about the bytes of numbers, for words and groups of any width:   *)
(* what the client writes it reads back whole, skips whole and, if a byte  *)
(* is missing, refuses.                                                    *)
(***************************************************************************)
EXTENDS GrpcClient, WirePrimitives, NaturalsInduction, WellFoundedInduction,
        FiniteSetTheorems, TLAPS

States ==
    {"idle", "set_schema", "clear", "connect", "dial", "method", "cache", "encode", "flight",
     "encode_method", "encode_cache", "encode_only"}

\* A SharedGrpcClient with k channels.
SharedClients(k) ==
    [locked : BOOLEAN,
     loadSpec : {None} \union Files,
     schema : {None} \union Files,
     methods : [Methods -> {None} \union Files],
     spec : {None} \union Targets,
     dialer : {None} \union Vus,
     channels : 0..k,
     client : {None} \union Targets,
     rr : Nat,
     used : {<<>>} \union [1..k -> Nat],
     sent : 0..MaxCalls, ok : Nat, failed : Nat]

\* The variables have their types, the whole record of a client included.
Types ==
    /\ pc \in [Vus -> States]
    /\ obj \in [Vus -> Keys \union {0}]
    /\ arg \in [Vus -> {None} \union Files \union Targets \union Methods]
    /\ held \in [Vus -> {None} \union Files]
    /\ conn \in [Vus -> {None} \union Targets]
    /\ flight \in [Vus -> Nat]
    /\ DOMAIN clients = Keys
    /\ \A k \in Keys : clients[k] \in SharedClients(k)

\* What a VU's running call relies on.
VuFacts ==
    \A v \in Vus :
        /\ pc[v] # "idle" => obj[v] \in Keys
        /\ flight[v] \in 0..obj[v]
        /\ pc[v] # "flight" => flight[v] = 0
        /\ pc[v] \in {"set_schema", "clear"} => arg[v] \in Files /\ arg[v] = Shared(v).loadSpec
        /\ pc[v] \in {"connect", "dial"} => arg[v] \in Targets /\ arg[v] = Shared(v).spec
        /\ pc[v] \in {"method", "cache", "encode", "flight"} =>
              arg[v] \in Methods /\ Shared(v).client # None
        /\ pc[v] \in {"encode_method", "encode_cache", "encode_only"} => arg[v] \in Methods
        /\ pc[v] = "dial" => Shared(v).dialer = v /\ Shared(v).client = None
        /\ held[v] # None =>
              /\ pc[v] \in {"cache", "encode", "flight", "encode_cache", "encode_only"}
              /\ held[v] = Shared(v).loadSpec
        /\ conn[v] # None =>
              obj[v] \in Keys /\ Shared(v).client = conn[v]

\* The connection and the methods of a client are the ones first asked for.
FirstAsked(k, c) ==
    /\ c.client # None => c.client = c.spec /\ c.channels = k /\ c.used \in [1..k -> Nat]
    /\ c.client = None => c.used = <<>> /\ c.rr = 0
    /\ c.schema # None => c.schema = c.loadSpec
    /\ \A m \in Methods : c.methods[m] # None => c.methods[m] = c.loadSpec

ClientFacts == \A k \in Keys : FirstAsked(k, clients[k])

\* The channels before the one whose turn it is are one request ahead of the others.
InOrder(used, rr, k) ==
    \E q \in Nat : \A i \in 1..k : used[i] = IF i <= rr % k THEN q + 1 ELSE q

InTurn(k, c) == c.client # None => InOrder(c.used, c.rr, k)

Turns == \A k \in Keys : InTurn(k, clients[k])

IInv == Types /\ VuFacts /\ ClientFacts /\ Turns /\ RequestsRecorded

-----------------------------------------------------------------------------
(* Numbers. *)

\* Pool sizes are positive.
LEMMA KeysPositive == Keys \subseteq Nat \ {0}
<1>1. \A n \in PoolSizes : PoolSizeOk(n) => n \in Nat \ {0}
  BY ClientAssumption DEF PoolSizeOk
<1>2. DefaultPoolSize \in Nat \ {0}
  BY ClientAssumption DEF DefaultPoolSize, Clamp, Greatest, Least
<1> QED
  BY <1>1, <1>2 DEF Keys

\* The round-robin counter, modulo the number of channels, goes round.
LEMMA ModNext ==
    ASSUME NEW n \in Nat, NEW k \in Nat \ {0}
    PROVE  /\ n % k \in 0..k - 1
           /\ (n + 1) % k = IF n % k = k - 1 THEN 0 ELSE (n % k) + 1
<1> DEFINE q == n \div k
           r == n % k
           p == (n + 1) \div k
           s == (n + 1) % k
<1>1. q \in Int /\ p \in Int /\ r \in 0..k - 1 /\ s \in 0..k - 1
  OBVIOUS
<1>2. n = k * q + r
  OBVIOUS
<1>3. n + 1 = k * p + s
  BY SMTT(30)
<1> HIDE DEF q, r, p, s
<1>4. k * (p - q) = r + 1 - s
  BY <1>1, <1>2, <1>3
<1>5. p - q \in {0, 1}
  <2>1. p - q < 2
    <3> SUFFICES ASSUME p - q >= 2 PROVE FALSE
      BY <1>1
    <3>1. k * (p - q) >= k * 2
      BY <1>1
    <3> QED
      BY <3>1, <1>1, <1>4
  <2>2. p - q > -1
    <3> SUFFICES ASSUME p - q <= -1 PROVE FALSE
      BY <1>1
    <3>1. k * (p - q) <= -k
      BY <1>1
    <3> QED
      BY <3>1, <1>1, <1>4
  <2> QED
    BY <2>1, <2>2, <1>1
<1>6. CASE p - q = 0
  BY <1>6, <1>4, <1>1 DEF r, s
<1>7. CASE p - q = 1
  BY <1>7, <1>4, <1>1 DEF r, s
<1> QED
  BY <1>5, <1>6, <1>7

LEMMA ModZero == ASSUME NEW k \in Nat \ {0} PROVE 0 % k = 0
OBVIOUS

\* If the channels before the next one are one request ahead of the others, they are so
\* after it got a request.
LEMMA NextTurn ==
    ASSUME NEW k \in Nat \ {0}, NEW n \in Nat, NEW f \in [1..k -> Nat], InOrder(f, n, k)
    PROVE  InOrder([f EXCEPT ![(n % k) + 1] = @ + 1], n + 1, k)
<1>1. PICK q \in Nat : \A j \in 1..k : f[j] = IF j <= n % k THEN q + 1 ELSE q
  BY DEF InOrder
<1>2. PICK r, s, g : r = n % k /\ s = (n + 1) % k /\ g = [f EXCEPT ![(n % k) + 1] = @ + 1]
  OBVIOUS
<1>3. r \in 0..k - 1 /\ s = IF r = k - 1 THEN 0 ELSE r + 1
  BY <1>2, ModNext
<1>4. \A j \in 1..k : f[j] = IF j <= r THEN q + 1 ELSE q
  BY <1>1, <1>2
<1>5. \A j \in 1..k : g[j] = IF j = r + 1 THEN f[j] + 1 ELSE f[j]
  BY <1>2
<1>6. \A j \in 1..k : g[j] = IF j <= r + 1 THEN q + 1 ELSE q
  BY <1>3, <1>4, <1>5
<1>7. CASE r = k - 1
  <2>1. \A j \in 1..k : g[j] = IF j <= s THEN (q + 1) + 1 ELSE q + 1
    BY <1>3, <1>6, <1>7
  <2>2. q + 1 \in Nat
    OBVIOUS
  <2> QED
    BY <1>2, <2>1, <2>2 DEF InOrder
<1>8. CASE r # k - 1
  <2>1. \A j \in 1..k : g[j] = IF j <= s THEN q + 1 ELSE q
    BY <1>3, <1>6, <1>8
  <2> QED
    BY <1>2, <2>1 DEF InOrder
<1> QED
  BY <1>7, <1>8

LEMMA Bump ==
    ASSUME NEW S, NEW f \in [S -> Nat], NEW i \in S
    PROVE  [f EXCEPT ![i] = @ + 1] \in [S -> Nat]
OBVIOUS

-----------------------------------------------------------------------------
(* Initial states. *)

LEMMA FreshType == ASSUME NEW k \in Keys PROVE Fresh \in SharedClients(k)
BY KeysPositive, ClientAssumption DEF Fresh, SharedClients

LEMMA InitEstablishes == Init => IInv
<1> SUFFICES ASSUME Init PROVE IInv
  OBVIOUS
<1>1. Types
  BY FreshType DEF Init, Types, States
<1>2. VuFacts
  BY DEF Init, VuFacts
<1>3. ClientFacts /\ Turns
  BY DEF Init, ClientFacts, FirstAsked, Turns, InTurn, Fresh
<1>4. RequestsRecorded
  <2> SUFFICES ASSUME NEW k \in Keys
               PROVE  clients[k].ok + clients[k].failed
                        + Cardinality({v \in Vus : obj[v] = k /\ pc[v] = "flight"}) = clients[k].sent
    BY DEF RequestsRecorded
  <2>1. {v \in Vus : obj[v] = k /\ pc[v] = "flight"} = {}
    BY DEF Init
  <2>2. Cardinality({v \in Vus : obj[v] = k /\ pc[v] = "flight"}) = 0
    BY <2>1, FS_EmptySet, Zenon
  <2>3. clients[k].ok = 0 /\ clients[k].failed = 0 /\ clients[k].sent = 0
    BY DEF Init, Fresh
  <2> QED
    BY <2>2, <2>3
<1> QED
  BY <1>1, <1>2, <1>3, <1>4 DEF IInv

-----------------------------------------------------------------------------
(* What the steps have in common. *)

\* Update replaces one client and leaves the others alone.
LEMMA UpdateClient ==
    ASSUME Types, NEW v \in Vus, obj[v] \in Keys, NEW c \in SharedClients(obj[v]), Update(v, c)
    PROVE  /\ DOMAIN clients' = Keys
           /\ clients'[obj[v]] = c
           /\ \A k \in Keys : k # obj[v] => clients'[k] = clients[k]
           /\ \A k \in Keys : clients'[k] \in SharedClients(k)
BY DEF Types, Update

\* A step that sends nothing keeps the turns of the channels.
LEMMA KeepTurns ==
    ASSUME Turns, \A k \in Keys : /\ clients'[k].client = clients[k].client
                                  /\ clients'[k].rr = clients[k].rr
                                  /\ clients'[k].used = clients[k].used
    PROVE  Turns'
BY DEF Turns, InTurn

\* A step in which no request starts or ends keeps the count of the requests.
LEMMA KeepRecorded ==
    ASSUME RequestsRecorded,
           \A k \in Keys : /\ clients'[k].sent = clients[k].sent
                           /\ clients'[k].ok = clients[k].ok
                           /\ clients'[k].failed = clients[k].failed,
           \A v \in Vus : \/ obj'[v] = obj[v] /\ (pc'[v] = "flight" <=> pc[v] = "flight")
                          \/ pc'[v] # "flight" /\ pc[v] # "flight"
    PROVE  RequestsRecorded'
<1> SUFFICES ASSUME NEW k \in Keys
             PROVE  clients'[k].ok + clients'[k].failed
                      + Cardinality({v \in Vus : obj'[v] = k /\ pc'[v] = "flight"}) = clients'[k].sent
  BY DEF RequestsRecorded
<1>1. {v \in Vus : obj'[v] = k /\ pc'[v] = "flight"} = {v \in Vus : obj[v] = k /\ pc[v] = "flight"}
  OBVIOUS
<1> QED
  BY <1>1 DEF RequestsRecorded

\* The requests under way of every pool are finitely many.
LEMMA InFlightFinite ==
    ASSUME NEW k \in Keys
    PROVE  /\ IsFiniteSet({u \in Vus : obj[u] = k /\ pc[u] = "flight"})
           /\ Cardinality({u \in Vus : obj[u] = k /\ pc[u] = "flight"}) \in Nat
<1>1. {u \in Vus : obj[u] = k /\ pc[u] = "flight"} \in SUBSET Vus
  OBVIOUS
<1> QED
  BY <1>1, FS_Subset, FS_CardinalityType, ClientAssumption

-----------------------------------------------------------------------------
(* new and load. *)

LEMMA NewKeeps ==
    ASSUME IInv, NEW v \in Vus, NEW n \in Keys, New(v, n)
    PROVE  IInv'
<1> USE DEF IInv, New
<1>1. Types'
  BY DEF Types, SharedClients
<1>2. VuFacts'
  BY KeysPositive DEF Types, VuFacts, Shared
<1>3. ClientFacts'
  BY DEF ClientFacts
<1>4. Turns'
  BY KeepTurns
<1>5. RequestsRecorded'
  BY KeepRecorded DEF Types
<1> QED
  BY <1>1, <1>2, <1>3, <1>4, <1>5

LEMMA LoadBeginKeeps ==
    ASSUME IInv, NEW v \in Vus, NEW f \in Files, LoadBegin(v, f)
    PROVE  IInv'
<1> DEFINE k == obj[v]
           c == clients[k]
           d == [c EXCEPT !.locked = TRUE, !.loadSpec = f]
<1> USE DEF IInv, LoadBegin, Call, Goto
<1>1. k \in Keys /\ c \in SharedClients(k) /\ Update(v, d)
  BY DEF Types, VuFacts, Shared
<1>2. c.loadSpec = None
  BY DEF Shared
<1>3. d \in SharedClients(k)
  <2> HIDE DEF IInv, LoadBegin, Call, Goto
  <2> QED
    BY <1>1, <1>2 DEF SharedClients
<1>4. /\ d.loadSpec = f
      /\ d.schema = c.schema /\ d.methods = c.methods
      /\ d.spec = c.spec /\ d.dialer = c.dialer /\ d.channels = c.channels /\ d.client = c.client
      /\ d.rr = c.rr /\ d.used = c.used
      /\ d.sent = c.sent /\ d.ok = c.ok /\ d.failed = c.failed
  BY <1>1, <1>2 DEF SharedClients
<1> HIDE DEF d
<1>5. /\ DOMAIN clients' = Keys /\ clients'[k] = d
      /\ \A j \in Keys : j # k => clients'[j] = clients[j]
      /\ \A j \in Keys : clients'[j] \in SharedClients(j)
  BY <1>1, <1>3, UpdateClient
<1>6. Types'
  BY <1>2, <1>5 DEF Types, States
<1>7. VuFacts'
  BY <1>1, <1>2, <1>4, <1>5, NoneAssumption DEF Types, VuFacts, Shared
<1>8. ClientFacts'
  <2>1. FirstAsked(k, d)
    BY <1>1, <1>2, <1>4, NoneAssumption DEF ClientFacts, FirstAsked, SharedClients
  <2> QED
    BY <2>1, <1>5 DEF ClientFacts
<1>9. Turns'
  BY <1>4, <1>5, KeepTurns
<1>10. RequestsRecorded'
  BY <1>4, <1>5, KeepRecorded DEF Types
<1> QED
  BY <1>6, <1>7, <1>8, <1>9, <1>10

LEMMA SetSchemaKeeps ==
    ASSUME IInv, NEW v \in Vus, SetSchema(v)
    PROVE  IInv'
<1> DEFINE k == obj[v]
           c == clients[k]
           d == [c EXCEPT !.schema = arg[v]]
<1> USE DEF IInv, SetSchema, Goto
<1>1. k \in Keys /\ c \in SharedClients(k) /\ Update(v, d)
  BY DEF Types, VuFacts, Shared
<1>2. arg[v] \in Files /\ arg[v] = c.loadSpec
  BY DEF Shared, VuFacts
<1>3. d \in SharedClients(k)
  <2> HIDE DEF IInv, SetSchema, Goto
  <2> QED
    BY <1>1, <1>2 DEF SharedClients
<1>4. /\ d.schema = arg[v]
      /\ d.loadSpec = c.loadSpec /\ d.methods = c.methods
      /\ d.spec = c.spec /\ d.dialer = c.dialer /\ d.channels = c.channels /\ d.client = c.client
      /\ d.rr = c.rr /\ d.used = c.used
      /\ d.sent = c.sent /\ d.ok = c.ok /\ d.failed = c.failed
  BY <1>1, <1>2 DEF SharedClients
<1> HIDE DEF d
<1>5. /\ DOMAIN clients' = Keys /\ clients'[k] = d
      /\ \A j \in Keys : j # k => clients'[j] = clients[j]
      /\ \A j \in Keys : clients'[j] \in SharedClients(j)
  BY <1>1, <1>3, UpdateClient
<1>6. Types'
  BY <1>2, <1>5 DEF Types, States
<1>7. VuFacts'
  BY <1>1, <1>2, <1>4, <1>5, NoneAssumption DEF Types, VuFacts, Shared
<1>8. ClientFacts'
  <2>1. FirstAsked(k, d)
    BY <1>1, <1>2, <1>4, NoneAssumption DEF ClientFacts, FirstAsked, SharedClients
  <2> QED
    BY <2>1, <1>5 DEF ClientFacts
<1>9. Turns'
  BY <1>4, <1>5, KeepTurns
<1>10. RequestsRecorded'
  BY <1>4, <1>5, KeepRecorded DEF Types
<1> QED
  BY <1>6, <1>7, <1>8, <1>9, <1>10

LEMMA ClearMethodsKeeps ==
    ASSUME IInv, NEW v \in Vus, ClearMethods(v)
    PROVE  IInv'
<1> DEFINE k == obj[v]
           c == clients[k]
           d == [c EXCEPT !.methods = [m \in Methods |-> None], !.locked = FALSE]
<1> USE DEF IInv, ClearMethods, Return, Goto
<1>1. k \in Keys /\ c \in SharedClients(k) /\ Update(v, d)
  BY DEF Types, VuFacts, Shared
<1>2. arg[v] = c.loadSpec
  BY DEF Shared, VuFacts
<1>3. d \in SharedClients(k)
  <2> HIDE DEF IInv, ClearMethods, Return, Goto
  <2> QED
    BY <1>1, <1>2 DEF SharedClients
<1>4. /\ d.methods = [m \in Methods |-> None]
      /\ d.loadSpec = c.loadSpec /\ d.schema = c.schema
      /\ d.spec = c.spec /\ d.dialer = c.dialer /\ d.channels = c.channels /\ d.client = c.client
      /\ d.rr = c.rr /\ d.used = c.used
      /\ d.sent = c.sent /\ d.ok = c.ok /\ d.failed = c.failed
  BY <1>1, <1>2 DEF SharedClients
<1> HIDE DEF d
<1>5. /\ DOMAIN clients' = Keys /\ clients'[k] = d
      /\ \A j \in Keys : j # k => clients'[j] = clients[j]
      /\ \A j \in Keys : clients'[j] \in SharedClients(j)
  BY <1>1, <1>3, UpdateClient
<1>6. Types'
  BY <1>2, <1>5 DEF Types, States
<1>7. VuFacts'
  BY <1>1, <1>2, <1>4, <1>5, NoneAssumption DEF Types, VuFacts, Shared
<1>8. ClientFacts'
  <2>1. FirstAsked(k, d)
    BY <1>1, <1>2, <1>4, NoneAssumption DEF ClientFacts, FirstAsked, SharedClients
  <2> QED
    BY <2>1, <1>5 DEF ClientFacts
<1>9. Turns'
  BY <1>4, <1>5, KeepTurns
<1>10. RequestsRecorded'
  BY <1>4, <1>5, KeepRecorded DEF Types
<1> QED
  BY <1>6, <1>7, <1>8, <1>9, <1>10

-----------------------------------------------------------------------------
(* connect. *)

LEMMA CheckSpecKeeps ==
    ASSUME IInv, NEW v \in Vus, NEW t \in Targets, CheckSpec(v, t)
    PROVE  IInv'
<1> DEFINE k == obj[v]
           c == clients[k]
           d == [c EXCEPT !.spec = t]
<1> USE DEF IInv, CheckSpec, Call, Goto
<1>1. k \in Keys /\ c \in SharedClients(k) /\ Update(v, d)
  BY DEF Types, VuFacts, Shared
<1>2. c.spec \in {None, t}
  BY DEF Shared
<1>3. d \in SharedClients(k)
  <2> HIDE DEF IInv, CheckSpec, Call, Goto
  <2> QED
    BY <1>1, <1>2 DEF SharedClients
<1>4. /\ d.spec = t
      /\ d.loadSpec = c.loadSpec /\ d.schema = c.schema /\ d.methods = c.methods
      /\ d.dialer = c.dialer /\ d.channels = c.channels /\ d.client = c.client
      /\ d.rr = c.rr /\ d.used = c.used
      /\ d.sent = c.sent /\ d.ok = c.ok /\ d.failed = c.failed
  BY <1>1, <1>2 DEF SharedClients
<1> HIDE DEF d
<1>5. /\ DOMAIN clients' = Keys /\ clients'[k] = d
      /\ \A j \in Keys : j # k => clients'[j] = clients[j]
      /\ \A j \in Keys : clients'[j] \in SharedClients(j)
  BY <1>1, <1>3, UpdateClient
<1>6. Types'
  BY <1>2, <1>5 DEF Types, States
<1>7. VuFacts'
  BY <1>1, <1>2, <1>4, <1>5, NoneAssumption DEF Types, VuFacts, Shared
<1>8. ClientFacts'
  <2>1. FirstAsked(k, d)
    BY <1>1, <1>2, <1>4, NoneAssumption DEF ClientFacts, FirstAsked, SharedClients
  <2> QED
    BY <2>1, <1>5 DEF ClientFacts
<1>9. Turns'
  BY <1>4, <1>5, KeepTurns
<1>10. RequestsRecorded'
  BY <1>4, <1>5, KeepRecorded DEF Types
<1> QED
  BY <1>6, <1>7, <1>8, <1>9, <1>10

LEMMA ConnectedKeeps ==
    ASSUME IInv, NEW v \in Vus, Connected(v)
    PROVE  IInv'
<1> USE DEF IInv, Connected, Return, Goto
<1>1. Types'
  BY DEF Types, States, VuFacts, Shared, SharedClients
<1>2. VuFacts'
  BY NoneAssumption DEF Types, VuFacts, Shared, ClientFacts, FirstAsked
<1>3. ClientFacts' /\ Turns'
  BY DEF ClientFacts, Turns
<1>4. RequestsRecorded'
  BY KeepRecorded DEF Types
<1> QED
  BY <1>1, <1>2, <1>3, <1>4

LEMMA AcquireKeeps ==
    ASSUME IInv, NEW v \in Vus, Acquire(v)
    PROVE  IInv'
<1> DEFINE k == obj[v]
           c == clients[k]
           d == [c EXCEPT !.dialer = v]
<1> USE DEF IInv, Acquire, Goto
<1>1. k \in Keys /\ c \in SharedClients(k) /\ Update(v, d)
  BY DEF Types, VuFacts, Shared
<1>2. c.client = None /\ c.dialer = None
  BY DEF Shared
<1>3. d \in SharedClients(k)
  <2> HIDE DEF IInv, Acquire, Goto
  <2> QED
    BY <1>1, <1>2 DEF SharedClients
<1>4. /\ d.dialer = v
      /\ d.loadSpec = c.loadSpec /\ d.schema = c.schema /\ d.methods = c.methods
      /\ d.spec = c.spec /\ d.channels = c.channels /\ d.client = c.client
      /\ d.rr = c.rr /\ d.used = c.used
      /\ d.sent = c.sent /\ d.ok = c.ok /\ d.failed = c.failed
  BY <1>1, <1>2 DEF SharedClients
<1> HIDE DEF d
<1>5. /\ DOMAIN clients' = Keys /\ clients'[k] = d
      /\ \A j \in Keys : j # k => clients'[j] = clients[j]
      /\ \A j \in Keys : clients'[j] \in SharedClients(j)
  BY <1>1, <1>3, UpdateClient
<1>6. Types'
  BY <1>2, <1>5 DEF Types, States
<1>7. VuFacts'
  BY <1>1, <1>2, <1>4, <1>5, NoneAssumption DEF Types, VuFacts, Shared
<1>8. ClientFacts'
  <2>1. FirstAsked(k, d)
    BY <1>1, <1>2, <1>4, NoneAssumption DEF ClientFacts, FirstAsked, SharedClients
  <2> QED
    BY <2>1, <1>5 DEF ClientFacts
<1>9. Turns'
  BY <1>4, <1>5, KeepTurns
<1>10. RequestsRecorded'
  BY <1>4, <1>5, KeepRecorded DEF Types
<1> QED
  BY <1>6, <1>7, <1>8, <1>9, <1>10

\* A client may get another channel as long as it has fewer than the pool's size.
LEMMA MoreChannels ==
    ASSUME NEW k \in Nat, NEW c \in SharedClients(k), c.channels < k
    PROVE  [c EXCEPT !.channels = @ + 1] \in SharedClients(k)
<1>1. c.channels \in 0..k
  BY DEF SharedClients
<1>2. c.channels + 1 \in 0..k
  BY <1>1
<1> QED
  BY <1>2 DEF SharedClients

LEMMA DialNextKeeps ==
    ASSUME IInv, NEW v \in Vus, DialNext(v)
    PROVE  IInv'
<1> DEFINE k == obj[v]
           c == clients[k]
           d == [c EXCEPT !.channels = @ + 1]
<1> USE DEF IInv, DialNext, Goto
<1>1. k \in Keys /\ c \in SharedClients(k) /\ Update(v, d)
  BY DEF Types, VuFacts, Shared
<1>2. c.client = None /\ c.channels < k
  BY DEF Shared, VuFacts
<1>3. d \in SharedClients(k)
  BY <1>1, <1>2, KeysPositive, MoreChannels
<1>4. /\ d.channels = c.channels + 1
      /\ d.loadSpec = c.loadSpec /\ d.schema = c.schema /\ d.methods = c.methods
      /\ d.spec = c.spec /\ d.dialer = c.dialer /\ d.client = c.client
      /\ d.rr = c.rr /\ d.used = c.used
      /\ d.sent = c.sent /\ d.ok = c.ok /\ d.failed = c.failed
  BY <1>1, <1>2 DEF SharedClients
<1> HIDE DEF d
<1>5. /\ DOMAIN clients' = Keys /\ clients'[k] = d
      /\ \A j \in Keys : j # k => clients'[j] = clients[j]
      /\ \A j \in Keys : clients'[j] \in SharedClients(j)
  BY <1>1, <1>3, UpdateClient
<1>6. Types'
  BY <1>2, <1>5 DEF Types, States
<1>7. VuFacts'
  BY <1>1, <1>2, <1>4, <1>5, NoneAssumption DEF Types, VuFacts, Shared
<1>8. ClientFacts'
  <2>1. FirstAsked(k, d)
    BY <1>1, <1>2, <1>4, NoneAssumption DEF ClientFacts, FirstAsked, SharedClients
  <2> QED
    BY <2>1, <1>5 DEF ClientFacts
<1>9. Turns'
  BY <1>4, <1>5, KeepTurns
<1>10. RequestsRecorded'
  BY <1>4, <1>5, KeepRecorded DEF Types
<1> QED
  BY <1>6, <1>7, <1>8, <1>9, <1>10

LEMMA DialDoneKeeps ==
    ASSUME IInv, NEW v \in Vus, DialDone(v)
    PROVE  IInv'
<1> DEFINE k == obj[v]
           c == clients[k]
           d == [c EXCEPT !.client = arg[v], !.dialer = None, !.used = [i \in 1..k |-> 0]]
<1> USE DEF IInv, DialDone, Return, Goto
<1>1. k \in Keys /\ c \in SharedClients(k) /\ Update(v, d)
  BY DEF Types, VuFacts, Shared
<1>2. c.channels = k /\ c.client = None /\ arg[v] \in Targets /\ arg[v] = c.spec
  BY DEF Shared, VuFacts
<1>3. d \in SharedClients(k)
  <2> HIDE DEF IInv, DialDone, Return, Goto
  <2> QED
    BY <1>1, <1>2 DEF SharedClients
<1>4. /\ d.client = arg[v] /\ d.dialer = None /\ d.used = [i \in 1..k |-> 0]
      /\ d.loadSpec = c.loadSpec /\ d.schema = c.schema /\ d.methods = c.methods
      /\ d.spec = c.spec /\ d.channels = c.channels
      /\ d.rr = c.rr
      /\ d.sent = c.sent /\ d.ok = c.ok /\ d.failed = c.failed
  BY <1>1, <1>2 DEF SharedClients
<1> HIDE DEF d
<1>5. /\ DOMAIN clients' = Keys /\ clients'[k] = d
      /\ \A j \in Keys : j # k => clients'[j] = clients[j]
      /\ \A j \in Keys : clients'[j] \in SharedClients(j)
  BY <1>1, <1>3, UpdateClient
<1>6. Types'
  BY <1>2, <1>5 DEF Types, States
<1>7. VuFacts'
  BY <1>1, <1>2, <1>4, <1>5, NoneAssumption DEF Types, VuFacts, Shared
<1>8. ClientFacts'
  <2>1. FirstAsked(k, d)
    BY <1>1, <1>2, <1>4, NoneAssumption DEF ClientFacts, FirstAsked, SharedClients
  <2> QED
    BY <2>1, <1>5 DEF ClientFacts
<1>9. Turns'
  <2>1. InTurn(k, d)
    <3>1. \A i \in 1..k : d.used[i] = IF i <= d.rr % k THEN 0 + 1 ELSE 0
      BY <1>1, <1>2, <1>4, ModZero, KeysPositive DEF ClientFacts, FirstAsked
    <3> QED
      BY <3>1 DEF InTurn, InOrder
  <2> QED
    BY <2>1, <1>5 DEF Turns
<1>10. RequestsRecorded'
  BY <1>4, <1>5, KeepRecorded DEF Types
<1> QED
  BY <1>6, <1>7, <1>8, <1>9, <1>10

\* A failed dial drops the channels it had made and hands the permit back.
LEMMA DropChannels ==
    ASSUME NEW k, NEW c \in SharedClients(k), 0 \in 0..k
    PROVE  [c EXCEPT !.dialer = None, !.channels = 0] \in SharedClients(k)
BY DEF SharedClients

LEMMA DialFailsKeeps ==
    ASSUME IInv, NEW v \in Vus, DialFails(v)
    PROVE  IInv'
<1> DEFINE k == obj[v]
           c == clients[k]
           d == [c EXCEPT !.dialer = None, !.channels = 0]
<1> USE DEF IInv, DialFails, Return, Goto
<1>1. k \in Keys /\ c \in SharedClients(k) /\ Update(v, d)
  BY DEF Types, VuFacts, Shared
<1>2. c.client = None /\ 0 \in 0..k
  BY <1>1, KeysPositive DEF Shared, VuFacts
<1>3. d \in SharedClients(k)
  BY <1>1, <1>2, DropChannels
<1>4. /\ d.dialer = None /\ d.channels = 0
      /\ d.loadSpec = c.loadSpec /\ d.schema = c.schema /\ d.methods = c.methods
      /\ d.spec = c.spec /\ d.client = c.client
      /\ d.rr = c.rr /\ d.used = c.used
      /\ d.sent = c.sent /\ d.ok = c.ok /\ d.failed = c.failed
  BY <1>1, <1>2 DEF SharedClients
<1> HIDE DEF d
<1>5. /\ DOMAIN clients' = Keys /\ clients'[k] = d
      /\ \A j \in Keys : j # k => clients'[j] = clients[j]
      /\ \A j \in Keys : clients'[j] \in SharedClients(j)
  BY <1>1, <1>3, UpdateClient
<1>6. Types'
  BY <1>2, <1>5 DEF Types, States
<1>7. VuFacts'
  BY <1>1, <1>2, <1>4, <1>5, NoneAssumption DEF Types, VuFacts, Shared
<1>8. ClientFacts'
  <2>1. FirstAsked(k, d)
    BY <1>1, <1>2, <1>4, NoneAssumption DEF ClientFacts, FirstAsked, SharedClients
  <2> QED
    BY <2>1, <1>5 DEF ClientFacts
<1>9. Turns'
  BY <1>4, <1>5, KeepTurns
<1>10. RequestsRecorded'
  BY <1>4, <1>5, KeepRecorded DEF Types
<1> QED
  BY <1>6, <1>7, <1>8, <1>9, <1>10

-----------------------------------------------------------------------------
(* invoke and encode. *)

LEMMA InvokeBeginKeeps ==
    ASSUME IInv, NEW v \in Vus, NEW m \in Methods, InvokeBegin(v, m)
    PROVE  IInv'
<1> USE DEF IInv, InvokeBegin, Call, Goto
<1>1. Types'
  BY DEF Types, States, VuFacts, Shared, SharedClients
<1>2. VuFacts'
  BY NoneAssumption DEF Types, VuFacts, Shared, ClientFacts, FirstAsked
<1>3. ClientFacts' /\ Turns'
  BY DEF ClientFacts, Turns
<1>4. RequestsRecorded'
  BY KeepRecorded DEF Types
<1> QED
  BY <1>1, <1>2, <1>3, <1>4

LEMMA EncodeBeginKeeps ==
    ASSUME IInv, NEW v \in Vus, NEW m \in Methods, EncodeBegin(v, m)
    PROVE  IInv'
<1> USE DEF IInv, EncodeBegin, Call, Goto
<1>1. Types'
  BY DEF Types, States, VuFacts, Shared, SharedClients
<1>2. VuFacts'
  BY NoneAssumption DEF Types, VuFacts, Shared, ClientFacts, FirstAsked
<1>3. ClientFacts' /\ Turns'
  BY DEF ClientFacts, Turns
<1>4. RequestsRecorded'
  BY KeepRecorded DEF Types
<1> QED
  BY <1>1, <1>2, <1>3, <1>4

LEMMA FindMethodKeeps ==
    ASSUME IInv, NEW v \in Vus, FindMethod(v)
    PROVE  IInv'
<1> USE DEF IInv, FindMethod, Return, Goto
<1>0. /\ arg[v] \in Methods
      /\ Shared(v).schema \in {None} \union Files
      /\ Shared(v).methods[arg[v]] \in {None} \union Files
  BY DEF Types, VuFacts, Shared, SharedClients
<1>1. Types'
  BY <1>0 DEF Types, States
<1>2. VuFacts'
  BY NoneAssumption DEF Types, VuFacts, Shared, ClientFacts, FirstAsked
<1>3. ClientFacts' /\ Turns'
  BY DEF ClientFacts, Turns
<1>4. RequestsRecorded'
  BY KeepRecorded DEF Types
<1> QED
  BY <1>1, <1>2, <1>3, <1>4

LEMMA CacheMethodKeeps ==
    ASSUME IInv, NEW v \in Vus, CacheMethod(v)
    PROVE  IInv'
<1> DEFINE k == obj[v]
           c == clients[k]
           kept == IF c.methods[arg[v]] = None THEN held[v] ELSE c.methods[arg[v]]
           d == [c EXCEPT !.methods[arg[v]] = kept]
<1> USE DEF IInv, CacheMethod, Goto
<1>1. k \in Keys /\ c \in SharedClients(k) /\ Update(v, d)
  BY DEF Types, VuFacts, Shared
<1>2. arg[v] \in Methods /\ kept \in {None} \union Files /\ kept \in {None, c.loadSpec}
  BY <1>1 DEF Types, VuFacts, Shared, SharedClients, ClientFacts, FirstAsked
<1>3. d \in SharedClients(k)
  <2> HIDE DEF IInv, CacheMethod, Goto
  <2> QED
    BY <1>1, <1>2 DEF SharedClients
<1>4. /\ d.methods = [c.methods EXCEPT ![arg[v]] = kept]
      /\ d.loadSpec = c.loadSpec /\ d.schema = c.schema
      /\ d.spec = c.spec /\ d.dialer = c.dialer /\ d.channels = c.channels /\ d.client = c.client
      /\ d.rr = c.rr /\ d.used = c.used
      /\ d.sent = c.sent /\ d.ok = c.ok /\ d.failed = c.failed
  BY <1>1, <1>2 DEF SharedClients
<1> HIDE DEF d
<1>5. /\ DOMAIN clients' = Keys /\ clients'[k] = d
      /\ \A j \in Keys : j # k => clients'[j] = clients[j]
      /\ \A j \in Keys : clients'[j] \in SharedClients(j)
  BY <1>1, <1>3, UpdateClient
<1>6. Types'
  BY <1>2, <1>5 DEF Types, States, Shared
<1>7. VuFacts'
  BY <1>1, <1>2, <1>4, <1>5, NoneAssumption DEF Types, VuFacts, Shared
<1>8. ClientFacts'
  <2>1. FirstAsked(k, d)
    BY <1>1, <1>2, <1>4, NoneAssumption DEF ClientFacts, FirstAsked, SharedClients
  <2> QED
    BY <2>1, <1>5 DEF ClientFacts
<1>9. Turns'
  BY <1>4, <1>5, KeepTurns
<1>10. RequestsRecorded'
  BY <1>4, <1>5, KeepRecorded DEF Types
<1> QED
  BY <1>6, <1>7, <1>8, <1>9, <1>10

LEMMA EncodeReturnsKeeps ==
    ASSUME IInv, NEW v \in Vus, EncodeReturns(v)
    PROVE  IInv'
<1> USE DEF IInv, EncodeReturns, Return, Goto
<1>1. Types'
  BY DEF Types, States, VuFacts, Shared, SharedClients
<1>2. VuFacts'
  BY NoneAssumption DEF Types, VuFacts, Shared, ClientFacts, FirstAsked
<1>3. ClientFacts' /\ Turns'
  BY DEF ClientFacts, Turns
<1>4. RequestsRecorded'
  BY KeepRecorded DEF Types
<1> QED
  BY <1>1, <1>2, <1>3, <1>4

LEMMA InvokeRefusedKeeps ==
    ASSUME IInv, NEW v \in Vus, InvokeRefused(v)
    PROVE  IInv'
<1> USE DEF IInv, InvokeRefused, Return, Goto
<1>1. Types'
  BY DEF Types, States, VuFacts, Shared, SharedClients
<1>2. VuFacts'
  BY NoneAssumption DEF Types, VuFacts, Shared, ClientFacts, FirstAsked
<1>3. ClientFacts' /\ Turns'
  BY DEF ClientFacts, Turns
<1>4. RequestsRecorded'
  BY KeepRecorded DEF Types
<1> QED
  BY <1>1, <1>2, <1>3, <1>4

\* The counters of a client that may send have room for one more.
LEMMA RoomForOne ==
    ASSUME NEW k, NEW c \in SharedClients(k), c.sent < MaxCalls
    PROVE  c.sent + 1 \in 0..MaxCalls /\ c.rr + 1 \in Nat /\ c.failed + 1 \in Nat
<1>1. c.sent \in 0..MaxCalls /\ c.rr \in Nat /\ c.failed \in Nat
  BY DEF SharedClients
<1>2. MaxCalls \in Nat
  BY ClientAssumption
<1> QED
  BY <1>1, <1>2

LEMMA MetadataErrorKeeps ==
    ASSUME IInv, NEW v \in Vus, MetadataError(v)
    PROVE  IInv'
<1> DEFINE k == obj[v]
           c == clients[k]
           d == [c EXCEPT !.sent = @ + 1, !.failed = @ + 1]
<1> USE DEF IInv, MetadataError, Return, Goto
<1>1. k \in Keys /\ c \in SharedClients(k) /\ Update(v, d)
  BY DEF Types, VuFacts, Shared
<1>2. c.sent + 1 \in 0..MaxCalls /\ c.failed + 1 \in Nat
  <2>1. c.sent < MaxCalls
    BY DEF Shared
  <2> QED
    BY <1>1, <2>1, RoomForOne
<1>3. d \in SharedClients(k)
  <2> HIDE DEF IInv, MetadataError, Return, Goto
  <2> QED
    BY <1>1, <1>2 DEF SharedClients
<1>4. /\ d.sent = c.sent + 1 /\ d.failed = c.failed + 1
      /\ d.loadSpec = c.loadSpec /\ d.schema = c.schema /\ d.methods = c.methods
      /\ d.spec = c.spec /\ d.dialer = c.dialer /\ d.channels = c.channels /\ d.client = c.client
      /\ d.rr = c.rr /\ d.used = c.used
      /\ d.ok = c.ok
  BY <1>1, <1>2 DEF SharedClients
<1> HIDE DEF d
<1>5. /\ DOMAIN clients' = Keys /\ clients'[k] = d
      /\ \A j \in Keys : j # k => clients'[j] = clients[j]
      /\ \A j \in Keys : clients'[j] \in SharedClients(j)
  BY <1>1, <1>3, UpdateClient
<1>6. Types'
  BY <1>2, <1>5 DEF Types, States
<1>7. VuFacts'
  BY <1>1, <1>2, <1>4, <1>5, NoneAssumption DEF Types, VuFacts, Shared
<1>8. ClientFacts'
  <2>1. FirstAsked(k, d)
    BY <1>1, <1>2, <1>4, NoneAssumption DEF ClientFacts, FirstAsked, SharedClients
  <2> QED
    BY <2>1, <1>5 DEF ClientFacts
<1>9. Turns'
  BY <1>4, <1>5, KeepTurns
<1>10. RequestsRecorded'
  <2> SUFFICES ASSUME NEW j \in Keys
               PROVE  clients'[j].ok + clients'[j].failed
                        + Cardinality({u \in Vus : obj'[u] = j /\ pc'[u] = "flight"}) = clients'[j].sent
    BY DEF RequestsRecorded
  <2>1. {u \in Vus : obj'[u] = j /\ pc'[u] = "flight"} = {u \in Vus : obj[u] = j /\ pc[u] = "flight"}
    BY DEF Types
  <2>2. clients[j].ok + clients[j].failed
          + Cardinality({u \in Vus : obj[u] = j /\ pc[u] = "flight"}) = clients[j].sent
    BY DEF RequestsRecorded
  <2>3. clients[j].ok \in Nat /\ clients[j].failed \in Nat /\ clients[j].sent \in Nat
    BY ClientAssumption DEF Types, SharedClients
  <2>4. Cardinality({u \in Vus : obj[u] = j /\ pc[u] = "flight"}) \in Nat
    BY InFlightFinite
  <2>5. CASE j = k
    BY <2>1, <2>2, <2>3, <2>4, <2>5, <1>4, <1>5
  <2>6. CASE j # k
    BY <2>1, <2>2, <2>6, <1>5
  <2> QED
    BY <2>5, <2>6
<1> QED
  BY <1>6, <1>7, <1>8, <1>9, <1>10

LEMMA SendKeeps ==
    ASSUME IInv, NEW v \in Vus, Send(v)
    PROVE  IInv'
<1> DEFINE k == obj[v]
           c == clients[k]
           i == Channel(c, k)
           d == [c EXCEPT !.rr = @ + 1, !.used[i] = @ + 1, !.sent = @ + 1]
<1> USE DEF IInv, Send, Goto
<1>1. k \in Keys /\ c \in SharedClients(k) /\ Update(v, d)
  BY DEF Types, VuFacts, Shared
<1>2. /\ c.sent + 1 \in 0..MaxCalls /\ c.rr + 1 \in Nat /\ c.client # None
      /\ i \in 1..k /\ c.used \in [1..k -> Nat] /\ [c.used EXCEPT ![i] = @ + 1] \in [1..k -> Nat]
  <2>1. c.client # None /\ c.sent < MaxCalls
    BY DEF VuFacts, Shared
  <2>2. c.sent + 1 \in 0..MaxCalls /\ c.rr + 1 \in Nat
    BY <1>1, <2>1, RoomForOne
  <2>3. k \in Nat \ {0} /\ c.rr \in Nat
    BY <1>1, KeysPositive DEF SharedClients
  <2>4. c.rr % k \in 0..k - 1
    BY <2>3, ModNext
  <2>5. i \in 1..k
    BY <2>3, <2>4 DEF Channel
  <2>6. c.used \in [1..k -> Nat]
    BY <1>1, <2>1 DEF ClientFacts, FirstAsked
  <2> HIDE DEF i
  <2>7. [c.used EXCEPT ![i] = @ + 1] \in [1..k -> Nat]
    BY <2>5, <2>6, Bump
  <2> QED
    BY <2>1, <2>2, <2>5, <2>6, <2>7
<1>3. d \in SharedClients(k)
  <2> HIDE DEF IInv, Send, Goto
  <2> QED
    BY <1>1, <1>2 DEF SharedClients
<1>4. /\ d.rr = c.rr + 1 /\ d.used = [c.used EXCEPT ![i] = @ + 1] /\ d.sent = c.sent + 1
      /\ d.loadSpec = c.loadSpec /\ d.schema = c.schema /\ d.methods = c.methods
      /\ d.spec = c.spec /\ d.dialer = c.dialer /\ d.channels = c.channels /\ d.client = c.client
      /\ d.ok = c.ok /\ d.failed = c.failed
  BY <1>1, <1>2 DEF SharedClients
<1> HIDE DEF d
<1>5. /\ DOMAIN clients' = Keys /\ clients'[k] = d
      /\ \A j \in Keys : j # k => clients'[j] = clients[j]
      /\ \A j \in Keys : clients'[j] \in SharedClients(j)
  BY <1>1, <1>3, UpdateClient
<1>6. Types'
  BY <1>1, <1>2, <1>5, KeysPositive DEF Types, States, Shared
<1>7. VuFacts'
  BY <1>1, <1>2, <1>4, <1>5, NoneAssumption DEF Types, VuFacts, Shared
<1>8. ClientFacts'
  <2>1. FirstAsked(k, d)
    BY <1>1, <1>2, <1>4, NoneAssumption DEF ClientFacts, FirstAsked, SharedClients
  <2> QED
    BY <2>1, <1>5 DEF ClientFacts
<1>9. Turns'
  <2>1. InTurn(k, d)
    <3>1. k \in Nat \ {0} /\ c.rr \in Nat
      BY <1>1, KeysPositive DEF SharedClients
    <3>2. InOrder(c.used, c.rr, k)
      BY <1>1, <1>2 DEF Turns, InTurn
    <3>3. InOrder([c.used EXCEPT ![(c.rr % k) + 1] = @ + 1], c.rr + 1, k)
      BY <1>2, <3>1, <3>2, NextTurn
    <3>4. d.rr = c.rr + 1 /\ d.used = [c.used EXCEPT ![(c.rr % k) + 1] = @ + 1]
      BY <1>4 DEF Channel
    <3> QED
      BY <3>3, <3>4 DEF InTurn
  <2> QED
    BY <2>1, <1>5 DEF Turns
<1>10. RequestsRecorded'
  <2> SUFFICES ASSUME NEW j \in Keys
               PROVE  clients'[j].ok + clients'[j].failed
                        + Cardinality({u \in Vus : obj'[u] = j /\ pc'[u] = "flight"}) = clients'[j].sent
    BY DEF RequestsRecorded
  <2> DEFINE before == {u \in Vus : obj[u] = j /\ pc[u] = "flight"}
             after == {u \in Vus : obj'[u] = j /\ pc'[u] = "flight"}
  <2>1. clients[j].ok + clients[j].failed + Cardinality(before) = clients[j].sent
    BY DEF RequestsRecorded
  <2>2. clients[j].ok \in Nat /\ clients[j].failed \in Nat /\ clients[j].sent \in Nat
    BY ClientAssumption DEF Types, SharedClients
  <2>3. IsFiniteSet(before) /\ Cardinality(before) \in Nat /\ v \notin before
    BY InFlightFinite
  <2>4. CASE j = k
    <3>1. after = before \union {v}
      BY <2>4 DEF Types
    <3>2. Cardinality(after) = Cardinality(before) + 1
      BY <3>1, <2>3, FS_AddElement
    <3> QED
      BY <3>2, <2>1, <2>2, <2>3, <2>4, <1>4, <1>5
  <2>5. CASE j # k
    <3>1. after = before
      BY <2>5 DEF Types
    <3> QED
      BY <3>1, <2>1, <2>5, <1>5
  <2> QED
    BY <2>4, <2>5
<1> QED
  BY <1>6, <1>7, <1>8, <1>9, <1>10

\* The request of v, under way on the client of size k, ends.
LEMMA ReplyKeeps ==
    ASSUME IInv, NEW v \in Vus, Reply(v)
    PROVE  IInv'
<1> DEFINE k == obj[v]
           c == clients[k]
           d == clients'[k]
<1> USE DEF IInv, Reply, Return, Goto
<1>1. k \in Keys /\ c \in SharedClients(k) /\ c.ok + 1 \in Nat /\ c.failed + 1 \in Nat
  BY DEF Types, VuFacts, Shared, SharedClients
<1>2. /\ DOMAIN clients' = Keys
      /\ d = [c EXCEPT !.ok = @ + 1] \/ d = [c EXCEPT !.failed = @ + 1]
      /\ \A j \in Keys : j # k => clients'[j] = clients[j]
  BY <1>1 DEF Types, Update, Shared
<1>3. d \in SharedClients(k)
  <2> HIDE DEF IInv, Reply, Return, Goto
  <2> QED
    BY <1>1, <1>2 DEF SharedClients
<1>4. /\ \/ d.ok = c.ok + 1 /\ d.failed = c.failed
         \/ d.ok = c.ok /\ d.failed = c.failed + 1
      /\ d.loadSpec = c.loadSpec /\ d.schema = c.schema /\ d.methods = c.methods
      /\ d.spec = c.spec /\ d.dialer = c.dialer /\ d.channels = c.channels /\ d.client = c.client
      /\ d.rr = c.rr /\ d.used = c.used /\ d.sent = c.sent
  BY <1>1, <1>2 DEF SharedClients
<1> HIDE DEF d
<1>5. Types'
  BY <1>2, <1>3 DEF Types, States, d
<1>6. VuFacts'
  BY <1>1, <1>2, <1>4, NoneAssumption, KeysPositive DEF Types, VuFacts, Shared, d
<1>7. ClientFacts'
  <2>1. FirstAsked(k, d)
    BY <1>1, <1>4 DEF ClientFacts, FirstAsked
  <2> QED
    BY <2>1, <1>2 DEF ClientFacts, d
<1>8. Turns'
  BY <1>2, <1>4, KeepTurns DEF d
<1>9. RequestsRecorded'
  <2> SUFFICES ASSUME NEW j \in Keys
               PROVE  clients'[j].ok + clients'[j].failed
                        + Cardinality({u \in Vus : obj'[u] = j /\ pc'[u] = "flight"}) = clients'[j].sent
    BY DEF RequestsRecorded
  <2> DEFINE before == {u \in Vus : obj[u] = j /\ pc[u] = "flight"}
             after == {u \in Vus : obj'[u] = j /\ pc'[u] = "flight"}
  <2>1. clients[j].ok + clients[j].failed + Cardinality(before) = clients[j].sent
    BY DEF RequestsRecorded
  <2>2. /\ clients[j].ok \in Nat /\ clients[j].failed \in Nat /\ clients[j].sent \in Nat
        /\ clients'[j].ok \in Nat /\ clients'[j].failed \in Nat
    BY <1>5, ClientAssumption DEF Types, SharedClients
  <2>3. IsFiniteSet(before) /\ Cardinality(before) \in Nat
    BY InFlightFinite
  <2>4. CASE j = k
    <3>1. v \in before /\ after = before \ {v}
      BY <2>4 DEF Types
    <3>2. Cardinality(after) = Cardinality(before) - 1
      BY <3>1, <2>3, FS_RemoveElement
    <3>3. d.sent = c.sent /\ d.ok + d.failed = c.ok + c.failed + 1
      BY <1>4, <2>2, <2>4
    <3> QED
      BY <3>2, <3>3, <2>1, <2>2, <2>3, <2>4 DEF d
  <2>5. CASE j # k
    <3>1. after = before
      BY <2>5 DEF Types
    <3> QED
      BY <3>1, <2>1, <2>5, <1>2
  <2> QED
    BY <2>4, <2>5
<1> QED
  BY <1>5, <1>6, <1>7, <1>8, <1>9

-----------------------------------------------------------------------------
(* The inductive invariant and what follows from it. *)

LEMMA NextKeeps == IInv /\ [ClientNext]_vars => IInv'
<1> SUFFICES ASSUME IInv, [ClientNext]_vars PROVE IInv'
  OBVIOUS
<1>1. CASE UNCHANGED vars
  <2> USE <1>1 DEF IInv, vars
  <2>1. Types' /\ VuFacts' /\ ClientFacts' /\ Turns'
    BY DEF Types, SharedClients, VuFacts, Shared, ClientFacts, FirstAsked, Turns, InTurn
  <2>2. RequestsRecorded'
    BY DEF RequestsRecorded
  <2> QED
    BY <2>1, <2>2
<1>2. ASSUME NEW v \in Vus, CallStep(v) PROVE IInv'
  BY <1>2, SetSchemaKeeps, ClearMethodsKeeps, ConnectedKeeps, AcquireKeeps, DialNextKeeps,
     DialDoneKeeps, DialFailsKeeps, FindMethodKeeps, CacheMethodKeeps, EncodeReturnsKeeps,
     InvokeRefusedKeeps, MetadataErrorKeeps, SendKeeps, ReplyKeeps DEF CallStep
<1> QED
  BY <1>1, <1>2, NewKeeps, LoadBeginKeeps, CheckSpecKeeps, InvokeBeginKeeps, EncodeBeginKeeps
     DEF ClientNext

\* The inductive invariant holds in every run of the VUs' calls.
THEOREM InductiveInvariant == ClientSpec => []IInv
BY InitEstablishes, NextKeeps, PTL DEF ClientSpec

\* The variables of clients and calls have their types: a request's channel is one of
\* its pool's, and no pool has more channels than its size.
THEOREM TypeCorrect == ClientSpec => []ClientTypeOK
<1>1. IInv => ClientTypeOK
  BY DEF IInv, Types, States, VuFacts, SharedClients, ClientTypeOK
<1> QED
  BY <1>1, InductiveInvariant, PTL

\* Whoever is told that it is connected is connected to the target it asked for, with
\* all channels of the pool; a pool is dialled by one task at a time (the OnceCell of
\* connect), and never again once it is there.
THEOREM Connections == ClientSpec => []ConnectionsSound
<1>1. IInv => ConnectedToTarget
  BY DEF IInv, VuFacts, ClientFacts, FirstAsked, Shared, ConnectedToTarget
<1>2. IInv => OneDialer
  <2> SUFFICES ASSUME IInv, NEW k \in Keys
               PROVE  LET dialing == {v \in Vus : pc[v] = "dial" /\ obj[v] = k}
                      IN  /\ Cardinality(dialing) <= 1
                          /\ clients[k].client # None => dialing = {}
    BY DEF OneDialer
  <2> DEFINE dialing == {v \in Vus : pc[v] = "dial" /\ obj[v] = k}
  <2>1. \A v \in dialing : clients[k].dialer = v /\ clients[k].client = None
    BY DEF IInv, VuFacts, Shared
  <2>2. dialing = {} \/ dialing = {clients[k].dialer}
    BY <2>1
  <2>3. Cardinality(dialing) <= 1
    <3>1. Cardinality({}) = 0 /\ Cardinality({clients[k].dialer}) = 1
      BY FS_EmptySet, FS_Singleton
    <3> HIDE DEF dialing
    <3> QED
      BY <2>2, <3>1
  <2> QED
    BY <2>1, <2>3
<1> QED
  BY <1>1, <1>2, InductiveInvariant, PTL DEF ConnectionsSound

\* The methods that are cached or in use are of the schema that load recorded: method
\* reads cache and schema without the lock of load, and never mixes two schemas.
THEOREM OneSchema == ClientSpec => []MethodsOfSchema
<1>1. IInv => MethodsOfSchema
  BY DEF IInv, VuFacts, ClientFacts, FirstAsked, MethodsOfSchema
<1> QED
  BY <1>1, InductiveInvariant, PTL

\* The channels of a pool get their turns, and every request that was sent, or refused
\* for its metadata, is counted once by the request metrics when its call returns.
THEOREM RequestsCounted == ClientSpec => []RequestsSound
<1>1. IInv => ChannelsBalanced
  <2> SUFFICES ASSUME IInv, NEW k \in Keys,
                      NEW i \in DOMAIN clients[k].used, NEW j \in DOMAIN clients[k].used
               PROVE  clients[k].used[i] - clients[k].used[j] <= 1
    BY DEF ChannelsBalanced
  <2>1. CASE clients[k].client = None
    BY <2>1 DEF IInv, ClientFacts, FirstAsked
  <2>2. CASE clients[k].client # None
    <3>1. i \in 1..k /\ j \in 1..k
      BY <2>2 DEF IInv, ClientFacts, FirstAsked
    <3> QED
      BY <3>1, <2>2 DEF IInv, Turns, InTurn, InOrder
  <2> QED
    BY <2>1, <2>2
<1> QED
  BY <1>1, InductiveInvariant, PTL DEF RequestsSound, IInv

-----------------------------------------------------------------------------
(* WirePrimitives.  Induction and recursion over numbers, from the library's *)
(* well-foundedness of <.                                                    *)

\* A well-founded order has a least element in every set of numbers.
LEMMA Minimal ==
    ASSUME NEW rel, IsWellFoundedOn(rel, Nat), NEW S \in SUBSET Nat, S # {}
    PROVE  \E n \in S : \A m \in S : ~(<<m, n>> \in rel)
BY WFMin

\* If the order contains <, that is the least number of the set.
LEMMA LeastIn ==
    ASSUME NEW rel, IsWellFoundedOn(rel, Nat), \A m, n \in Nat : m < n => <<m, n>> \in rel,
           NEW S \in SUBSET Nat, S # {}
    PROVE  \E n \in S : \A m \in S : n <= m
<1>1. S \subseteq Nat
  OBVIOUS
<1>2. PICK n \in S : \A m \in S : ~(<<m, n>> \in rel)
  BY Minimal, Zenon
<1>3. \A m \in S : ~(m < n)
  BY <1>1, <1>2, Zenon
<1>4. \A m \in S : n <= m
  BY <1>1, <1>3
<1> QED
  BY <1>4

\* Every set of numbers has a least one.
LEMMA LeastNumber ==
    ASSUME NEW S \in SUBSET Nat, S # {}
    PROVE  \E n \in S : \A m \in S : n <= m
<1>1. IsWellFoundedOn(OpToRel(<, Nat), Nat)
  BY NatLessThanWellFounded
<1>2. \A m, n \in Nat : m < n => <<m, n>> \in OpToRel(<, Nat)
  BY DEF OpToRel
<1> QED
  BY <1>1, <1>2, LeastIn, Zenon

\* A set of numbers with 0 and the successors of its elements is Nat.
LEMMA Induction ==
    ASSUME NEW S \in SUBSET Nat, 0 \in S, \A n \in S : n + 1 \in S
    PROVE  S = Nat
<1> SUFFICES ASSUME Nat \ S # {} PROVE FALSE
  OBVIOUS
<1>1. PICK n \in Nat \ S : \A m \in Nat \ S : n <= m
  BY LeastNumber
<1>2. n - 1 \in Nat /\ n - 1 \notin Nat \ S
  BY <1>1
<1>3. (n - 1) + 1 \in S
  BY <1>2
<1> QED
  BY <1>1, <1>3

\* f is what primitive recursion from a with the steps h computes, up to n.
Follows(f, a, h, n) == f[0] = a /\ \A k \in 0 .. n - 1 : f[k + 1] = h[k][f[k]]

\* Primitive recursion has a result up to every number, ...
LEMMA Recursion ==
    ASSUME NEW S, NEW a \in S, NEW h \in [Nat -> [S -> S]], NEW m \in Nat
    PROVE  \E f \in [0 .. m -> S] : Follows(f, a, h, m)
<1> DEFINE N == {n \in Nat : \E f \in [0 .. n -> S] : Follows(f, a, h, n)}
<1>1. 0 \in N
  <2>1. PICK f : f = [k \in 0 .. 0 |-> a]
    OBVIOUS
  <2>2. f \in [0 .. 0 -> S] /\ Follows(f, a, h, 0)
    BY <2>1 DEF Follows
  <2> QED
    BY <2>2
<1>2. ASSUME NEW n \in N PROVE n + 1 \in N
  <2>1. n \in Nat /\ \E f \in [0 .. n -> S] : Follows(f, a, h, n)
    OBVIOUS
  <2>2. PICK f \in [0 .. n -> S] : Follows(f, a, h, n)
    BY <2>1
  <2>3. PICK g : g = [k \in 0 .. n + 1 |-> IF k = n + 1 THEN h[n][f[n]] ELSE f[k]]
    OBVIOUS
  <2>4. h[n][f[n]] \in S
    BY <2>1
  <2>5. g \in [0 .. n + 1 -> S]
    BY <2>1, <2>3, <2>4
  <2>6. g[0] = a /\ g[n + 1] = h[n][f[n]] /\ \A k \in 0 .. n : g[k] = f[k]
    BY <2>1, <2>2, <2>3 DEF Follows
  <2>7. \A k \in 0 .. (n + 1) - 1 : g[k + 1] = h[k][g[k]]
    <3> SUFFICES ASSUME NEW k \in 0 .. n PROVE g[k + 1] = h[k][g[k]]
      BY <2>1
    <3>1. CASE k = n
      BY <2>1, <2>6, <3>1
    <3>2. CASE k # n
      <4>1. k \in 0 .. n - 1 /\ k + 1 \in 0 .. n
        BY <2>1, <3>2
      <4> QED
        BY <2>2, <2>6, <4>1 DEF Follows
    <3> QED
      BY <3>1, <3>2
  <2>8. Follows(g, a, h, n + 1)
    BY <2>6, <2>7 DEF Follows
  <2> QED
    BY <2>1, <2>5, <2>8
<1> HIDE DEF N
<1>3. N = Nat
  BY <1>1, <1>2, Induction DEF N
<1> QED
  BY <1>3 DEF N

\* ... and only one, ...
LEMMA RecursionUnique ==
    ASSUME NEW f, NEW g, NEW a, NEW h, NEW m \in Nat, NEW n \in Nat, m <= n,
           Follows(f, a, h, m), Follows(g, a, h, n)
    PROVE  f[m] = g[m]
<1> DEFINE N == {k \in Nat : k <= m => f[k] = g[k]}
<1>1. 0 \in N
  BY DEF Follows
<1>2. ASSUME NEW k \in N PROVE k + 1 \in N
  <2>1. k \in Nat
    OBVIOUS
  <2>2. ASSUME k + 1 <= m PROVE f[k + 1] = g[k + 1]
    <3>1. k \in 0 .. m - 1 /\ k \in 0 .. n - 1 /\ f[k] = g[k]
      BY <2>1, <2>2
    <3> QED
      BY <3>1 DEF Follows
  <2> QED
    BY <2>1, <2>2
<1> HIDE DEF N
<1>3. N = Nat
  BY <1>1, <1>2, Induction DEF N
<1> QED
  BY <1>3 DEF N

\* The function over all numbers.
Computes(f, S, a, h) == f \in [Nat -> S] /\ f[0] = a /\ \A k \in Nat : f[k + 1] = h[k][f[k]]

\* ... so it defines a function over all numbers.
LEMMA RecursionOverNat ==
    ASSUME NEW S, NEW a \in S, NEW h \in [Nat -> [S -> S]]
    PROVE  \E f : Computes(f, S, a, h)
<1> DEFINE Good(n, f) == f \in [0 .. n -> S] /\ Follows(f, a, h, n)
<1>1. PICK F : F = [n \in Nat |-> CHOOSE f : Good(n, f)]
  OBVIOUS
<1>2. \A n \in Nat : \E f : Good(n, f)
  BY Recursion
<1>3. \A n \in Nat : Good(n, F[n])
  <2> HIDE DEF Good
  <2> QED
    BY <1>1, <1>2
<1>4. PICK g : g = [n \in Nat |-> F[n][n]]
  OBVIOUS
<1>5. g \in [Nat -> S] /\ g[0] = a
  BY <1>3, <1>4 DEF Follows
<1>6. ASSUME NEW k \in Nat PROVE g[k + 1] = h[k][g[k]]
  <2>1. k + 1 \in Nat /\ k <= k + 1 /\ k \in 0 .. (k + 1) - 1
    OBVIOUS
  <2>2. Follows(F[k], a, h, k) /\ Follows(F[k + 1], a, h, k + 1)
    BY <1>3, <2>1
  <2>3. F[k][k] = F[k + 1][k]
    BY <2>1, <2>2, RecursionUnique
  <2>4. F[k + 1][k + 1] = h[k][F[k + 1][k]]
    BY <2>1, <2>2 DEF Follows
  <2> QED
    BY <1>4, <2>1, <2>3, <2>4
<1>7. Computes(g, S, a, h)
  BY <1>5, <1>6 DEF Computes
<1> QED
  BY <1>7
-----------------------------------------------------------------------------
(* Powers of two. *)

\* The recursive definition of Power defines what it says.
LEMMA PowerIs ==
    /\ Power \in [Nat -> Nat]
    /\ Power[0] = 1
    /\ \A n \in Nat : Power[n + 1] = 2 * Power[n]
<1> DEFINE Is(p) == p = [n \in Nat |-> IF n = 0 THEN 1 ELSE 2 * p[n - 1]]
<1>1. PICK h : h = [k \in Nat |-> [x \in Nat |-> 2 * x]]
  OBVIOUS
<1>2. h \in [Nat -> [Nat -> Nat]] /\ \A k \in Nat : \A x \in Nat : h[k][x] = 2 * x
  BY <1>1
<1>3. PICK f \in [Nat -> Nat] : f[0] = 1 /\ \A k \in Nat : f[k + 1] = h[k][f[k]]
  <2>1. \E f : Computes(f, Nat, 1, h)
    BY <1>2, RecursionOverNat
  <2> QED
    BY <2>1 DEF Computes
<1>4. \A k \in Nat : f[k + 1] = 2 * f[k]
  BY <1>2, <1>3
<1>5. \A n \in Nat : f[n] = IF n = 0 THEN 1 ELSE 2 * f[n - 1]
  <2> SUFFICES ASSUME NEW n \in Nat, n # 0 PROVE f[n] = 2 * f[n - 1]
    BY <1>3
  <2>1. n - 1 \in Nat /\ (n - 1) + 1 = n
    OBVIOUS
  <2> QED
    BY <1>4, <2>1
<1>6. Is(f)
  BY <1>3, <1>5
<1>7. Is(Power)
  <2>1. Power = CHOOSE p : Is(p)
    BY DEF Power
  <2> HIDE DEF Is
  <2> QED
    BY <1>6, <2>1
<1>8. DOMAIN Power = Nat /\ Power[0] = 1 /\ \A n \in Nat : Power[n + 1] = 2 * Power[n]
  <2>1. DOMAIN Power = Nat /\ \A n \in Nat : Power[n] = IF n = 0 THEN 1 ELSE 2 * Power[n - 1]
    BY <1>7
  <2>2. ASSUME NEW n \in Nat PROVE Power[n + 1] = 2 * Power[n]
    <3>1. n + 1 \in Nat /\ n + 1 # 0 /\ (n + 1) - 1 = n
      OBVIOUS
    <3> QED
      BY <2>1, <3>1
  <2> QED
    BY <2>1, <2>2
<1> DEFINE N == {n \in Nat : Power[n] \in Nat}
<1>9. 0 \in N /\ \A n \in N : n + 1 \in N
  BY <1>8
<1> HIDE DEF N
<1>10. N = Nat
  BY <1>9, Induction DEF N
<1>11. \A n \in Nat : Power[n] \in Nat
  BY <1>10 DEF N
<1>12. Power = [n \in Nat |-> Power[n]]
  BY <1>7
<1> QED
  BY <1>8, <1>11, <1>12

\* Powers are positive numbers.
LEMMA PowerPositive ==
    ASSUME NEW n \in Nat
    PROVE  Power[n] \in Nat /\ Power[n] > 0
<1> DEFINE N == {k \in Nat : Power[k] > 0}
<1>1. 0 \in N /\ \A k \in N : k + 1 \in N
  BY PowerIs
<1> HIDE DEF N
<1>2. N = Nat
  BY <1>1, Induction DEF N
<1> QED
  BY <1>2, PowerIs DEF N

\* A shift by the sum of two is the one after the other.
LEMMA PowerSum ==
    ASSUME NEW m \in Nat, NEW n \in Nat
    PROVE  Power[m + n] = Power[m] * Power[n]
<1> DEFINE N == {k \in Nat : Power[m + k] = Power[m] * Power[k]}
<1>1. 0 \in N
  BY PowerIs
<1>2. ASSUME NEW k \in N PROVE k + 1 \in N
  <2>1. k \in Nat /\ Power[m + k] = Power[m] * Power[k]
    OBVIOUS
  <2>2. m + k \in Nat /\ m + (k + 1) = (m + k) + 1
    BY <2>1
  <2>3. Power[m + (k + 1)] = 2 * Power[m + k] /\ Power[k + 1] = 2 * Power[k]
    BY <2>1, <2>2, PowerIs
  <2>4. PICK a, b : a = Power[m] /\ b = Power[k] /\ a \in Nat /\ b \in Nat
    BY <2>1, PowerIs
  <2>5. 2 * (a * b) = a * (2 * b)
    BY <2>4
  <2> QED
    BY <2>1, <2>3, <2>4, <2>5
<1> HIDE DEF N
<1>3. N = Nat
  BY <1>1, <1>2, Induction DEF N
<1> QED
  BY <1>3 DEF N

\* More bits hold at least as many numbers.
LEMMA PowerGrows ==
    ASSUME NEW m \in Nat, NEW n \in Nat, m <= n
    PROVE  Power[m] <= Power[n]
<1>1. n - m \in Nat /\ n = m + (n - m)
  OBVIOUS
<1>2. Power[n] = Power[m] * Power[n - m]
  BY <1>1, PowerSum
<1>3. PICK a, b : a = Power[m] /\ b = Power[n - m] /\ a \in Nat /\ b \in Nat /\ b > 0
  BY <1>1, PowerPositive
<1>4. a <= a * b
  BY <1>3
<1> QED
  BY <1>2, <1>3, <1>4

-----------------------------------------------------------------------------
(* Digits. *)

\* Quotient and remainder.
LEMMA DivMod ==
    ASSUME NEW x \in Nat, NEW y \in Nat, y > 0
    PROVE  /\ x \div y \in Nat /\ x % y \in Nat /\ x % y < y
           /\ x = y * (x \div y) + (x % y)
OBVIOUS

\* A remainder is the only number below the divisor that differs by a multiple of it.
LEMMA ModIs ==
    ASSUME NEW x \in Nat, NEW y \in Nat, y > 0, NEW q \in Nat, NEW r \in Nat, r < y, x = y * q + r
    PROVE  x % y = r /\ x \div y = q
<1>1. PICK p, s : p = x \div y /\ s = x % y
  OBVIOUS
<1>2. p \in Nat /\ s \in Nat /\ s < y /\ x = y * p + s
  BY <1>1, DivMod
<1>3. ASSUME q < p PROVE FALSE
  <2>1. PICK d \in Nat : p = q + 1 + d
    BY <1>2, <1>3
  <2>2. y * p = y * q + y + y * d /\ y * d >= 0 /\ y * d \in Nat /\ y * q \in Nat
    BY <2>1
  <2> QED
    BY <1>2, <2>2
<1>4. ASSUME p < q PROVE FALSE
  <2>1. PICK d \in Nat : q = p + 1 + d
    BY <1>2, <1>4
  <2>2. y * q = y * p + y + y * d /\ y * d >= 0 /\ y * d \in Nat /\ y * p \in Nat
    BY <1>2, <2>1
  <2> QED
    BY <1>2, <2>2
<1>5. p = q
  BY <1>2, <1>3, <1>4
<1>6. y * q \in Nat
  OBVIOUS
<1>7. s = r
  BY <1>2, <1>5, <1>6
<1> QED
  BY <1>1, <1>5, <1>7

\* One digit more.
LEMMA DigitMore ==
    ASSUME NEW u \in Nat, NEW p \in Nat, p > 0, NEW q \in Nat, q > 0
    PROVE  u % (p * q) = (u % p) + ((u \div p) % q) * p
<1>1. PICK a, r : a = u \div p /\ r = u % p
  OBVIOUS
<1>2. a \in Nat /\ r \in Nat /\ r < p /\ u = p * a + r
  BY <1>1, DivMod
<1>3. PICK b, c : b = a \div q /\ c = a % q
  OBVIOUS
<1>4. b \in Nat /\ c \in Nat /\ c < q /\ a = q * b + c
  BY <1>2, <1>3, DivMod
<1>5. PICK y, s : y = p * q /\ s = c * p + r
  OBVIOUS
<1>6. y \in Nat /\ s \in Nat
  BY <1>2, <1>4, <1>5
<1>7. s < y /\ y > 0
  <2>1. PICK d \in Nat : q = c + 1 + d
    BY <1>4
  <2>2. p * q = c * p + p + p * d /\ p * d \in Nat /\ c * p \in Nat
    BY <1>4, <2>1
  <2> QED
    BY <1>2, <1>5, <2>2
<1>8. u = y * b + s
  <2>1. p * a = p * (q * b) + p * c
    BY <1>4
  <2>2. p * (q * b) = (p * q) * b /\ p * c = c * p
    BY <1>4
  <2> QED
    BY <1>2, <1>4, <1>5, <2>1, <2>2
<1>9. u % y = s
  BY <1>2, <1>4, <1>6, <1>7, <1>8, ModIs
<1> QED
  BY <1>1, <1>3, <1>5, <1>9
\* The digits of a number add up to it, as far as they go.
LEMMA JoinedIs ==
    ASSUME NEW u \in Nat, NEW bits \in Nat, NEW n \in Nat, NEW digits,
           \A i \in 1 .. n : digits[i] = Digit(u, bits, i - 1)
    PROVE  Joined(digits, bits, n) = u % Power[bits * n]
<1>1. \A k \in Nat : bits * k \in Nat
  OBVIOUS
<1>2. ASSUME NEW k \in 0 .. n - 1
      PROVE  /\ u % Power[bits * k] \in Nat
             /\ digits[k + 1] * Power[bits * k] \in Nat
             /\ u % Power[bits * (k + 1)] = (u % Power[bits * k]) + digits[k + 1] * Power[bits * k]
  <2>1. k \in Nat /\ k + 1 \in 1 .. n /\ (k + 1) - 1 = k
    OBVIOUS
  <2>2. PICK p, q : p = Power[bits * k] /\ q = Power[bits]
    OBVIOUS
  <2>3. p \in Nat /\ p > 0 /\ q \in Nat /\ q > 0
    BY <1>1, <2>1, <2>2, PowerPositive
  <2>4. digits[k + 1] = (u \div p) % q
    BY <2>1, <2>2 DEF Digit, Shifted
  <2>5. bits * k \in Nat /\ bits * (k + 1) = bits * k + bits
    BY <1>1, <2>1
  <2>6. Power[bits * (k + 1)] = p * q
    BY <2>2, <2>5, PowerSum
  <2>7. u \div p \in Nat /\ u % p \in Nat
    BY <2>3, DivMod
  <2>8. (u \div p) % q \in Nat
    BY <2>3, <2>7, DivMod
  <2>9. u % (p * q) = (u % p) + ((u \div p) % q) * p
    BY <2>3, DigitMore
  <2>10. ((u \div p) % q) * p \in Nat
    BY <2>3, <2>8
  <2> QED
    BY <2>2, <2>4, <2>6, <2>7, <2>9, <2>10
<1> DEFINE Is(f) == f = [k \in 0 .. n |->
                          IF k = 0 THEN 0 ELSE f[k - 1] + digits[k] * Power[bits * (k - 1)]]
<1>3. \E f : Is(f)
  <2>1. PICK f : f = [k \in 0 .. n |-> u % Power[bits * k]]
    OBVIOUS
  <2>2. f[0] = 0
    <3>1. bits * 0 = 0 /\ u % 1 = 0
      OBVIOUS
    <3> QED
      BY <2>1, <3>1, PowerIs
  <2>3. ASSUME NEW k \in 0 .. n, k # 0
        PROVE  f[k] = f[k - 1] + digits[k] * Power[bits * (k - 1)]
    <3>1. PICK j : j = k - 1
      OBVIOUS
    <3>2. j \in 0 .. n - 1 /\ k = j + 1 /\ j \in 0 .. n
      BY <2>3, <3>1
    <3>3. u % Power[bits * (j + 1)] = (u % Power[bits * j]) + digits[j + 1] * Power[bits * j]
      BY <1>2, <3>2
    <3> QED
      BY <2>1, <3>1, <3>2, <3>3
  <2>4. \A k \in 0 .. n : f[k] = IF k = 0 THEN 0 ELSE f[k - 1] + digits[k] * Power[bits * (k - 1)]
    BY <2>2, <2>3
  <2>5. f = [k \in 0 .. n |-> IF k = 0 THEN 0 ELSE f[k - 1] + digits[k] * Power[bits * (k - 1)]]
    BY <2>1, <2>4
  <2> QED
    BY <2>5
<1>4. PICK out : out = CHOOSE f : Is(f)
  OBVIOUS
<1>5. Joined(digits, bits, n) = out[n]
  BY <1>4 DEF Joined
<1>6. Is(out)
  <2> HIDE DEF Is
  <2> QED
    BY <1>3, <1>4
<1>7. out[0] = 0 /\ \A k \in 0 .. n - 1 : out[k + 1] = out[k] + digits[k + 1] * Power[bits * k]
  <2>1. \A k \in 0 .. n : out[k] = IF k = 0 THEN 0 ELSE out[k - 1] + digits[k] * Power[bits * (k - 1)]
    BY <1>6
  <2>2. ASSUME NEW k \in 0 .. n - 1
        PROVE  out[k + 1] = out[k] + digits[k + 1] * Power[bits * k]
    <3>1. k + 1 \in 0 .. n /\ k + 1 # 0 /\ (k + 1) - 1 = k
      OBVIOUS
    <3> QED
      BY <2>1, <3>1
  <2> QED
    BY <2>1, <2>2
<1> DEFINE N == {k \in Nat : k <= n => out[k] = u % Power[bits * k]}
<1>8. 0 \in N
  <2>1. bits * 0 = 0 /\ u % 1 = 0
    OBVIOUS
  <2> QED
    BY <1>7, <2>1, PowerIs
<1>9. ASSUME NEW k \in N PROVE k + 1 \in N
  <2>1. k \in Nat
    OBVIOUS
  <2>2. ASSUME k + 1 <= n PROVE out[k + 1] = u % Power[bits * (k + 1)]
    <3>1. k \in 0 .. n - 1 /\ out[k] = u % Power[bits * k]
      BY <2>1, <2>2
    <3> QED
      BY <1>2, <1>7, <3>1
  <2> QED
    BY <2>1, <2>2
<1> HIDE DEF N
<1>10. N = Nat
  BY <1>8, <1>9, Induction DEF N
<1>11. out[n] = u % Power[bits * n]
  BY <1>10 DEF N
<1> QED
  BY <1>5, <1>11

\* A number is its own remainder by a larger one.
LEMMA Below ==
    ASSUME NEW x \in Nat, NEW y \in Nat, x < y
    PROVE  x % y = x
<1>1. y > 0 /\ x = y * 0 + x
  OBVIOUS
<1> QED
  BY <1>1, ModIs
-----------------------------------------------------------------------------
(* Varints. *)

\* The widths are positive, and MaxGroups groups hold a word.
LEMMA Widths ==
    /\ WordBits \in Nat \ {0} /\ GroupBits \in Nat \ {0}
    /\ MaxGroups \in Nat \ {0} /\ GroupBits * MaxGroups \in Nat /\ WordBits <= GroupBits * MaxGroups
    /\ Word \in Nat /\ Word > 0 /\ Group \in Nat /\ Group > 0
<1>1. WordBits \in Nat \ {0} /\ GroupBits \in Nat \ {0}
  BY WidthAssumption
<1>2. PICK x, g, m : x = WordBits + GroupBits - 1 /\ g = GroupBits /\ m = MaxGroups
  OBVIOUS
<1>3. x \in Nat /\ g \in Nat /\ g > 0 /\ x >= g /\ m = x \div g
  BY <1>1, <1>2 DEF MaxGroups
<1>4. m \in Nat /\ x % g \in Nat /\ x % g < g /\ x = g * m + (x % g)
  BY <1>3, DivMod
<1>5. m # 0
  BY <1>3, <1>4
<1>6. g * m \in Nat /\ WordBits <= g * m
  BY <1>1, <1>2, <1>3, <1>4
<1>7. Word \in Nat /\ Word > 0 /\ Group \in Nat /\ Group > 0
  BY <1>1, PowerPositive DEF Word, Group
<1> QED
  BY <1>1, <1>2, <1>4, <1>5, <1>6, <1>7

\* Less than a group is left after i groups exactly if i + 1 groups hold the number.
LEMMA ShiftedIs ==
    ASSUME NEW u \in Nat, NEW i \in Nat
    PROVE  /\ GroupBits * i \in Nat /\ Power[GroupBits * i] \in Nat /\ Power[GroupBits * i] > 0
           /\ Shifted(u, GroupBits, i) \in Nat
           /\ Shifted(u, GroupBits, i) < Group => u < Power[GroupBits * (i + 1)]
           /\ u < Power[GroupBits * (i + 1)] => Shifted(u, GroupBits, i) < Group
<1>1. GroupBits \in Nat /\ GroupBits * i \in Nat /\ GroupBits * (i + 1) = GroupBits * i + GroupBits
  BY Widths
<1>2. PICK p, q, a : p = Power[GroupBits * i] /\ q = Group /\ a = u \div p
  OBVIOUS
<1>3. p \in Nat /\ p > 0 /\ q \in Nat /\ q > 0
  BY <1>1, <1>2, PowerPositive, Widths
<1>4. Power[GroupBits * (i + 1)] = p * q
  BY <1>1, <1>2, PowerSum DEF Group
<1>5. a \in Nat /\ u % p \in Nat /\ u % p < p /\ u = p * a + (u % p)
  BY <1>2, <1>3, DivMod
<1>6. Shifted(u, GroupBits, i) = a
  BY <1>2 DEF Shifted
<1>7. ASSUME a < q PROVE u < p * q
  <2>1. PICK d \in Nat : q = a + 1 + d
    BY <1>3, <1>5, <1>7
  <2>2. p * q = p * a + p + p * d /\ p * d \in Nat /\ p * a \in Nat
    BY <1>3, <1>5, <2>1
  <2>3. PICK b, c, r : b = p * a /\ c = p * d /\ r = u % p
    OBVIOUS
  <2>4. u = b + r /\ r < p /\ b \in Nat /\ c \in Nat /\ r \in Nat
    BY <1>5, <2>2, <2>3
  <2>5. u < b + p + c
    BY <1>3, <2>4
  <2> QED
    BY <2>2, <2>3, <2>5
<1>8. ASSUME u < p * q PROVE a < q
  <2>1. SUFFICES ASSUME q <= a PROVE FALSE
    BY <1>3, <1>5
  <2>2. PICK d \in Nat : a = q + d
    BY <1>3, <1>5, <2>1
  <2>3. p * a = p * q + p * d /\ p * d \in Nat /\ p * q \in Nat
    BY <1>3, <2>2
  <2> QED
    BY <1>5, <1>8, <2>3
<1> QED
  BY <1>1, <1>2, <1>3, <1>4, <1>5, <1>6, <1>7, <1>8

\* write_variant: the bytes of a word are its groups, all but the last marked.
LEMMA VariantIs ==
    ASSUME NEW u \in Unsigned
    PROVE  \E last \in Nat :
             /\ last + 1 <= MaxGroups
             /\ u < Power[GroupBits * (last + 1)]
             /\ WriteVariant(u) = [i \in 1 .. last + 1 |->
                    Digit(u, GroupBits, i - 1) + (IF i <= last THEN Group ELSE 0)]
<1>1. u \in Nat /\ u < Word
  BY Widths DEF Unsigned
<1>2. PICK S : S = {i \in 0 .. MaxGroups : Shifted(u, GroupBits, i) < Group}
  OBVIOUS
<1>3. MaxGroups - 1 \in S
  <2>1. MaxGroups - 1 \in Nat /\ MaxGroups - 1 \in 0 .. MaxGroups /\ (MaxGroups - 1) + 1 = MaxGroups
    BY Widths
  <2>2. Word <= Power[GroupBits * MaxGroups]
    BY Widths, PowerGrows DEF Word
  <2>3. u < Power[GroupBits * MaxGroups]
    BY <1>1, <2>2, Widths, PowerPositive
  <2> QED
    BY <1>1, <1>2, <2>1, <2>3, ShiftedIs
<1>4. S \in SUBSET Nat /\ S # {}
  BY <1>2, <1>3, Widths
<1>5. PICK m \in S : \A k \in S : m <= k
  BY <1>4, LeastNumber
<1>6. PICK last : last = Min(S)
  OBVIOUS
<1>7. last \in S /\ \A k \in S : last <= k
  BY <1>5, <1>6 DEF Min
<1>8. last \in Nat /\ last + 1 <= MaxGroups
  BY <1>3, <1>4, <1>7, Widths
<1>9. u < Power[GroupBits * (last + 1)]
  BY <1>1, <1>2, <1>7, <1>8, ShiftedIs
<1>10. WriteVariant(u) = [i \in 1 .. last + 1 |->
                           Digit(u, GroupBits, i - 1) + (IF i <= last THEN Group ELSE 0)]
  BY <1>2, <1>6, Zenon DEF WriteVariant
<1> QED
  BY <1>8, <1>9, <1>10

\* A digit is a number that its bits hold.
LEMMA DigitIs ==
    ASSUME NEW u \in Nat, NEW bits \in Nat, NEW i \in Nat
    PROVE  Digit(u, bits, i) \in Nat /\ Digit(u, bits, i) < Power[bits]
<1>1. bits * i \in Nat
  OBVIOUS
<1>2. PICK p, q : p = Power[bits * i] /\ q = Power[bits]
  OBVIOUS
<1>3. p \in Nat /\ p > 0 /\ q \in Nat /\ q > 0
  BY <1>1, <1>2, PowerPositive
<1>4. u \div p \in Nat
  BY <1>3, DivMod
<1>5. (u \div p) % q \in Nat /\ (u \div p) % q < q
  BY <1>3, <1>4, DivMod
<1> QED
  BY <1>2, <1>5 DEF Digit, Shifted
\* What is appended follows.
Joins(c, a, b) ==
    /\ c \in Seq(Nat) /\ Len(c) = Len(a) + Len(b)
    /\ \A i \in 1 .. Len(a) : c[i] = a[i]
    /\ \A i \in 1 .. Len(b) : c[Len(a) + i] = b[i]

LEMMA Appended ==
    ASSUME NEW a \in Seq(Nat), NEW b \in Seq(Nat)
    PROVE  Joins(a \o b, a, b)
<1>1. a \o b \in Seq(Nat) /\ Len(a \o b) = Len(a) + Len(b)
  OBVIOUS
<1>2. \A i \in 1 .. Len(a) : (a \o b)[i] = a[i]
  OBVIOUS
<1>3. \A i \in 1 .. Len(b) : (a \o b)[Len(a) + i] = b[i]
  OBVIOUS
<1> QED
  BY <1>1, <1>2, <1>3 DEF Joins

\* Sequences are equal if their lengths and elements are.
LEMMA SameSeq ==
    ASSUME NEW R, NEW a \in Seq(R), NEW b \in Seq(R), Len(a) = Len(b),
           \A i \in 1 .. Len(b) : a[i] = b[i]
    PROVE  a = b
OBVIOUS

\* It does not matter what is appended first.
LEMMA Associates ==
    ASSUME NEW a \in Seq(Nat), NEW b \in Seq(Nat), NEW c \in Seq(Nat)
    PROVE  (a \o b) \o c = a \o (b \o c)
<1>1. PICK x, y : x = a \o b /\ y = b \o c
  OBVIOUS
<1>2. Joins(x, a, b) /\ Joins(y, b, c)
  BY <1>1, Appended
<1>3. x \in Seq(Nat) /\ y \in Seq(Nat)
  BY <1>2 DEF Joins
<1>4. PICK l, r : l = x \o c /\ r = a \o y
  OBVIOUS
<1>5. Joins(l, x, c) /\ Joins(r, a, y)
  BY <1>3, <1>4, Appended
<1>6. PICK m, n, k : m = Len(a) /\ n = Len(b) /\ k = Len(c)
  OBVIOUS
<1>7. m \in Nat /\ n \in Nat /\ k \in Nat
  BY <1>6
<1>8. l \in Seq(Nat) /\ r \in Seq(Nat) /\ Len(x) = m + n /\ Len(y) = n + k /\ Len(l) = Len(r)
      /\ Len(r) = m + (n + k)
  BY <1>2, <1>5, <1>6, <1>7 DEF Joins
<1>9. ASSUME NEW i \in 1 .. m + (n + k) PROVE l[i] = r[i]
  <2>1. CASE i <= m
    <3>1. i \in 1 .. m /\ i \in 1 .. m + n
      BY <1>7, <2>1
    <3> QED
      BY <1>2, <1>5, <1>6, <1>8, <3>1 DEF Joins
  <2>2. CASE m < i /\ i <= m + n
    <3>1. PICK j : j = i - m
      OBVIOUS
    <3>2. j \in 1 .. n /\ j \in 1 .. n + k /\ i = m + j /\ i \in 1 .. m + n
      BY <1>7, <2>2, <3>1
    <3>3. l[i] = x[i] /\ x[m + j] = b[j] /\ y[j] = b[j] /\ r[m + j] = y[j]
      BY <1>2, <1>5, <1>6, <1>8, <3>2 DEF Joins
    <3> QED
      BY <3>2, <3>3
  <2>3. CASE m + n < i
    <3>1. PICK j : j = i - (m + n)
      OBVIOUS
    <3>2. j \in 1 .. k /\ n + j \in 1 .. n + k /\ i = (m + n) + j /\ i = m + (n + j)
      BY <1>7, <2>3, <3>1
    <3>3. l[(m + n) + j] = c[j] /\ y[n + j] = c[j] /\ r[m + (n + j)] = y[n + j]
      BY <1>2, <1>5, <1>6, <1>8, <3>2 DEF Joins
    <3> QED
      BY <3>2, <3>3
  <2> QED
    BY <1>7, <2>1, <2>2, <2>3
<1>10. l = r
  BY <1>8, <1>9, SameSeq
<1> QED
  BY <1>1, <1>4, <1>10

\* c is the m elements of a and then b.
Extends(c, a, m, b) ==
    /\ c \in Seq(Nat) /\ Len(c) = m + Len(b) /\ Len(b) \in Nat
    /\ \A i \in 1 .. m : c[i] = a[i]
    /\ SubSeq(c, m + 1, Len(c)) = b
    /\ SubSeq(c, 1, m) = a

\* Appending b to m numbers extends them by b.
LEMMA ConcatIs ==
    ASSUME NEW m \in Nat, NEW a \in [1 .. m -> Nat], NEW b \in Seq(Nat)
    PROVE  Extends(a \o b, a, m, b)
<1>1. PICK s, c : s = a /\ c = s \o b
  OBVIOUS
<1>2. s \in Seq(Nat) /\ Len(s) = m /\ Len(b) \in Nat
  BY <1>1
<1>3. Joins(c, s, b)
  <2>1. Joins(s \o b, s, b)
    BY <1>2, Appended
  <2> QED
    BY <1>1, <2>1
<1>4. SubSeq(c, m + 1, Len(c)) = b
  <2>1. PICK d : d = SubSeq(c, m + 1, Len(c))
    OBVIOUS
  <2>2. Len(d) = Len(b) /\ d \in Seq(Nat) /\ \A i \in 1 .. Len(b) : d[i] = c[m + i]
    BY <1>2, <1>3, <2>1 DEF Joins
  <2>3. \A i \in 1 .. Len(b) : d[i] = b[i]
    BY <1>2, <1>3, <2>2 DEF Joins
  <2> QED
    BY <1>2, <2>1, <2>2, <2>3, SameSeq
<1>5. SubSeq(c, 1, m) = s
  <2>1. PICK d : d = SubSeq(c, 1, m)
    OBVIOUS
  <2>2. Len(d) = m /\ d \in Seq(Nat) /\ \A i \in 1 .. m : d[i] = c[i]
    BY <1>2, <1>3, <2>1 DEF Joins
  <2>3. \A i \in 1 .. m : d[i] = s[i]
    BY <1>2, <1>3, <2>2 DEF Joins
  <2> QED
    BY <1>2, <2>1, <2>2, <2>3, SameSeq
<1>6. Extends(c, s, m, b)
  BY <1>2, <1>3, <1>4, <1>5 DEF Extends, Joins
<1> QED
  BY <1>1, <1>6

\* read_variant reads what write_variant wrote, whatever follows it: at the real widths,
\* 64 bits in groups of 7, and at any other.
THEOREM VariantsReadBack ==
    ASSUME NEW u \in Unsigned, NEW rest \in Seq(Nat)
    PROVE  ReadVariant(WriteVariant(u) \o rest) = {[v |-> u, rest |-> rest]}
<1>1. u \in Nat /\ u < Word
  BY Widths DEF Unsigned
<1>2. PICK last \in Nat :
         /\ last + 1 <= MaxGroups
         /\ u < Power[GroupBits * (last + 1)]
         /\ WriteVariant(u) = [i \in 1 .. last + 1 |->
                Digit(u, GroupBits, i - 1) + (IF i <= last THEN Group ELSE 0)]
  BY VariantIs
<1>3. PICK w, n, src : w = WriteVariant(u) /\ n = last + 1 /\ src = w \o rest
  OBVIOUS
<1>4. n \in Nat /\ n >= 1 /\ n <= MaxGroups /\ DOMAIN w = 1 .. n
  BY <1>2, <1>3
<1>5. ASSUME NEW i \in 1 .. n
      PROVE  /\ w[i] \in Nat
             /\ w[i] % Group = Digit(u, GroupBits, i - 1)
             /\ w[i] < Group <=> i = n
  <2>1. PICK d : d = Digit(u, GroupBits, i - 1)
    OBVIOUS
  <2>2. i - 1 \in Nat /\ GroupBits \in Nat /\ Group \in Nat /\ Group > 0
    BY <1>4, Widths
  <2>3. d \in Nat /\ d < Group
    BY <1>1, <2>1, <2>2, DigitIs DEF Group
  <2>4. w[i] = d + (IF i <= last THEN Group ELSE 0)
    BY <1>2, <1>3, <2>1
  <2>5. CASE i <= last
    <3>1. w[i] = d + Group /\ w[i] = Group * 1 + d /\ w[i] \in Nat
      BY <2>2, <2>3, <2>4, <2>5
    <3>2. w[i] % Group = d
      BY <2>2, <2>3, <3>1, ModIs
    <3>3. ~(w[i] < Group) /\ i # n
      BY <1>2, <1>3, <2>2, <2>3, <2>5, <3>1
    <3> QED
      BY <2>1, <3>1, <3>2, <3>3
  <2>6. CASE ~(i <= last)
    <3>1. w[i] = d /\ i = n
      BY <1>2, <1>3, <2>3, <2>4, <2>6
    <3>2. w[i] % Group = d
      BY <2>2, <2>3, <3>1, Below
    <3> QED
      BY <2>1, <2>3, <3>1, <3>2
  <2> QED
    BY <2>5, <2>6
<1>6. w \in [1 .. n -> Nat]
  BY <1>2, <1>3, <1>5
<1>7. /\ src \in Seq(Nat) /\ Len(src) = n + Len(rest) /\ Len(rest) \in Nat
      /\ (\A i \in 1 .. n : src[i] = w[i]) /\ SubSeq(src, n + 1, Len(src)) = rest
  <2>1. Extends(w \o rest, w, n, rest)
    BY <1>4, <1>6, ConcatIs
  <2> QED
    BY <1>3, <2>1 DEF Extends
<1>8. DOMAIN src = 1 .. Len(src) /\ \A i \in 1 .. n : i \in DOMAIN src
  BY <1>4, <1>7
<1>9. PICK ends : ends = {k \in DOMAIN src : k <= MaxGroups /\ src[k] < Group}
  OBVIOUS
<1>10. n \in ends /\ \A j \in ends : n <= j
  <2>1. n \in ends
    BY <1>4, <1>5, <1>7, <1>8, <1>9
  <2>2. ASSUME NEW j \in ends, j < n PROVE FALSE
    <3>1. j \in 1 .. n /\ src[j] < Group
      BY <1>4, <1>7, <1>8, <1>9, <2>2
    <3> QED
      BY <1>5, <1>7, <2>2, <3>1
  <2>3. \A j \in ends : j \in Int
    BY <1>8, <1>9
  <2> QED
    BY <1>4, <2>1, <2>2, <2>3
<1>11. {k \in ends : \A j \in ends : k <= j} = {n}
  <2>1. ASSUME NEW k \in ends, \A j \in ends : k <= j PROVE k = n
    <3>1. k <= n /\ n <= k /\ k \in Int
      BY <1>8, <1>9, <1>10, <2>1
    <3> QED
      BY <1>4, <3>1
  <2> QED
    BY <1>10, <2>1
<1>12. PICK groups : groups = [i \in DOMAIN src |-> src[i] % Group]
  OBVIOUS
<1>13. \A i \in 1 .. n : groups[i] = Digit(u, GroupBits, i - 1)
  BY <1>5, <1>7, <1>8, <1>12
<1>14. Joined(groups, GroupBits, n) = u
  <2>1. Joined(groups, GroupBits, n) = u % Power[GroupBits * n]
    BY <1>1, <1>4, <1>13, JoinedIs, Widths
  <2>2. GroupBits * n \in Nat
    BY <1>4, Widths
  <2>3. u % Power[GroupBits * n] = u
    BY <1>1, <1>2, <1>3, <2>2, PowerPositive, Below
  <2> QED
    BY <2>1, <2>3
<1>15. u % Word = u
  BY <1>1, Widths, Below
<1>16. ReadVariant(src) =
        {[v |-> Joined(groups, GroupBits, k) % Word, rest |-> SubSeq(src, k + 1, Len(src))] :
            k \in {k \in ends : \A j \in ends : k <= j}}
  BY <1>9, <1>12, Zenon DEF ReadVariant, ReadGroups
<1>17. ReadVariant(src) = {[v |-> Joined(groups, GroupBits, n) % Word,
                            rest |-> SubSeq(src, n + 1, Len(src))]}
  BY <1>11, <1>16, Zenon
<1> QED
  BY <1>3, <1>7, <1>14, <1>15, <1>17

\* A varint is a sequence of numbers.
LEMMA VariantBytes ==
    ASSUME NEW u \in Unsigned
    PROVE  WriteVariant(u) \in Seq(Nat)
<1>1. u \in Nat
  BY Widths DEF Unsigned
<1>2. PICK last \in Nat :
         WriteVariant(u) = [i \in 1 .. last + 1 |->
                Digit(u, GroupBits, i - 1) + (IF i <= last THEN Group ELSE 0)]
  BY VariantIs
<1>3. ASSUME NEW i \in 1 .. last + 1 PROVE Digit(u, GroupBits, i - 1) \in Nat
  <2>1. i - 1 \in Nat
    OBVIOUS
  <2> QED
    BY <1>1, <2>1, DigitIs, Widths
<1> QED
  BY <1>2, <1>3, Widths
\* write_len_delimited: a field as long as its length prefix says is read back whole, and
\* no byte of what follows with it.
THEOREM BytesReadBack ==
    ASSUME NEW b \in Seq(Nat), Len(b) < Word, NEW rest \in Seq(Nat)
    PROVE  ReadLenDelimited(WriteLenDelimited(b) \o rest) = {[v |-> b, rest |-> rest]}
<1>1. PICK m, w, src : m = Len(b) /\ w = WriteVariant(m) /\ src = WriteLenDelimited(b) \o rest
  OBVIOUS
<1>2. m \in Nat /\ m \in Unsigned /\ b \in [1 .. m -> Nat]
  BY <1>1, Widths DEF Unsigned
<1>3. w \in Seq(Nat)
  BY <1>1, <1>2, VariantBytes
<1>4. PICK t : t = b \o rest
  OBVIOUS
<1>5. Extends(t, b, m, rest)
  BY <1>2, <1>4, ConcatIs
<1>6. t \in Seq(Nat) /\ Len(t) = m + Len(rest) /\ Len(rest) \in Nat
  BY <1>5 DEF Extends
<1>7. src = w \o t
  <2>1. src = (w \o b) \o rest
    BY <1>1 DEF WriteLenDelimited
  <2> QED
    BY <1>3, <1>4, <2>1, Associates
<1>8. ReadVariant(src) = {[v |-> m, rest |-> t]}
  BY <1>1, <1>2, <1>6, <1>7, VariantsReadBack
<1>9. SubSeq(t, 1, m) = b /\ SubSeq(t, m + 1, Len(t)) = rest /\ m <= Len(t)
  BY <1>2, <1>5, <1>6 DEF Extends
<1>10. {r \in ReadVariant(src) : r.v <= Len(r.rest)} = {[v |-> m, rest |-> t]}
  BY <1>8, <1>9
<1>11. ReadLenDelimited(src) =
         {[v |-> SubSeq(r.rest, 1, r.v), rest |-> SubSeq(r.rest, r.v + 1, Len(r.rest))] :
            r \in {[v |-> m, rest |-> t]}}
  BY <1>10, Zenon DEF ReadLenDelimited
<1>12. ReadLenDelimited(src) = {[v |-> SubSeq(t, 1, m), rest |-> SubSeq(t, m + 1, Len(t))]}
  BY <1>11
<1> QED
  BY <1>1, <1>9, <1>12

\* A number that len bytes hold is read back from them.
LEMMA FixedIs ==
    ASSUME NEW len \in Nat, NEW u \in Nat, u < Power[(GroupBits + 1) * len], NEW rest \in Seq(Nat)
    PROVE  GetFixed(PutFixed(u, len) \o rest, len) = {[v |-> u, rest |-> rest]}
<1>1. PICK bits, w, src : bits = GroupBits + 1 /\ w = PutFixed(u, len) /\ src = w \o rest
  OBVIOUS
<1>2. bits \in Nat /\ bits * len \in Nat
  BY <1>1, Widths
<1>3. ASSUME NEW i \in 1 .. len PROVE Digit(u, bits, i - 1) \in Nat
  <2>1. i - 1 \in Nat
    OBVIOUS
  <2> QED
    BY <1>2, <2>1, DigitIs
<1>4. w = [i \in 1 .. len |-> Digit(u, bits, i - 1)]
  BY <1>1 DEF PutFixed
<1>5. w \in [1 .. len -> Nat] /\ \A i \in 1 .. len : w[i] = Digit(u, bits, i - 1)
  BY <1>3, <1>4
<1>6. Extends(src, w, len, rest)
  BY <1>1, <1>5, ConcatIs
<1>7. \A i \in 1 .. len : src[i] = Digit(u, bits, i - 1)
  BY <1>5, <1>6 DEF Extends
<1>8. Joined(src, bits, len) = u % Power[bits * len]
  BY <1>2, <1>7, JoinedIs
<1>9. u % Power[bits * len] = u
  BY <1>1, <1>2, PowerPositive, Below
<1>10. ~(Len(src) < len) /\ SubSeq(src, len + 1, Len(src)) = rest
  BY <1>6 DEF Extends
<1> QED
  BY <1>1, <1>8, <1>9, <1>10 DEF GetFixed

\* The bytes of a word, and of half a word, are all of its bits.
LEMMA Lengths ==
    /\ Len64 \in Nat /\ Power[(GroupBits + 1) * Len64] = Word
    /\ Len32 \in Nat /\ Power[(GroupBits + 1) * Len32] = Half
<1>1. PICK x, y, z : x = WordBits /\ y = GroupBits + 1 /\ z = 2 * (GroupBits + 1)
  OBVIOUS
<1>2. x \in Nat /\ y \in Nat /\ y > 0 /\ z \in Nat /\ z > 0 /\ z = 2 * y /\ x % z = 0
  BY <1>1, WidthAssumption
<1>3. PICK q : q = x \div z
  OBVIOUS
<1>4. q \in Nat /\ x = z * q
  BY <1>2, <1>3, DivMod
<1>5. x = y * (2 * q) + 0 /\ x = 2 * (y * q) + 0 /\ y * q \in Nat /\ 2 * q \in Nat
  BY <1>2, <1>4
<1>6. x \div y = 2 * q
  BY <1>2, <1>5, ModIs
<1>7. x \div 2 = y * q
  BY <1>2, <1>5, ModIs
<1>8. Len64 = 2 * q
  BY <1>1, <1>6 DEF Len64
<1>9. Len32 = q
  BY <1>4, <1>8 DEF Len32
<1>10. y * Len64 = WordBits /\ y * Len32 = WordBits \div 2
  BY <1>1, <1>5, <1>7, <1>8, <1>9
<1> QED
  BY <1>1, <1>4, <1>8, <1>9, <1>10 DEF Word, Half

\* put_u64_le and put_u32_le: every word, and every half of one, is read back.
THEOREM FixedReadBack ==
    ASSUME NEW rest \in Seq(Nat)
    PROVE  /\ \A u \in Unsigned : GetFixed(PutFixed(u, Len64) \o rest, Len64) = {[v |-> u, rest |-> rest]}
           /\ \A u \in 0 .. Half - 1 : GetFixed(PutFixed(u, Len32) \o rest, Len32) = {[v |-> u, rest |-> rest]}
<1>1. Half \in Nat /\ Word \in Nat
  <2>1. WordBits \div 2 \in Nat /\ WordBits \in Nat
    BY Widths
  <2> QED
    BY <2>1, PowerPositive DEF Half, Word
<1>2. ASSUME NEW u \in Unsigned
      PROVE  GetFixed(PutFixed(u, Len64) \o rest, Len64) = {[v |-> u, rest |-> rest]}
  <2>1. u \in Nat /\ u < Power[(GroupBits + 1) * Len64]
    BY <1>1, Lengths DEF Unsigned
  <2> QED
    BY <2>1, Lengths, FixedIs
<1>3. ASSUME NEW u \in 0 .. Half - 1
      PROVE  GetFixed(PutFixed(u, Len32) \o rest, Len32) = {[v |-> u, rest |-> rest]}
  <2>1. u \in Nat /\ u < Power[(GroupBits + 1) * Len32]
    BY <1>1, Lengths
  <2> QED
    BY <2>1, Lengths, FixedIs
<1> QED
  BY <1>2, <1>3

-----------------------------------------------------------------------------
(* Signed numbers. *)

\* There are as many negative numbers as others.
LEMMA Halves ==
    /\ Word \div 2 \in Nat /\ Word = 2 * (Word \div 2) /\ Word \div 2 > 0
<1>1. WordBits \in Nat /\ WordBits # 0 /\ WordBits - 1 \in Nat
  BY Widths
<1>2. PICK h : h = Power[WordBits - 1]
  OBVIOUS
<1>3. h \in Nat /\ h > 0
  BY <1>1, <1>2, PowerPositive
<1>4. Word = 2 * h
  BY <1>1, <1>2, PowerIs DEF Word
<1> QED
  BY <1>3, <1>4

\* A zigzag is a word, and decodes to the number it came from; every word is the zigzag
\* of the number it decodes to.
THEOREM ZigzagIsBijective ==
    /\ \A n \in Signed : EncodeZigzag64(n) \in Unsigned /\ DecodeZigzag64(EncodeZigzag64(n)) = n
    /\ \A u \in Unsigned : DecodeZigzag64(u) \in Signed /\ EncodeZigzag64(DecodeZigzag64(u)) = u
<1>1. PICK h : h = Word \div 2
  OBVIOUS
<1>2. h \in Nat /\ h > 0 /\ Word = 2 * h
  BY <1>1, Halves
<1>3. Signed = -h .. h - 1 /\ Unsigned = 0 .. 2 * h - 1
  BY <1>1, <1>2 DEF Signed, Unsigned
<1>4. ASSUME NEW n \in Signed
      PROVE  EncodeZigzag64(n) \in Unsigned /\ DecodeZigzag64(EncodeZigzag64(n)) = n
  BY <1>2, <1>3 DEF EncodeZigzag64, DecodeZigzag64
<1>5. ASSUME NEW u \in Unsigned
      PROVE  DecodeZigzag64(u) \in Signed /\ EncodeZigzag64(DecodeZigzag64(u)) = u
  BY <1>2, <1>3 DEF EncodeZigzag64, DecodeZigzag64
<1> QED
  BY <1>4, <1>5

\* The casts between u64 and i64 are each other's inverses.
THEOREM CastsAreInverse ==
    /\ \A n \in Signed : AsU64(n) \in Unsigned /\ AsI64(AsU64(n)) = n
    /\ \A u \in Unsigned : AsI64(u) \in Signed /\ AsU64(AsI64(u)) = u
<1>1. PICK h : h = Word \div 2
  OBVIOUS
<1>2. h \in Nat /\ h > 0 /\ Word = 2 * h
  BY <1>1, Halves
<1>3. Signed = -h .. h - 1 /\ Unsigned = 0 .. Word - 1
  BY <1>1, <1>2 DEF Signed, Unsigned
<1>4. ASSUME NEW n \in Signed PROVE AsU64(n) = IF n >= 0 THEN n ELSE n + Word
  BY <1>2, <1>3 DEF AsU64
<1>5. ASSUME NEW n \in Signed PROVE AsU64(n) \in Unsigned /\ AsI64(AsU64(n)) = n
  BY <1>1, <1>2, <1>3, <1>4 DEF AsI64
<1>6. ASSUME NEW u \in Unsigned PROVE AsI64(u) \in Signed /\ AsU64(AsI64(u)) = u
  <2>1. AsI64(u) \in Signed
    BY <1>1, <1>2, <1>3 DEF AsI64
  <2>2. AsU64(AsI64(u)) = IF AsI64(u) >= 0 THEN AsI64(u) ELSE AsI64(u) + Word
    BY <1>4, <2>1
  <2> QED
    BY <1>1, <1>2, <1>3, <2>1, <2>2 DEF AsI64
<1> QED
  BY <1>5, <1>6
-----------------------------------------------------------------------------
(* Fields that are skipped, and bytes that are missing. *)

\* skip_value: an unknown field of any wire type is passed over whole, and nothing after it.
THEOREM SkipsOneValue ==
    ASSUME NEW rest \in Seq(Nat)
    PROVE  /\ \A u \in Unsigned : SkipValue(Varint, WriteVariant(u) \o rest) = {rest}
           /\ \A u \in Unsigned : SkipValue(SixtyFourBit, PutFixed(u, Len64) \o rest) = {rest}
           /\ \A u \in 0 .. Half - 1 : SkipValue(ThirtyTwoBit, PutFixed(u, Len32) \o rest) = {rest}
           /\ \A b \in Seq(Nat) : Len(b) < Word
                => SkipValue(LenDelimited, WriteLenDelimited(b) \o rest) = {rest}
<1>1. \A x, src : {r.rest : r \in {[v |-> x, rest |-> src]}} = {src}
  OBVIOUS
<1>2. \A src : /\ SkipValue(Varint, src) = {r.rest : r \in ReadVariant(src)}
               /\ SkipValue(SixtyFourBit, src) = {r.rest : r \in GetFixed(src, Len64)}
               /\ SkipValue(ThirtyTwoBit, src) = {r.rest : r \in GetFixed(src, Len32)}
               /\ SkipValue(LenDelimited, src) = {r.rest : r \in ReadLenDelimited(src)}
  BY DEF SkipValue, ReadRaw, Varint, SixtyFourBit, ThirtyTwoBit, LenDelimited
<1>3. ASSUME NEW u \in Unsigned PROVE SkipValue(Varint, WriteVariant(u) \o rest) = {rest}
  <2>1. ReadVariant(WriteVariant(u) \o rest) = {[v |-> u, rest |-> rest]}
    BY VariantsReadBack
  <2> QED
    BY <1>1, <1>2, <2>1
<1>4. ASSUME NEW u \in Unsigned
      PROVE  SkipValue(SixtyFourBit, PutFixed(u, Len64) \o rest) = {rest}
  <2>1. GetFixed(PutFixed(u, Len64) \o rest, Len64) = {[v |-> u, rest |-> rest]}
    BY FixedReadBack
  <2> QED
    BY <1>1, <1>2, <2>1
<1>5. ASSUME NEW u \in 0 .. Half - 1
      PROVE  SkipValue(ThirtyTwoBit, PutFixed(u, Len32) \o rest) = {rest}
  <2>1. GetFixed(PutFixed(u, Len32) \o rest, Len32) = {[v |-> u, rest |-> rest]}
    BY FixedReadBack
  <2> QED
    BY <1>1, <1>2, <2>1
<1>6. ASSUME NEW b \in Seq(Nat), Len(b) < Word
      PROVE  SkipValue(LenDelimited, WriteLenDelimited(b) \o rest) = {rest}
  <2>1. ReadLenDelimited(WriteLenDelimited(b) \o rest) = {[v |-> b, rest |-> rest]}
    BY <1>6, BytesReadBack
  <2> QED
    BY <1>1, <1>2, <2>1
<1> QED
  BY <1>3, <1>4, <1>5, <1>6

\* read_variant and read_len_delimited on a response cut short: a varint of which a byte is
\* missing is no number, and a field of which a byte is missing is no field.
THEOREM CutValuesRefused ==
    /\ \A u \in Unsigned : \A k \in 0 .. Len(WriteVariant(u)) - 1 :
         ReadVariant(SubSeq(WriteVariant(u), 1, k)) = {}
    /\ \A b \in Seq(Nat) : \A k \in 0 .. Len(b) - 1 :
         Len(b) < Word => ReadLenDelimited(WriteVariant(Len(b)) \o SubSeq(b, 1, k)) = {}
<1>1. ASSUME NEW u \in Unsigned, NEW k \in 0 .. Len(WriteVariant(u)) - 1
      PROVE  ReadVariant(SubSeq(WriteVariant(u), 1, k)) = {}
  <2>1. PICK last \in Nat :
           WriteVariant(u) = [i \in 1 .. last + 1 |->
                  Digit(u, GroupBits, i - 1) + (IF i <= last THEN Group ELSE 0)]
    BY VariantIs
  <2>2. PICK w, src : w = WriteVariant(u) /\ src = SubSeq(w, 1, k)
    OBVIOUS
  <2>3. w \in Seq(Nat) /\ Len(w) = last + 1 /\ DOMAIN w = 1 .. last + 1
    <3>1. w \in Seq(Nat)
      BY <2>2, VariantBytes
    <3>2. DOMAIN w = 1 .. last + 1
      BY <2>1, <2>2
    <3> QED
      BY <3>1, <3>2
  <2>4. k \in Nat /\ k <= last
    BY <2>2, <2>3
  <2>5. src \in Seq(Nat) /\ Len(src) = k /\ DOMAIN src = 1 .. k /\ \A i \in 1 .. k : src[i] = w[i]
    BY <2>2, <2>3, <2>4
  <2>6. ASSUME NEW i \in 1 .. k PROVE ~(src[i] < Group)
    <3>1. PICK d : d = Digit(u, GroupBits, i - 1)
      OBVIOUS
    <3>2. d \in Nat
      BY <2>4, <3>1, DigitIs, Widths DEF Unsigned
    <3>3. src[i] = d + Group
      BY <2>1, <2>2, <2>4, <2>5, <3>1
    <3> QED
      BY <3>2, <3>3, Widths
  <2>7. PICK ends : ends = {j \in DOMAIN src : j <= MaxGroups /\ src[j] < Group}
    OBVIOUS
  <2>8. ends = {}
    BY <2>5, <2>6, <2>7
  <2>9. {j \in ends : \A n \in ends : j <= n} = {}
    BY <2>8
  <2> QED
    BY <2>2, <2>7, <2>9, Zenon DEF ReadVariant, ReadGroups
<1>2. ASSUME NEW b \in Seq(Nat), NEW k \in 0 .. Len(b) - 1, Len(b) < Word
      PROVE  ReadLenDelimited(WriteVariant(Len(b)) \o SubSeq(b, 1, k)) = {}
  <2>1. PICK m, t : m = Len(b) /\ t = SubSeq(b, 1, k)
    OBVIOUS
  <2>2. m \in Nat /\ m \in Unsigned
    BY <1>2, <2>1, Widths DEF Unsigned
  <2>3. t \in Seq(Nat) /\ Len(t) = k /\ k < m /\ k \in Nat
    BY <2>1, <2>2
  <2>4. ReadVariant(WriteVariant(m) \o t) = {[v |-> m, rest |-> t]}
    BY <2>2, <2>3, VariantsReadBack
  <2>5. {r \in ReadVariant(WriteVariant(m) \o t) : r.v <= Len(r.rest)} = {}
    BY <2>2, <2>3, <2>4
  <2> QED
    BY <2>1, <2>5 DEF ReadLenDelimited
<1> QED
  BY <1>1, <1>2
=============================================================================
