-------------------------- MODULE MetricsRegistry ---------------------------
(***************************************************************************)
(* The metrics registry (wrkr-metrics/src/registry.rs) and its locks: the  *)
(* RwLock around the definitions, and the locks of the shards of the outer *)
(* DashMap, which maps metric ids to series.  VUs register metrics and get *)
(* handles while the runner's progress task reads series and summarises.   *)
(*                                                                         *)
(* parking_lot and dashmap are external.  A parking_lot RwLock lets no new *)
(* reader in while a writer waits; a shard of a DashMap does.  A shard is  *)
(* locked shared by the Ref that `get` returns, for as long as it lives,   *)
(* and exclusively for the duration of `insert`.                           *)
(*                                                                         *)
(* Names are interned: register and lookup_metric start with a             *)
(* get_or_intern, and from there on know a name by its KeyId.  The         *)
(* interner's state and steps are those of Interner.                       *)
(***************************************************************************)
EXTENDS Integers, Sequences, FiniteSets

CONSTANTS Tasks,
          Names,      \* metric names
          ShardOf,    \* ShardOf[id]: the shard of metric id
          MaxCalls    \* how many calls a task makes

Shards == {ShardOf[id] : id \in DOMAIN ShardOf}

ASSUME RegistryAssumption ==
    /\ IsFiniteSet(Names) /\ Names # {}
    /\ DOMAIN ShardOf = 1 .. Cardinality(Names)
    /\ MaxCalls \in Nat

VARIABLES
    map, vec,  \* the interner
    interning, \* the control state of each task's get_or_intern
    arg, got,  \* its argument and its result
    defs,      \* the metrics' KeyIds, in the order of their registration
    storage,   \* the ids that the outer map holds
    series,    \* the ids that have a series, for the one tag set modelled
    writer,    \* the tasks that hold defs for writing: at most one
    readers,   \* the tasks that hold defs for reading
    shared,    \* shared[s]: the tasks that hold a Ref into shard s
    pc,
    id,        \* the metric id each task knows: got or to be inserted; 0 if none
    calls

interner == <<map, vec, interning, arg, got>>
locks    == <<writer, readers, shared>>
vars     == <<interner, defs, storage, series, locks, pc, id, calls>>

Interner == INSTANCE Interner WITH Strings <- Names, pc <- interning

Init ==
    /\ Interner!Init
    /\ defs = <<>>
    /\ storage = {}
    /\ series = {}
    /\ writer = {}
    /\ readers = {}
    /\ shared = [s \in Shards |-> {}]
    /\ pc = [t \in Tasks |-> "idle"]
    /\ id = [t \in Tasks |-> 0]
    /\ calls = [t \in Tasks |-> 0]

Goto(t, to) == pc' = [pc EXCEPT ![t] = to]

Call(t) ==
    /\ pc[t] = "idle"
    /\ calls[t] < MaxCalls
    /\ calls' = [calls EXCEPT ![t] = @ + 1]

\* Tasks that wait for defs.write().
WantWrite == {t \in Tasks : pc[t] = "register" /\ interning[t] = "idle"}

\* Whether defs.read() returns.
CanRead == writer = {} /\ WantWrite = {}

-----------------------------------------------------------------------------
(* register *)

\* register begins with get_or_intern.
Register(t, n) ==
    /\ Call(t)
    /\ Interner!Lookup(t, n)
    /\ Goto(t, "register")
    /\ UNCHANGED <<defs, storage, series, locks, id>>

\* The rest of a get_or_intern that did not find its string at once.
Intern(t) ==
    /\ Interner!Insert(t)
    /\ UNCHANGED <<defs, storage, series, locks, pc, id, calls>>

\* defs.write()
LockDefs(t) ==
    /\ t \in WantWrite
    /\ writer = {} /\ readers = {}
    /\ writer' = {t}
    /\ Goto(t, "defs")
    /\ UNCHANGED <<interner, defs, storage, series, readers, shared, id, calls>>

\* The definition with a KeyId.
Known(k) == \E i \in 1 .. Len(defs) : defs[i] = k
IdOf(k)  == CHOOSE i \in 1 .. Len(defs) : defs[i] = k

\* Mutant of PushDef: a name is registered anew by every caller.
PushDefAlways(t) ==
    /\ pc[t] = "defs"
    /\ defs' = Append(defs, got[t])
    /\ id' = [id EXCEPT ![t] = Len(defs) + 1]
    /\ Goto(t, "storage")
    /\ UNCHANGED <<interner, storage, series, locks, calls>>

\* Mutant of PushDef: the early return keeps the lock.
PushDefKeepLock(t) ==
    /\ pc[t] = "defs"
    /\ IF Known(got[t])
       THEN /\ id' = [id EXCEPT ![t] = IdOf(got[t])]
            /\ Goto(t, "idle")
            /\ UNCHANGED defs
       ELSE /\ id' = [id EXCEPT ![t] = Len(defs) + 1]
            /\ defs' = Append(defs, got[t])
            /\ Goto(t, "storage")
    /\ UNCHANGED <<interner, storage, series, locks, calls>>

\* Under the lock: the name is known, or its definition is pushed.
PushDef(t) ==
    /\ pc[t] = "defs"
    /\ IF Known(got[t])
       THEN /\ id' = [id EXCEPT ![t] = IdOf(got[t])]
            /\ writer' = {}
            /\ Goto(t, "idle")
            /\ UNCHANGED defs
       ELSE /\ id' = [id EXCEPT ![t] = Len(defs) + 1]
            /\ defs' = Append(defs, got[t])
            /\ Goto(t, "storage")
            /\ UNCHANGED writer
    /\ UNCHANGED <<interner, storage, series, readers, shared, calls>>

\* storage.insert(id, ...), still under the lock: it needs the id's shard.
InsertStorage(t) ==
    /\ pc[t] = "storage"
    /\ shared[ShardOf[id[t]]] = {}
    /\ storage' = storage \union {id[t]}
    /\ writer' = {}
    /\ Goto(t, "idle")
    /\ UNCHANGED <<interner, defs, series, readers, shared, id, calls>>

-----------------------------------------------------------------------------
(* get_handle *)

Hold(t, s)    == shared' = [shared EXCEPT ![s] = @ \union {t}]
Release(t, s) == shared' = [shared EXCEPT ![s] = @ \ {t}]

\* storage.get(&metric): a metric without an entry has no handle.
GetSeriesMap(t) ==
    /\ Call(t)
    /\ id[t] # 0
    /\ IF id[t] \in storage
       THEN Hold(t, ShardOf[id[t]]) /\ Goto(t, "series")
       ELSE UNCHANGED shared /\ Goto(t, "no_handle")
    /\ UNCHANGED <<interner, defs, storage, series, writer, readers, id>>

\* Mutant of FindSeries: the Ref outlives the call.
FindSeriesKeepRef(t) ==
    /\ pc[t] = "series"
    /\ Goto(t, IF id[t] \in series THEN "idle" ELSE "kind")
    /\ UNCHANGED <<interner, defs, storage, series, locks, id, calls>>

\* series_map.get(&tags): the series is there, or its kind must be known.
FindSeries(t) ==
    /\ pc[t] = "series"
    /\ IF id[t] \in series
       THEN Release(t, ShardOf[id[t]]) /\ Goto(t, "idle")
       ELSE UNCHANGED shared /\ Goto(t, "kind")
    /\ UNCHANGED <<interner, defs, storage, series, writer, readers, id, calls>>

\* defs.read(), while the Ref lives.
ReadKind(t) ==
    /\ pc[t] = "kind"
    /\ CanRead
    /\ Goto(t, "make")
    /\ UNCHANGED <<interner, defs, storage, series, locks, id, calls>>

\* series_map.insert, and the Ref is dropped.
MakeSeries(t) ==
    /\ pc[t] = "make"
    /\ series' = series \union {id[t]}
    /\ Release(t, ShardOf[id[t]])
    /\ Goto(t, "idle")
    /\ UNCHANGED <<interner, defs, storage, writer, readers, id, calls>>

-----------------------------------------------------------------------------
(* lookup_metric, visit_series and summarize *)

\* lookup_metric interns the name, too.
LookupMetric(t, n) ==
    /\ Call(t)
    /\ Interner!Lookup(t, n)
    /\ Goto(t, "lookup")
    /\ UNCHANGED <<defs, storage, series, locks, id>>

\* One section under defs.read().
FindDef(t) ==
    /\ pc[t] = "lookup"
    /\ interning[t] = "idle"
    /\ CanRead
    /\ id' = [id EXCEPT ![t] = IF Known(got[t]) THEN IdOf(got[t]) ELSE 0]
    /\ Goto(t, "idle")
    /\ UNCHANGED <<interner, defs, storage, series, locks, calls>>

\* summarize: defs.read() is held while the shards are visited one by one.
Summarize(t) ==
    /\ Call(t)
    /\ CanRead
    /\ readers' = readers \union {t}
    /\ Goto(t, "summary")
    /\ UNCHANGED <<interner, defs, storage, series, writer, shared, id>>

\* The iterator takes each shard in turn; nobody holds one exclusively across a
\* step, so that is one step.
EndSummary(t) ==
    /\ pc[t] = "summary"
    /\ readers' = readers \ {t}
    /\ Goto(t, "idle")
    /\ UNCHANGED <<interner, defs, storage, series, writer, shared, id, calls>>

-----------------------------------------------------------------------------

Begin(t) ==
    \/ \E n \in Names : Register(t, n) \/ LookupMetric(t, n)
    \/ GetSeriesMap(t)
    \/ Summarize(t)

Continue(t) ==
    \/ Intern(t)
    \/ LockDefs(t)
    \/ PushDef(t)
    \/ InsertStorage(t)
    \/ FindSeries(t)
    \/ ReadKind(t)
    \/ MakeSeries(t)
    \/ FindDef(t)
    \/ EndSummary(t)

Next == \E t \in Tasks : Begin(t) \/ Continue(t)

Spec == Init /\ [][Next]_vars

-----------------------------------------------------------------------------
(* Properties. *)

States == {"idle", "register", "defs", "storage", "series", "kind", "make", "lookup",
           "summary", "no_handle"}

\* Every variable has its type, and the locks are held by those who are inside.
TypeOK ==
    /\ Interner!TypeOK
    /\ defs \in Seq(Nat)
    /\ storage \subseteq DOMAIN ShardOf
    /\ series \subseteq storage
    /\ writer = {t \in Tasks : pc[t] \in {"defs", "storage"}}
    /\ readers = {t \in Tasks : pc[t] = "summary"}
    /\ \A s \in Shards :
          shared[s] = {t \in Tasks : pc[t] \in {"series", "kind", "make"} /\ ShardOf[id[t]] = s}
    /\ pc \in [Tasks -> States]
    /\ id \in [Tasks -> DOMAIN ShardOf \union {0}]
    /\ calls \in [Tasks -> 0..MaxCalls]

\* However the tasks' lookups and insertions fall, the interner keeps one id per
\* name, and the id that a task got stands for the name it asked for.
NamesInterned == Interner!Bijective /\ Interner!GotResolves

\* Tasks that register the same name at the same time get the same id: no name
\* has two definitions.
OneDefPerName ==
    \A i, j \in 1 .. Len(defs) :
        Interner!Resolve(defs[i]) = Interner!Resolve(defs[j]) => i = j

\* Outside of register, every definition has its entry in the outer map, so an
\* id that was handed out always yields a handle.
HandlesAvailable ==
    /\ writer = {} => storage = 1 .. Len(defs)
    /\ \A t \in Tasks : pc[t] # "no_handle"

\* However registrations interleave, a name has one key and one definition, and an id
\* leads to a metric.
RegistrySound == NamesInterned /\ OneDefPerName /\ HandlesAvailable

\* A call in progress can go on: it waits for nobody, or for nobody who is there.
Ready(t) ==
    \/ pc[t] \in {"defs", "series", "make", "summary"} \/ interning[t] = "insert"
    \/ t \in WantWrite /\ writer = {} /\ readers = {}
    \/ pc[t] = "storage" /\ shared[ShardOf[id[t]]] = {}
    \/ pc[t] = "kind" /\ CanRead
    \/ pc[t] = "lookup" /\ interning[t] = "idle" /\ CanRead

\* Registering, looking up, getting a handle and summarising never wait for each
\* other in a circle: while any call is in progress, one of them can go on.
NoCircularWait == (\E t \in Tasks : pc[t] # "idle") => \E t \in Tasks : Ready(t)
=============================================================================
