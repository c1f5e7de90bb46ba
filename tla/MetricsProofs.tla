--------------------------- MODULE MetricsProofs ----------------------------
(***************************************************************************)
(* Proofs about the three models of the metrics and their composition,     *)
(* MetricsParts.                                                           *)
(*                                                                         *)
(* MetricsRegistry and the Interner it is composed with, for any tasks,    *)
(* names, shards and calls: that a name has one definition rests on the    *)
(* interner, since register compares ids, and equal names have equal ids   *)
(* because get_or_intern looks again under the write locks.  That an id    *)
(* has a handle rests on the lock: the one task between the push of a      *)
(* definition and the insertion into the outer map holds defs for writing, *)
(* and nobody else can learn the id.                                       *)
(*                                                                         *)
(* ActiveVus, for any finite number of VUs: a gauge is made at most once   *)
(* per VU and metric, so that the numbers suffice (Numbering); a VU counts *)
(* itself at most once, so that no gauge is ahead of the VUs that entered  *)
(* (Bounds); and as long as no series is inserted over another, all VUs    *)
(* hold the same two gauges, each reading of the peak is at most its       *)
(* value, and the VU that saw the largest number has raised the peak to it *)
(* or still has to (Unraced).                                              *)
(***************************************************************************)
EXTENDS MetricsParts, RecordingProofs

-----------------------------------------------------------------------------
(* The registry. *)

\* The types that the proof needs.
Types ==
    /\ Interner!TypeOK
    /\ defs \in Seq(Nat)
    /\ pc \in [Tasks -> States]
    /\ id \in [Tasks -> Nat]

\* A task that is past its get_or_intern has an id, and only register and
\* lookup_metric intern.
Interned ==
    \A t \in Tasks :
        /\ interning[t] = "insert" => pc[t] \in {"register", "lookup"}
        /\ pc[t] \in {"register", "lookup", "defs", "storage"} /\ interning[t] = "idle"
              => got[t] # -1

\* Definitions hold different ids, all of them handed out by the interner.
DefsDistinct ==
    /\ \A i \in 1 .. Len(defs) : defs[i] \in 0 .. Len(vec) - 1
    /\ \A i, j \in 1 .. Len(defs) : defs[i] = defs[j] => i = j

\* The lock is held by the one task that is inside.
LockHeld ==
    /\ writer = {t \in Tasks : pc[t] \in {"defs", "storage"}}
    /\ \A t, u \in writer : t = u

\* The outer map lacks at most the definition that was pushed last.
Stored ==
    /\ (\A t \in Tasks : pc[t] # "storage") => storage = 1 .. Len(defs)
    /\ \A t \in Tasks : pc[t] = "storage" =>
          id[t] = Len(defs) /\ Len(defs) > 0 /\ storage = 1 .. Len(defs) - 1
    /\ \A t \in Tasks : pc[t] # "storage" => id[t] = 0 \/ id[t] \in storage
    /\ \A t \in Tasks : pc[t] # "no_handle"

IInv == Types /\ NamesInterned /\ Interned /\ DefsDistinct /\ LockHeld /\ Stored

-----------------------------------------------------------------------------
(* The interner. *)

\* The first look of get_or_intern keeps map and vec inverse to each other.
LEMMA LookupKeeps ==
    ASSUME NEW t \in Tasks, NEW n \in Names,
           Interner!TypeOK, NamesInterned, Interner!Lookup(t, n)
    PROVE  Interner!TypeOK' /\ NamesInterned' /\ UNCHANGED <<map, vec>>
  BY DEF Interner!TypeOK, NamesInterned, Interner!Lookup, Interner!Bijective,
         Interner!GotResolves, Interner!Resolve, Interner!Goto, Interner!NoId

\* So does the section under the write locks, and vec only grows at its end.
LEMMA PutKeeps ==
    ASSUME NEW t \in Tasks, Interner!TypeOK, NamesInterned, Interner!Insert(t)
    PROVE  /\ Interner!TypeOK' /\ NamesInterned'
           /\ Len(vec') >= Len(vec)
           /\ interning' = [interning EXCEPT ![t] = "idle"]
           /\ got'[t] # -1 /\ \A u \in Tasks : u # t => got'[u] = got[u]
<1> USE DEF Interner!TypeOK, Interner!Insert, Interner!NoId, Interner!Goto
<1>1. CASE arg[t] \in DOMAIN map
  <2>1. /\ got' = [got EXCEPT ![t] = map[arg[t]]]
        /\ UNCHANGED <<map, vec, arg>>
    BY <1>1
  <2>2. map[arg[t]] \in 0 .. Len(vec) - 1 /\ vec[map[arg[t]] + 1] = arg[t]
    BY <1>1 DEF NamesInterned, Interner!Bijective
  <2>3. Interner!TypeOK'
    BY <2>1, <2>2
  <2>4. Interner!GotResolves'
    BY <2>1, <2>2 DEF NamesInterned, Interner!GotResolves, Interner!Resolve
  <2> QED
    BY <2>1, <2>2, <2>3, <2>4 DEF NamesInterned, Interner!Bijective
<1>2. CASE arg[t] \notin DOMAIN map
  <2>1. vec' = Append(vec, arg[t]) /\ Len(vec') = Len(vec) + 1
    BY <1>2 DEF Interner!Push
  <2>2. /\ DOMAIN map' = DOMAIN map \union {arg[t]}
        /\ map'[arg[t]] = Len(vec)
        /\ \A s \in DOMAIN map : map'[s] = map[s]
    BY <1>2 DEF Interner!Push
  <2>3. /\ vec'[Len(vec) + 1] = arg[t]
        /\ \A i \in 1 .. Len(vec) : vec'[i] = vec[i]
    BY <2>1
  <2>4. Interner!TypeOK'
    <3>1. map' = [x \in DOMAIN map' |-> map'[x]] /\ \A x \in DOMAIN map' : map'[x] \in Nat
      BY <1>2, <2>2 DEF Interner!Push
    <3>2. got' \in [Tasks -> Nat \union {-1}]
      BY <1>2
    <3> QED
      BY <2>1, <2>2, <3>1, <3>2
  <2>5. Interner!Bijective'
    BY <1>2, <2>1, <2>2, <2>3 DEF NamesInterned, Interner!Bijective
  <2>6. Interner!GotResolves'
    <3> SUFFICES ASSUME NEW u \in Tasks, got'[u] # -1
                 PROVE  got'[u] \in 0 .. Len(vec') - 1 /\ vec'[got'[u] + 1] = arg'[u]
      BY DEF Interner!GotResolves, Interner!Resolve
    <3>1. CASE u = t
      BY <1>2, <2>1, <2>3, <3>1
    <3>2. CASE u # t
      <4>1. got'[u] = got[u] /\ arg'[u] = arg[u]
        BY <1>2, <3>2
      <4>2. got[u] \in 0 .. Len(vec) - 1 /\ vec[got[u] + 1] = arg[u]
        BY <4>1 DEF NamesInterned, Interner!GotResolves, Interner!Resolve
      <4> QED
        BY <2>1, <2>3, <4>1, <4>2
    <3> QED
      BY <3>1, <3>2
  <2> QED
    BY <1>2, <2>1, <2>4, <2>5, <2>6 DEF NamesInterned
<1> QED
  BY <1>1, <1>2

-----------------------------------------------------------------------------
(* The registry. *)

\* An empty registry satisfies the invariant.
LEMMA InitEstablishes == Init => IInv
<1> SUFFICES ASSUME Init PROVE IInv
  OBVIOUS
<1> USE DEF Init, Interner!Init
<1>1. Interner!TypeOK
  <2>1. (CHOOSE n \in Names : TRUE) \in Names
    BY RegistryAssumption
  <2>2. map = [n \in {} |-> 0] /\ DOMAIN map = {} /\ map \in [DOMAIN map -> Nat]
    OBVIOUS
  <2>3. vec \in Seq(Names)
    OBVIOUS
  <2> QED
    BY <2>1, <2>2, <2>3 DEF Interner!TypeOK, Interner!NoId
<1>2. NamesInterned
  BY DEF NamesInterned, Interner!Bijective, Interner!GotResolves
<1>3. Types
  BY <1>1 DEF Types, States
<1>4. Interned /\ DefsDistinct /\ LockHeld /\ Stored
  BY DEF Interned, DefsDistinct, LockHeld, Stored
<1> QED
  BY <1>2, <1>3, <1>4 DEF IInv

\* register and lookup_metric begin: the first look of their get_or_intern.
LEMMA BeginInternKeeps ==
    ASSUME IInv, NEW t \in Tasks, NEW n \in Names,
           Register(t, n) \/ LookupMetric(t, n)
    PROVE  IInv'
<1> USE DEF IInv, Register, LookupMetric, Call, Goto, locks
<1>1. Interner!Lookup(t, n) /\ Interner!TypeOK /\ pc[t] = "idle"
  BY DEF Types
<1>2. Interner!TypeOK' /\ NamesInterned' /\ UNCHANGED <<map, vec>>
  BY <1>1, LookupKeeps
<1>3. Types'
  BY <1>2 DEF Types, States
<1>4. Interned'
  <2>1. ASSUME NEW u \in Tasks, u # t
        PROVE  interning'[u] = interning[u] /\ got'[u] = got[u] /\ pc'[u] = pc[u]
    BY <1>1, <2>1 DEF Types, Interner!TypeOK, Interner!Lookup, Interner!Goto
  <2>2. n \in DOMAIN map => map[n] \in Nat
    BY <1>1 DEF Interner!TypeOK
  <2>3. interning'[t] = "idle" => got'[t] # -1
    BY <1>1, <2>2 DEF Interner!TypeOK, Interner!Lookup, Interner!Goto
  <2>4. pc'[t] \in {"register", "lookup"}
    BY DEF Types
  <2> QED
    BY <2>1, <2>3, <2>4 DEF Interned
<1>5. DefsDistinct'
  BY <1>2 DEF DefsDistinct
<1>6. LockHeld' /\ Stored'
  BY <1>1 DEF LockHeld, Stored, Types
<1> QED
  BY <1>2, <1>3, <1>4, <1>5, <1>6

\* The second look of get_or_intern.
LEMMA InternKeeps == ASSUME IInv, NEW t \in Tasks, Intern(t) PROVE IInv'
<1> USE DEF IInv, Intern, locks
<1>1. /\ Interner!TypeOK' /\ NamesInterned'
      /\ Len(vec') >= Len(vec)
      /\ interning' = [interning EXCEPT ![t] = "idle"]
      /\ got'[t] # -1 /\ \A u \in Tasks : u # t => got'[u] = got[u]
  BY PutKeeps DEF Types
<1>2. Types' /\ LockHeld' /\ Stored'
  BY <1>1 DEF Types, LockHeld, Stored
<1>3. Interned'
  BY <1>1 DEF Interned, Types, Interner!TypeOK
<1>4. DefsDistinct'
  BY <1>1 DEF DefsDistinct, Types, Interner!TypeOK
<1> QED
  BY <1>1, <1>2, <1>3, <1>4

\* The section of register under the lock.
LEMMA PushDefKeeps == ASSUME IInv, NEW t \in Tasks, PushDef(t) PROVE IInv'
<1> USE DEF IInv, PushDef, Goto, interner
<1>1. Interner!TypeOK' /\ NamesInterned'
  BY DEF Types, NamesInterned, Interner!TypeOK, Interner!Bijective, Interner!GotResolves,
         Interner!Resolve
<1>2. writer = {t} /\ \A u \in Tasks : u # t => pc[u] \notin {"defs", "storage"}
  BY DEF LockHeld
<1>3. storage = 1 .. Len(defs)
  BY <1>2 DEF Stored
<1>4. got[t] \in 0 .. Len(vec) - 1
  BY DEF Interned, NamesInterned, Interner!GotResolves, Interner!NoId, Types, Interner!TypeOK
<1>5. CASE Known(got[t])
  <2>1. IdOf(got[t]) \in 1 .. Len(defs)
    BY <1>5 DEF Known, IdOf
  <2>2. Types' /\ DefsDistinct'
    <3>1. IdOf(got[t]) \in Nat
      BY <2>1 DEF Types
    <3>2. id' \in [Tasks -> Nat] /\ pc' \in [Tasks -> States] /\ UNCHANGED <<defs, vec>>
      BY <1>5, <3>1 DEF Types, States
    <3> QED
      BY <1>1, <3>2 DEF Types, DefsDistinct
  <2>5. Interned'
    BY <1>5 DEF Interned, Types
  <2>3. LockHeld'
    BY <1>2, <1>5 DEF LockHeld, Types
  <2>4. Stored'
    BY <1>2, <1>3, <1>5, <2>1 DEF Stored, Types
  <2> QED
    BY <1>1, <2>2, <2>3, <2>4, <2>5
<1>6. CASE ~Known(got[t])
  <2>1. /\ Len(defs') = Len(defs) + 1 /\ defs' \in Seq(Nat)
        /\ defs'[Len(defs) + 1] = got[t]
        /\ \A i \in 1 .. Len(defs) : defs'[i] = defs[i] /\ defs[i] # got[t]
    <3>1. defs \in Seq(Nat) /\ got[t] \in Nat /\ defs' = Append(defs, got[t])
      BY <1>4, <1>6 DEF Types, Interner!TypeOK
    <3> QED
      BY <1>6, <3>1 DEF Known
  <2>2. Types'
    <3>1. Len(defs) + 1 \in Nat
      BY DEF Types
    <3>2. id' \in [Tasks -> Nat] /\ pc' \in [Tasks -> States]
      BY <1>6, <3>1 DEF Types, States
    <3> QED
      BY <1>1, <2>1, <3>2 DEF Types
  <2>6. Interned'
    BY <1>6 DEF Interned, Types
  <2>3. DefsDistinct'
    <3>1. Len(defs) \in Nat /\ UNCHANGED vec
      BY DEF Types
    <3>2. \A i \in 1 .. Len(defs') : i \in 1 .. Len(defs) \/ i = Len(defs) + 1
      BY <2>1, <3>1
    <3> QED
      BY <1>4, <2>1, <3>1, <3>2 DEF DefsDistinct
  <2>4. LockHeld'
    BY <1>2, <1>6 DEF LockHeld, Types
  <2>5. Stored'
    BY <1>2, <1>3, <1>6, <2>1 DEF Stored, Types
  <2> QED
    BY <1>1, <2>2, <2>3, <2>4, <2>5, <2>6
<1> QED
  BY <1>5, <1>6

\* Every step keeps the invariant.
LEMMA NextKeeps == ASSUME IInv, [Next]_vars PROVE IInv'
<1> USE DEF IInv, Types, NamesInterned, Interned, DefsDistinct, LockHeld, Stored, States,
        Goto, locks
<1>1. ASSUME UNCHANGED interner PROVE (Interner!TypeOK /\ NamesInterned)'
  BY <1>1 DEF interner, Interner!TypeOK, Interner!Bijective, Interner!GotResolves,
              Interner!Resolve
<1>2. ASSUME NEW t \in Tasks, Begin(t) \/ Continue(t) PROVE IInv'
  <2>1. CASE \E n \in Names : Register(t, n) \/ LookupMetric(t, n)
    BY <2>1, BeginInternKeeps
  <2>2. CASE GetSeriesMap(t)
    BY <1>1, <2>2 DEF GetSeriesMap, Call, interner
  <2>3. CASE Summarize(t)
    BY <1>1, <2>3 DEF Summarize, Call, interner
  <2>4. CASE Intern(t)
    BY <2>4, InternKeeps
  <2>5. CASE LockDefs(t)
    BY <1>1, <2>5 DEF LockDefs, WantWrite, interner
  <2>6. CASE PushDef(t)
    BY <2>6, PushDefKeeps
  <2>7. CASE InsertStorage(t)
    BY <1>1, <2>7 DEF InsertStorage, interner
  <2>8. CASE FindSeries(t)
    BY <1>1, <2>8 DEF FindSeries, interner
  <2>9. CASE ReadKind(t)
    BY <1>1, <2>9 DEF ReadKind, interner
  <2>10. CASE MakeSeries(t)
    BY <1>1, <2>10 DEF MakeSeries, interner
  <2>11. CASE FindDef(t)
    <3>1. writer = {} /\ storage = 1 .. Len(defs)
      BY <2>11 DEF FindDef, CanRead
    <3>2. Known(got[t]) => IdOf(got[t]) \in 1 .. Len(defs)
      BY DEF Known, IdOf
    <3>3. id'[t] \in Nat /\ (id'[t] = 0 \/ id'[t] \in storage)
      BY <2>11, <3>1, <3>2 DEF FindDef
    <3>4. \A u \in Tasks : u # t => id'[u] = id[u] /\ pc'[u] = pc[u]
      BY <2>11 DEF FindDef
    <3>5. pc' = [pc EXCEPT ![t] = "idle"] /\ UNCHANGED <<interner, defs, storage, locks>>
      BY <2>11 DEF FindDef
    <3>6. Types'
      BY <1>1, <2>11, <3>3, <3>5 DEF FindDef
    <3>7. DefsDistinct'
      BY <3>5 DEF interner
    <3>9. Interned'
      BY <2>11, <3>5 DEF interner, FindDef
    <3>8. LockHeld' /\ Stored'
      BY <2>11, <3>1, <3>3, <3>4, <3>5 DEF FindDef
    <3> QED
      BY <1>1, <3>5, <3>6, <3>7, <3>8, <3>9
  <2>12. CASE EndSummary(t)
    BY <1>1, <2>12 DEF EndSummary, interner
  <2> QED
    BY <1>2, <2>1, <2>2, <2>3, <2>4, <2>5, <2>6, <2>7, <2>8, <2>9, <2>10, <2>11, <2>12
    DEF Begin, Continue
<1>3. CASE UNCHANGED vars
  BY <1>1, <1>3 DEF vars, interner
<1> QED
  BY <1>2, <1>3 DEF Next

-----------------------------------------------------------------------------
(* Theorems. *)

\* In every reachable state the interner, the definitions, the lock and the outer
\* map agree as IInv says.
THEOREM RegistryInvariant == Spec => []IInv
  BY InitEstablishes, NextKeeps, PTL DEF Spec

\* get_or_intern gives equal strings equal ids and different ones different ids,
\* though it looks and inserts under different locks.
THEOREM NamesUnique == Spec => []NamesInterned
<1>1. IInv => NamesInterned
  BY DEF IInv
<1> QED
  BY <1>1, RegistryInvariant, PTL

LEMMA DefinitionsOf == ASSUME IInv PROVE OneDefPerName
<1> SUFFICES ASSUME NEW i \in 1 .. Len(defs), NEW j \in 1 .. Len(defs),
                    vec[defs[i] + 1] = vec[defs[j] + 1]
             PROVE  i = j
  BY DEF OneDefPerName, Interner!Resolve
<1>1. defs[i] + 1 \in 1 .. Len(vec) /\ defs[j] + 1 \in 1 .. Len(vec)
  <2>1. Len(vec) \in Nat
    BY DEF IInv, Types, Interner!TypeOK
  <2>2. defs[i] \in 0 .. Len(vec) - 1 /\ defs[j] \in 0 .. Len(vec) - 1
    BY DEF IInv, DefsDistinct
  <2> QED
    BY <2>1, <2>2
<1>2. \A k \in 1 .. Len(vec) : map[vec[k]] = k - 1
  BY DEF IInv, NamesInterned, Interner!Bijective
<1>3. defs[i] \in Int /\ defs[j] \in Int
  BY DEF IInv, DefsDistinct, Types, Interner!TypeOK
<1>4. defs[i] = defs[j]
  <2>1. map[vec[defs[i] + 1]] = (defs[i] + 1) - 1 /\ map[vec[defs[j] + 1]] = (defs[j] + 1) - 1
    BY <1>1, <1>2
  <2> QED
    BY <1>3, <2>1
<1> QED
  BY <1>4 DEF IInv, DefsDistinct

\* register never makes two definitions of one name.
THEOREM DefinitionsUnique == Spec => []OneDefPerName
BY DefinitionsOf, RegistryInvariant, PTL

\* An id that register or lookup_metric returned always yields a handle.
THEOREM HandlesThere == Spec => []HandlesAvailable
<1>1. IInv => HandlesAvailable
  BY DEF IInv, HandlesAvailable, LockHeld, Stored
<1> QED
  BY <1>1, RegistryInvariant, PTL

\* Names, definitions and the outer map of the registry always fit together.
THEOREM RegistryKept == Spec => []RegistrySound
BY NamesUnique, DefinitionsUnique, HandlesThere, PTL DEF RegistrySound

-----------------------------------------------------------------------------
(* The locks. *)

\* Who is inside holds the locks, and who holds a shard holds that of a metric that the
\* outer map has.
Holding ==
    /\ series \subseteq storage
    /\ readers = {t \in Tasks : pc[t] = "summary"}
    /\ shared = [s \in Shards |->
          {t \in Tasks : pc[t] \in {"series", "kind", "make"} /\ ShardOf[id[t]] = s}]
    /\ \A t \in Tasks : pc[t] \in {"series", "kind", "make"} => id[t] \in storage
    /\ calls \in [Tasks -> 0..MaxCalls]

LInv == IInv /\ Holding

\* There are no more definitions than names, so every id has a shard.
LEMMA DefsFit ==
    ASSUME IInv
    PROVE  1 .. Len(defs) \subseteq DOMAIN ShardOf /\ storage \subseteq 1 .. Len(defs)
<1>1. Len(defs) \in Nat /\ Len(vec) \in Nat /\ vec \in Seq(Names) /\ defs \in Seq(Nat)
  BY DEF IInv, Types, Interner!TypeOK
<1> DEFINE name == [i \in 1 .. Len(defs) |-> vec[defs[i] + 1]]
<1>2. \A i \in 1 .. Len(defs) : defs[i] + 1 \in 1 .. Len(vec)
  BY <1>1 DEF IInv, DefsDistinct
<1>3. name \in [1 .. Len(defs) -> Names]
  BY <1>1, <1>2
<1>4. OneDefPerName
  BY DefinitionsOf
<1>5. ~ \E x, y \in 1 .. Len(defs) : x # y /\ name[x] = name[y]
  BY <1>4 DEF OneDefPerName, Interner!Resolve
<1>6. IsFiniteSet(1 .. Len(defs)) /\ Cardinality(1 .. Len(defs)) = Len(defs)
  <2>1. ASSUME NEW n \in Nat PROVE IsFiniteSet(1..n) /\ Cardinality(1..n) = n
    BY FS_Interval
  <2> QED
    BY <1>1, <2>1
<1>7. IsFiniteSet(Names) /\ Cardinality(Names) \in Nat
  BY RegistryAssumption, FS_CardinalityType
<1>8. ~(Cardinality(Names) < Cardinality(1 .. Len(defs)))
  <2> HIDE DEF name
  <2> QED
    BY <1>3, <1>5, <1>6, <1>7, FS_PigeonHole
<1>9. 1 .. Len(defs) \subseteq DOMAIN ShardOf
  BY <1>1, <1>6, <1>7, <1>8, RegistryAssumption
<1>10. storage \subseteq 1 .. Len(defs)
  BY <1>1 DEF IInv, Stored
<1> QED
  BY <1>9, <1>10

\* Every step keeps the locks with those who are inside.
LEMMA HeldStep == ASSUME LInv, [Next]_vars PROVE Holding'
<1> USE DEF LInv
<1>1. CASE UNCHANGED vars
  BY <1>1 DEF vars, locks, Holding
<1>2. ASSUME NEW t \in Tasks, Begin(t) \/ Continue(t) PROVE Holding'
  <2>1. pc \in [Tasks -> States] /\ id \in [Tasks -> Nat] /\ MaxCalls \in Nat
    BY RegistryAssumption DEF IInv, Types
  <2>2. CASE \E n \in Names : Register(t, n) \/ LookupMetric(t, n)
    BY <2>1, <2>2 DEF Register, LookupMetric, Call, Goto, Holding, locks
  <2>3. CASE Summarize(t)
    BY <2>1, <2>3 DEF Summarize, Call, Goto, Holding
  <2>4. CASE GetSeriesMap(t)
    <3>1. id[t] \in storage /\ pc[t] = "idle"
      BY <2>4 DEF GetSeriesMap, Call, IInv, Stored
    <3>2. shared' = [shared EXCEPT ![ShardOf[id[t]]] = @ \union {t}] /\ pc' = [pc EXCEPT ![t] = "series"]
      BY <2>4, <3>1 DEF GetSeriesMap, Hold, Goto
    <3>3. UNCHANGED <<storage, series, readers, id>> /\ calls' \in [Tasks -> 0..MaxCalls]
      BY <2>1, <2>4 DEF GetSeriesMap, Call, Holding
    <3>4. readers' = {u \in Tasks : pc'[u] = "summary"}
      BY <2>1, <3>1, <3>2, <3>3 DEF Holding
    <3>5. shared' = [s \in Shards |->
             {u \in Tasks : pc'[u] \in {"series", "kind", "make"} /\ ShardOf[id'[u]] = s}]
      BY <2>1, <3>1, <3>2, <3>3 DEF Holding
    <3> QED
      BY <2>1, <3>1, <3>2, <3>3, <3>4, <3>5 DEF Holding
  <2>5. CASE Intern(t)
    BY <2>5 DEF Intern, Holding, locks
  <2>6. CASE LockDefs(t)
    BY <2>1, <2>6 DEF LockDefs, WantWrite, Goto, Holding
  <2>7. CASE PushDef(t)
    BY <2>1, <2>7 DEF PushDef, Goto, Holding
  <2>8. CASE InsertStorage(t)
    BY <2>1, <2>8 DEF InsertStorage, Goto, Holding
  <2>9. CASE FindSeries(t)
    <3>1. CASE id[t] \in series
      <4>1. shared' = [shared EXCEPT ![ShardOf[id[t]]] = @ \ {t}] /\ pc' = [pc EXCEPT ![t] = "idle"]
            /\ pc[t] = "series" /\ UNCHANGED <<storage, series, readers, id, calls>>
        BY <2>9, <3>1 DEF FindSeries, Release, Goto
      <4>2. shared' = [s \in Shards |->
             {u \in Tasks : pc'[u] \in {"series", "kind", "make"} /\ ShardOf[id'[u]] = s}]
        BY <2>1, <4>1 DEF Holding
      <4> QED
        BY <2>1, <4>1, <4>2 DEF Holding
    <3>2. CASE id[t] \notin series
      BY <2>1, <2>9, <3>2 DEF FindSeries, Goto, Holding
    <3> QED
      BY <3>1, <3>2
  <2>10. CASE ReadKind(t)
    BY <2>1, <2>10 DEF ReadKind, Goto, Holding, locks
  <2>11. CASE MakeSeries(t)
    <3>1. shared' = [shared EXCEPT ![ShardOf[id[t]]] = @ \ {t}] /\ pc' = [pc EXCEPT ![t] = "idle"]
          /\ pc[t] = "make" /\ UNCHANGED <<storage, readers, id, calls>>
          /\ series' = series \union {id[t]}
      BY <2>11 DEF MakeSeries, Release, Goto
    <3>2. shared' = [s \in Shards |->
           {u \in Tasks : pc'[u] \in {"series", "kind", "make"} /\ ShardOf[id'[u]] = s}]
      BY <2>1, <3>1 DEF Holding
    <3> QED
      BY <2>1, <3>1, <3>2 DEF Holding
  <2>12. CASE FindDef(t)
    BY <2>1, <2>12 DEF FindDef, Goto, Holding, locks
  <2>13. CASE EndSummary(t)
    BY <2>1, <2>13 DEF EndSummary, Goto, Holding
  <2> QED
    BY <1>2, <2>2, <2>3, <2>4, <2>5, <2>6, <2>7, <2>8, <2>9, <2>10, <2>11, <2>12, <2>13
    DEF Begin, Continue
<1> QED
  BY <1>1, <1>2 DEF Next

\* In every reachable state, besides, the locks are held by those who are inside.
THEOREM LocksHeld == Spec => []LInv
<1>1. Init => LInv
  BY InitEstablishes, RegistryAssumption DEF Init, LInv, Holding
<1>2. LInv /\ [Next]_vars => LInv'
  BY NextKeeps, HeldStep DEF LInv
<1> QED
  BY <1>1, <1>2, PTL DEF Spec

\* Every variable keeps its type: the ids never run out of shards, and a lock is held by
\* whoever is inside and by nobody else.
THEOREM RegistryTypes == Spec => []TypeOK
<1>1. LInv => TypeOK
  <2> SUFFICES ASSUME LInv PROVE TypeOK
    OBVIOUS
  <2>1. 1 .. Len(defs) \subseteq DOMAIN ShardOf /\ storage \subseteq 1 .. Len(defs)
    BY DefsFit DEF LInv
  <2>2. id \in [Tasks -> DOMAIN ShardOf \union {0}]
    <3>1. Len(defs) \in Nat /\ id \in [Tasks -> Nat]
      BY DEF LInv, IInv, Types
    <3>2. \A t \in Tasks : id[t] = 0 \/ id[t] \in 1 .. Len(defs)
      BY <2>1, <3>1 DEF LInv, IInv, Stored
    <3> QED
      BY <2>1, <3>1, <3>2
  <2> QED
    BY <2>1, <2>2 DEF LInv, IInv, Types, LockHeld, Holding, TypeOK
<1> QED
  BY <1>1, LocksHeld, PTL

-----------------------------------------------------------------------------
(* Waiting. *)

\* A register that waits for a shard and a get_handle that holds it for another metric
\* while it waits for the definitions.
ShardCollision ==
    \E t, u \in Tasks :
        /\ pc[t] = "storage" /\ pc[u] = "kind"
        /\ id[t] # id[u] /\ ShardOf[id[t]] = ShardOf[id[u]]

LEMMA ReadyOrCollision == LInv => NoCircularWait \/ ShardCollision
<1> SUFFICES ASSUME LInv, ~ShardCollision, NEW w \in Tasks, pc[w] # "idle"
             PROVE  \E t \in Tasks : Ready(t)
  BY DEF NoCircularWait
<1> SUFFICES ASSUME \A t \in Tasks : ~Ready(t) PROVE FALSE
  OBVIOUS
<1>1. \A t \in Tasks : interning[t] = "idle" /\ pc[t] \notin {"defs", "series", "make", "summary", "no_handle"}
  BY DEF Ready, LInv, IInv, Types, Stored, Interner!TypeOK
<1>2. readers = {}
  BY <1>1 DEF LInv, Holding
<1>3. \A t \in Tasks : pc[t] # "storage"
  <2> SUFFICES ASSUME NEW t \in Tasks, pc[t] = "storage" PROVE FALSE
    OBVIOUS
  <2>1. id[t] = Len(defs) /\ Len(defs) > 0 /\ Len(defs) \in Nat /\ storage = 1 .. Len(defs) - 1
    BY DEF LInv, IInv, Stored, Types
  <2>2. ShardOf[id[t]] \in Shards
    BY <2>1, DefsFit DEF LInv, Shards
  <2>3. PICK u \in Tasks : pc[u] \in {"series", "kind", "make"} /\ ShardOf[id[u]] = ShardOf[id[t]]
    BY <2>2 DEF Ready, LInv, Holding
  <2>4. pc[u] = "kind" /\ id[u] \in storage
    BY <1>1, <2>3 DEF LInv, Holding
  <2> QED
    BY <2>1, <2>3, <2>4 DEF ShardCollision
<1>4. writer = {}
  BY <1>1, <1>3 DEF LInv, IInv, LockHeld
<1>5. WantWrite = {}
  BY <1>2, <1>4 DEF Ready, WantWrite
<1>6. pc[w] \in {"kind", "lookup"}
  BY <1>1, <1>3, <1>5 DEF WantWrite, LInv, IInv, Types, States
<1> QED
  BY <1>1, <1>4, <1>5, <1>6 DEF Ready, CanRead

\* The calls of the registry wait for each other in a circle in one way only: a register
\* and a get_handle of two metrics whose ids fall into one shard.
THEOREM OnlyCollisionsBlock == Spec => [](NoCircularWait \/ ShardCollision)
BY ReadyOrCollision, LocksHeld, PTL

\* Where no two metrics share a shard, the calls of the registry never wait for each other
\* in a circle.
THEOREM NoCircleInOwnShards ==
    ASSUME \A i, j \in DOMAIN ShardOf : ShardOf[i] = ShardOf[j] => i = j
    PROVE  Spec => []NoCircularWait
<1>1. LInv => ~ShardCollision
  <2> SUFFICES ASSUME LInv, NEW t \in Tasks, NEW u \in Tasks, pc[t] = "storage", pc[u] = "kind"
               PROVE  id[t] \in DOMAIN ShardOf /\ id[u] \in DOMAIN ShardOf
    BY DEF ShardCollision
  <2>1. id[t] = Len(defs) /\ Len(defs) > 0 /\ Len(defs) \in Nat /\ id[u] \in storage
    BY DEF LInv, IInv, Stored, Types, Holding
  <2> QED
    BY <2>1, DefsFit DEF LInv
<1> QED
  BY <1>1, OnlyCollisionsBlock, LocksHeld, PTL

-----------------------------------------------------------------------------
(* The gauges. *)

\* The VUs that have a gauge for vu_active, or had one for vu_active_max.
HasActive == {v \in Vus : entering[v] \notin {"find_active", "make_active"}}
HasPeak   == {v \in Vus : entering[v] \in {"load_peak", "raise_peak", "inside", "sub", "out"}}

\* The last gauge that was made.
Top == IF gauges["active"] > gauges["peak"] THEN gauges["active"] ELSE gauges["peak"]

Numbering ==
    /\ Top <= Cardinality(HasActive) + Cardinality(HasPeak)
    /\ gauges["active"] # 0 => gauges["active"] # gauges["peak"]
    /\ HasActive # {} => gauges["active"] # 0
    /\ HasPeak # {} => gauges["peak"] # 0
    /\ \A v \in Vus : handle[v] <= Top
    /\ \A v \in Vus : entering[v] \in {"add", "sub"} => handle[v] # 0 /\ handle[v] # gauges["peak"]
    /\ \A v \in Vus : entering[v] \in {"load_peak", "raise_peak"} => handle[v] # 0

Bounds ==
    /\ \A g \in Gauges : value[g] <= Cardinality(Entered)
    /\ \A v \in Vus : mine[v] <= Cardinality(Entered)

Counted ==
    /\ inside = {v \in Vus : entering[v] \notin {"find_active", "make_active", "add", "out"}}
    /\ Cardinality(inside) <= max_inside

\* As long as no series was inserted over another, all VUs hold the two of the registry.
SameGauges ==
    /\ \A v \in Vus : entering[v] \in {"add", "sub"} => handle[v] = gauges["active"]
    /\ \A v \in Vus : entering[v] \in {"load_peak", "raise_peak"} => handle[v] = gauges["peak"]
    /\ \A g \in Gauges : g > Top => value[g] = 0

\* What the gauges show, and what the VUs have read.
Shows ==
    /\ gauges["active"] # 0 => value[gauges["active"]] = Cardinality(inside)
    /\ gauges["peak"] # 0 => value[gauges["peak"]] <= max_inside

Readings ==
    /\ \A v \in Entered : mine[v] <= max_inside
    /\ max_inside = 0 \/ \E v \in Entered : mine[v] = max_inside
    /\ \A v \in Vus : entering[v] = "raise_peak" => cur[v] <= value[gauges["peak"]]
    /\ \A v \in Vus : entering[v] \in {"inside", "sub", "out"} => mine[v] <= value[gauges["peak"]]
    /\ \A v \in Entered : mine[v] > 0

Unraced == ~remade => SameGauges /\ Shows /\ Readings

GInv == GaugeTypeOK /\ Numbering /\ Bounds /\ Counted /\ Unraced

-----------------------------------------------------------------------------
(* Numbers of VUs and of gauges. *)

LEMMA SetsOfVus ==
    ASSUME IsFiniteSet(Vus), NEW S, S \subseteq Vus
    PROVE  /\ IsFiniteSet(S) /\ Cardinality(S) \in Nat /\ Cardinality(S) <= Cardinality(Vus)
           /\ S # Vus => Cardinality(S) < Cardinality(Vus)
BY FS_Subset, FS_CardinalityType

LEMMA TopFacts ==
    ASSUME IsFiniteSet(Vus), GaugeTypeOK
    PROVE  /\ Top \in 0 .. 2 * Cardinality(Vus)
           /\ gauges["active"] \in 0..Top /\ gauges["peak"] \in 0..Top
           /\ Cardinality(Created) = Top
<1>1. Cardinality(Vus) \in Nat
  BY FS_CardinalityType
<1>2. /\ gauges["active"] \in 0 .. 2 * Cardinality(Vus)
      /\ gauges["peak"] \in 0 .. 2 * Cardinality(Vus)
  BY <1>1 DEF GaugeTypeOK, Metrics, Gauges
<1>3. /\ Top \in 0 .. 2 * Cardinality(Vus)
      /\ gauges["active"] \in 0..Top /\ gauges["peak"] \in 0..Top
  BY <1>1, <1>2 DEF Top
<1>4. Created = 1..Top
  BY <1>1, <1>2 DEF Created, Gauges, Metrics, Top
<1>5. Cardinality(1..Top) = Top
  BY <1>3, FS_Interval
<1> QED
  BY <1>3, <1>4, <1>5

LEMMA HandlesNat == ASSUME IsFiniteSet(Vus), GaugeTypeOK PROVE handle \in [Vus -> Nat]
<1>1. Gauges \union {0} \subseteq Nat
  BY FS_CardinalityType DEF Gauges
<1> QED
  BY <1>1 DEF GaugeTypeOK

\* A VU that is about to make a gauge has a number left for it.
LEMMA MakeFits ==
    ASSUME IsFiniteSet(Vus), GaugeTypeOK, Numbering, NEW v \in Vus,
           entering[v] \in {"make_active", "make_peak"}
    PROVE  Top + 1 \in Gauges
<1>1. Cardinality(Vus) \in Nat
  BY FS_CardinalityType
<1>2. HasActive \subseteq Vus /\ HasPeak \subseteq Vus /\ v \notin HasPeak
  BY DEF HasActive, HasPeak
<1>3. /\ Cardinality(HasActive) \in Nat /\ Cardinality(HasActive) <= Cardinality(Vus)
      /\ Cardinality(HasPeak) \in Nat /\ Cardinality(HasPeak) < Cardinality(Vus)
  BY <1>2, SetsOfVus
<1> QED
  BY <1>1, <1>3, TopFacts DEF Numbering, Gauges

-----------------------------------------------------------------------------
(* The invariant. *)

LEMMA InvInit == ASSUME IsFiniteSet(Vus) PROVE GaugeInit => GInv
<1> SUFFICES ASSUME GaugeInit PROVE GInv
  OBVIOUS
<1>1. GaugeTypeOK
  <2>1. remade \in BOOLEAN
    BY DEF GaugeInit
  <2>2. max_inside \in Nat /\ inside \subseteq Vus
    BY DEF GaugeInit
  <2> QED
    BY <2>1, <2>2 DEF GaugeInit, GaugeTypeOK, GaugeStates
<1>2. HasActive = {} /\ HasPeak = {} /\ Entered = {} /\ Top = 0 /\ inside = {}
  BY DEF GaugeInit, HasActive, HasPeak, Entered, Top, Metrics
<1>3. Cardinality(HasActive) = 0 /\ Cardinality(HasPeak) = 0 /\ Cardinality(Entered) = 0
      /\ Cardinality(inside) = 0
  BY <1>2, FS_EmptySet
<1>4. Numbering
  BY <1>2, <1>3 DEF GaugeInit, Numbering, Metrics
<1>5. Bounds
  BY <1>3 DEF GaugeInit, Bounds
<1>6. Counted
  BY <1>3 DEF GaugeInit, Counted
<1>7. Unraced
  BY <1>2, <1>3 DEF GaugeInit, Unraced, SameGauges, Shows, Readings, Metrics
<1> QED
  BY <1>1, <1>4, <1>5, <1>6, <1>7 DEF GInv

LEMMA TypeStep ==
    ASSUME IsFiniteSet(Vus), GInv, NEW v \in Vus, VuStep(v) PROVE GaugeTypeOK'
<1> USE DEF GInv
<1>1. CASE FindActive(v)
  BY <1>1 DEF FindActive, Find, MoveTo, registry, history, GaugeTypeOK, GaugeStates, Metrics
<1>2. CASE MakeActive(v)
  <2>1. remade' \in BOOLEAN
    BY <1>2 DEF MakeActive, Make
  <2> QED
    BY <1>2, <2>1, MakeFits, TopFacts
    DEF MakeActive, Make, MoveTo, history, GaugeTypeOK, GaugeStates, Metrics
<1>3. CASE Add(v)
  <2>1. value[handle[v]] \in Int
    BY <1>3 DEF Add, GaugeTypeOK, Numbering
  <2>2. inside' \subseteq Vus
    BY <1>3 DEF Add, GaugeTypeOK
  <2>3. max_inside' \in Nat
    BY <1>3, <2>2, SetsOfVus DEF Add, GaugeTypeOK
  <2>4. value' \in [Gauges -> Int]
    <3>1. value' = [value EXCEPT ![handle[v]] = value[handle[v]] + 1]
      BY <1>3 DEF Add
    <3>2. value \in [Gauges -> Int] /\ value[handle[v]] + 1 \in Int
      BY <2>1 DEF GaugeTypeOK
    <3> QED
      BY <3>1, <3>2
  <2>5. mine' \in [Vus -> Int]
    BY <1>3, <2>1 DEF Add, GaugeTypeOK
  <2>6. entering' \in [Vus -> GaugeStates]
    BY <1>3 DEF Add, MoveTo, GaugeTypeOK, GaugeStates
  <2>7. UNCHANGED <<gauges, remade, handle, cur>>
    BY <1>3 DEF Add
  <2> QED
    BY <2>2, <2>3, <2>4, <2>5, <2>6, <2>7 DEF GaugeTypeOK
<1>4. CASE FindPeak(v)
  BY <1>4 DEF FindPeak, Find, MoveTo, registry, history, GaugeTypeOK, GaugeStates, Metrics
<1>5. CASE MakePeak(v)
  <2>1. remade' \in BOOLEAN
    BY <1>5 DEF MakePeak, Make
  <2> QED
    BY <1>5, <2>1, MakeFits, TopFacts
    DEF MakePeak, Make, MoveTo, history, GaugeTypeOK, GaugeStates, Metrics
<1>6. CASE LoadPeak(v)
  BY <1>6 DEF LoadPeak, MoveTo, registry, history, GaugeTypeOK, GaugeStates, Numbering
<1>7. CASE RaisePeak(v)
  BY <1>7 DEF RaisePeak, MoveTo, history, GaugeTypeOK, GaugeStates, Numbering
<1>8. CASE FindDrop(v)
  <2>1. gauges["active"] # 0
    BY <1>8 DEF FindDrop, Find, Numbering, HasActive
  <2> QED
    BY <1>8, <2>1 DEF FindDrop, Find, MoveTo, registry, history, GaugeTypeOK, GaugeStates, Metrics
<1>9. CASE Sub(v)
  BY <1>9 DEF Sub, MoveTo, GaugeTypeOK, GaugeStates, Numbering
<1> QED
  BY <1>1, <1>2, <1>3, <1>4, <1>5, <1>6, <1>7, <1>8, <1>9 DEF VuStep

\* Every VU keeps what it has.
LEMMA SetsGrow ==
    ASSUME GInv, NEW v \in Vus, VuStep(v)
    PROVE  /\ HasActive \subseteq HasActive' /\ HasPeak \subseteq HasPeak'
           /\ Entered \subseteq Entered' /\ HasActive' \subseteq Vus /\ HasPeak' \subseteq Vus
           /\ Entered' \subseteq Vus
<1> USE DEF GInv
<1>1. /\ entering[v] \in {"find_active", "make_active"} =>
            HasActive' \subseteq HasActive \union {v} /\ HasPeak' = HasPeak /\ Entered' = Entered
      /\ \A w \in Vus : w # v => entering'[w] = entering[w]
  BY DEF VuStep, FindActive, MakeActive, Add, FindPeak, MakePeak, LoadPeak, RaisePeak, FindDrop,
         Sub, Find, Make, MoveTo, GaugeTypeOK, HasActive, HasPeak, Entered
<1>2. /\ v \in HasActive => entering'[v] \notin {"find_active", "make_active"}
      /\ v \in HasPeak => entering'[v] \in {"load_peak", "raise_peak", "inside", "sub", "out"}
      /\ v \in Entered => entering'[v] \notin {"find_active", "make_active", "add"}
  <2>1. entering[v] = "inside" => gauges["active"] # 0
    BY DEF Numbering, HasActive
  <2> QED
    BY <2>1 DEF VuStep, FindActive, MakeActive, Add, FindPeak, MakePeak, LoadPeak, RaisePeak,
       FindDrop, Sub, Find, Make, MoveTo, GaugeTypeOK, HasActive, HasPeak, Entered
<1> QED
  BY <1>1, <1>2 DEF HasActive, HasPeak, Entered

LEMMA SizesGrow ==
    ASSUME IsFiniteSet(Vus), GInv, NEW v \in Vus, VuStep(v)
    PROVE  /\ Cardinality(HasActive) <= Cardinality(HasActive')
           /\ Cardinality(HasPeak) <= Cardinality(HasPeak')
           /\ Cardinality(Entered) <= Cardinality(Entered')
           /\ Cardinality(HasActive) \in Nat /\ Cardinality(HasActive') \in Nat
           /\ Cardinality(HasPeak) \in Nat /\ Cardinality(HasPeak') \in Nat
           /\ Cardinality(Entered) \in Nat /\ Cardinality(Entered') \in Nat
<1>1. IsFiniteSet(HasActive') /\ IsFiniteSet(HasPeak') /\ IsFiniteSet(Entered')
  BY SetsGrow, FS_Subset
<1> QED
  BY <1>1, SetsGrow, FS_Subset, FS_CardinalityType

LEMMA NumberingStep ==
    ASSUME IsFiniteSet(Vus), GInv, NEW v \in Vus, VuStep(v) PROVE Numbering'
<1> USE DEF GInv
<1>1. GaugeTypeOK'
  BY TypeStep
<1>2. CASE FindActive(v) \/ FindPeak(v) \/ FindDrop(v)
  <2>1. gauges' = gauges /\ Top' = Top
    BY <1>2 DEF FindActive, FindPeak, FindDrop, Find, registry, Top
  <2>2. Top' <= Cardinality(HasActive') + Cardinality(HasPeak')
    BY <2>1, SizesGrow, TopFacts DEF Numbering
  <2>3. /\ HasActive' # {} => gauges'["active"] # 0
        /\ HasPeak' # {} => gauges'["peak"] # 0
    BY <1>2 DEF FindActive, FindPeak, FindDrop, Find, registry, MoveTo, HasActive, HasPeak, Numbering,
       GaugeTypeOK
  <2>4. \A w \in Vus : handle'[w] <= Top'
    BY <1>2, <2>1, TopFacts DEF FindActive, FindPeak, FindDrop, Find, Numbering, GaugeTypeOK
  <2>5. \A w \in Vus : entering'[w] \in {"add", "sub"} => handle'[w] # 0 /\ handle'[w] # gauges'["peak"]
    BY <1>2, <2>1 DEF FindActive, FindPeak, FindDrop, Find, MoveTo, Numbering, GaugeTypeOK
  <2>6. \A w \in Vus : entering'[w] \in {"load_peak", "raise_peak"} => handle'[w] # 0
    BY <1>2, <2>1 DEF FindActive, FindPeak, FindDrop, Find, MoveTo, Numbering, GaugeTypeOK
  <2> QED
    BY <2>1, <2>2, <2>3, <2>4, <2>5, <2>6 DEF Numbering
<1>3. CASE MakeActive(v)
  <2>1. /\ gauges'["active"] = Top + 1 /\ gauges'["peak"] = gauges["peak"]
        /\ handle' = [handle EXCEPT ![v] = Top + 1]
        /\ entering[v] = "make_active" /\ entering' = [entering EXCEPT ![v] = "add"]
    BY <1>3, TopFacts DEF MakeActive, Make, MoveTo, GaugeTypeOK, Metrics
  <2>2. Top' = Top + 1 /\ Top \in Nat
    BY <2>1, TopFacts DEF Top
  <2>3. HasActive' = HasActive \union {v} /\ v \notin HasActive
    BY <2>1 DEF HasActive, GaugeTypeOK
  <2>4. Cardinality(HasActive') = Cardinality(HasActive) + 1
    <3>1. IsFiniteSet(HasActive)
      BY SetsOfVus DEF HasActive
    <3> QED
      BY <2>3, <3>1, FS_AddElement
  <2>5. Top' <= Cardinality(HasActive') + Cardinality(HasPeak')
    BY <2>2, <2>4, SizesGrow DEF Numbering
  <2>6. HasPeak' = HasPeak
    BY <2>1 DEF HasPeak, GaugeTypeOK
  <2>7. \A w \in Vus : handle'[w] <= Top'
    BY <2>1, <2>2, HandlesNat DEF Numbering, GaugeTypeOK
  <2>8. \A w \in Vus : entering'[w] \in {"add", "sub"} => handle'[w] # 0 /\ handle'[w] # gauges'["peak"]
    BY <2>1, TopFacts DEF Numbering, GaugeTypeOK
  <2>9. \A w \in Vus : entering'[w] \in {"load_peak", "raise_peak"} => handle'[w] # 0
    BY <2>1 DEF Numbering, GaugeTypeOK
  <2> QED
    BY <2>1, <2>5, <2>6, <2>7, <2>8, <2>9, TopFacts DEF Numbering
<1>4. CASE MakePeak(v)
  <2>1. /\ gauges'["peak"] = Top + 1 /\ gauges'["active"] = gauges["active"]
        /\ handle' = [handle EXCEPT ![v] = Top + 1]
        /\ entering[v] = "make_peak" /\ entering' = [entering EXCEPT ![v] = "load_peak"]
    BY <1>4, TopFacts DEF MakePeak, Make, MoveTo, GaugeTypeOK, Metrics
  <2>2. Top' = Top + 1 /\ Top \in Nat
    BY <2>1, TopFacts DEF Top
  <2>3. HasPeak' = HasPeak \union {v} /\ v \notin HasPeak
    BY <2>1 DEF HasPeak, GaugeTypeOK
  <2>4. Cardinality(HasPeak') = Cardinality(HasPeak) + 1
    <3>1. IsFiniteSet(HasPeak)
      BY SetsOfVus DEF HasPeak
    <3> QED
      BY <2>3, <3>1, FS_AddElement
  <2>5. Top' <= Cardinality(HasActive') + Cardinality(HasPeak')
    BY <2>2, <2>4, SizesGrow DEF Numbering
  <2>6. HasActive' = HasActive
    BY <2>1 DEF HasActive, GaugeTypeOK
  <2>7. \A w \in Vus : handle'[w] <= Top'
    BY <2>1, <2>2, HandlesNat DEF Numbering, GaugeTypeOK
  <2>8. \A w \in Vus : entering'[w] \in {"add", "sub"} => handle'[w] # 0 /\ handle'[w] # gauges'["peak"]
    <3>1. \A w \in Vus : handle[w] # Top + 1
      BY <2>2, HandlesNat DEF Numbering
    <3> QED
      BY <2>1, <3>1 DEF Numbering, GaugeTypeOK
  <2>9. \A w \in Vus : entering'[w] \in {"load_peak", "raise_peak"} => handle'[w] # 0
    BY <2>1, TopFacts DEF Numbering, GaugeTypeOK
  <2> QED
    BY <2>1, <2>5, <2>6, <2>7, <2>8, <2>9, TopFacts DEF Numbering
<1>5. CASE Add(v) \/ LoadPeak(v) \/ RaisePeak(v) \/ Sub(v)
  <2>1. gauges' = gauges /\ handle' = handle /\ Top' = Top
    BY <1>5 DEF Add, LoadPeak, RaisePeak, Sub, registry, Top
  <2>2. Top' <= Cardinality(HasActive') + Cardinality(HasPeak')
    BY <2>1, SizesGrow, TopFacts DEF Numbering
  <2>3. HasActive' = HasActive /\ HasPeak' = HasPeak
    BY <1>5 DEF Add, LoadPeak, RaisePeak, Sub, MoveTo, HasActive, HasPeak, GaugeTypeOK
  <2>4. \A w \in Vus : entering'[w] \in {"add", "sub"} => entering'[w] = entering[w]
    BY <1>5 DEF Add, LoadPeak, RaisePeak, Sub, MoveTo, GaugeTypeOK
  <2>5. \A w \in Vus : entering'[w] \in {"load_peak", "raise_peak"} =>
                          entering[w] \in {"load_peak", "raise_peak"}
    BY <1>5 DEF Add, LoadPeak, RaisePeak, Sub, MoveTo, GaugeTypeOK
  <2> QED
    BY <2>1, <2>2, <2>3, <2>4, <2>5 DEF Numbering
<1> QED
  BY <1>2, <1>3, <1>4, <1>5 DEF VuStep

LEMMA BoundsStep ==
    ASSUME IsFiniteSet(Vus), GInv, NEW v \in Vus, VuStep(v) PROVE Bounds'
<1> USE DEF GInv
<1>1. CASE Add(v)
  <2>1. Entered' = Entered \union {v} /\ v \notin Entered
    BY <1>1 DEF Add, MoveTo, Entered, GaugeTypeOK
  <2>2. Cardinality(Entered') = Cardinality(Entered) + 1
    BY <2>1, SetsOfVus, FS_AddElement DEF Entered
  <2>3. value[handle[v]] + 1 <= Cardinality(Entered')
    BY <1>1, <2>2, SizesGrow DEF Add, Bounds, Numbering, GaugeTypeOK
  <2> QED
    BY <1>1, <2>2, <2>3, SizesGrow DEF Add, Bounds, GaugeTypeOK
<1>2. CASE Sub(v)
  BY <1>2, SizesGrow DEF Sub, Bounds, GaugeTypeOK
<1>3. CASE RaisePeak(v)
  BY <1>3, SizesGrow DEF RaisePeak, Bounds, GaugeTypeOK
<1>4. CASE UNCHANGED <<value, mine>>
  BY <1>4, SizesGrow DEF Bounds, GaugeTypeOK
<1> QED
  BY <1>1, <1>2, <1>3, <1>4
  DEF VuStep, FindActive, FindPeak, FindDrop, Find, MakeActive, MakePeak, Make, LoadPeak, registry

LEMMA CountsStep ==
    ASSUME IsFiniteSet(Vus), GInv, NEW v \in Vus, VuStep(v)
    PROVE  Counted' /\ max_inside' >= max_inside
<1> USE DEF GInv
<1>1. IsFiniteSet(inside) /\ Cardinality(inside) \in Nat /\ max_inside \in Nat
  BY SetsOfVus DEF GaugeTypeOK
<1>2. inside' = {w \in Vus : entering'[w] \notin {"find_active", "make_active", "add", "out"}}
  <2>1. entering[v] = "inside" => gauges["active"] # 0
    BY DEF Numbering, HasActive
  <2> QED
    BY <2>1 DEF VuStep, FindActive, MakeActive, Add, FindPeak, MakePeak, LoadPeak, RaisePeak,
       FindDrop, Sub, Find, Make, MoveTo, history, GaugeTypeOK, Counted
<1>3. CASE Add(v)
  <2>1. Cardinality(inside') \in Nat
    BY <1>2, SetsOfVus
  <2> DEFINE n == Cardinality(inside')
  <2>2. max_inside' = IF n > max_inside THEN n ELSE max_inside
    BY <1>3 DEF Add
  <2>3. n <= max_inside' /\ max_inside' >= max_inside
    <3> HIDE DEF n
    <3> QED
      BY <1>1, <2>1, <2>2 DEF n
  <2> QED
    BY <1>2, <2>3 DEF Counted
<1>4. CASE Sub(v)
  <2>1. Cardinality(inside') <= Cardinality(inside) /\ Cardinality(inside') \in Nat
    BY <1>1, <1>4, FS_Subset, FS_CardinalityType DEF Sub
  <2> QED
    BY <1>1, <1>2, <1>4, <2>1 DEF Sub, Counted
<1>5. CASE UNCHANGED history
  BY <1>1, <1>2, <1>5 DEF history, Counted
<1> QED
  BY <1>3, <1>4, <1>5
  DEF VuStep, FindActive, FindPeak, FindDrop, Find, MakeActive, MakePeak, Make, LoadPeak,
      RaisePeak


\* A step that leaves the series alone and follows no race follows the invariant; one that
\* inserts a series without a race inserts the first one.
LEMMA UnracedStep ==
    ASSUME IsFiniteSet(Vus), GInv, NEW v \in Vus, VuStep(v) PROVE Unraced'
<1> USE DEF GInv
<1> SUFFICES ASSUME ~remade' PROVE SameGauges' /\ Shows' /\ Readings'
  BY DEF Unraced
<1>1. ~remade
  BY DEF VuStep, FindActive, MakeActive, Add, FindPeak, MakePeak, LoadPeak, RaisePeak,
         FindDrop, Sub, Find, Make, registry
<1>2. SameGauges /\ Shows /\ Readings
  BY <1>1 DEF Unraced
<1>3. Cardinality(inside) \in Nat /\ max_inside \in Nat
  BY SetsOfVus DEF GaugeTypeOK
<1>4. CASE FindActive(v) \/ FindPeak(v) \/ FindDrop(v)
  <2>1. /\ UNCHANGED <<gauges, value, mine, cur, inside, max_inside>> /\ Top' = Top
        /\ Entered' = Entered
    BY <1>4 DEF FindActive, FindPeak, FindDrop, Find, MoveTo, registry, history, Top, Entered, GaugeTypeOK
  <2>2. SameGauges'
    BY <1>2, <1>4, <2>1 DEF FindActive, FindPeak, FindDrop, Find, MoveTo, SameGauges, GaugeTypeOK
  <2>3. \A w \in Vus : entering'[w] = "raise_peak" => entering[w] = "raise_peak"
    BY <1>4 DEF FindActive, FindPeak, FindDrop, Find, MoveTo, GaugeTypeOK
  <2>4. \A w \in Vus : entering'[w] \in {"inside", "sub", "out"} => entering[w] \in {"inside", "sub", "out"}
    BY <1>4 DEF FindActive, FindPeak, FindDrop, Find, MoveTo, GaugeTypeOK
  <2> QED
    BY <1>2, <2>1, <2>2, <2>3, <2>4 DEF Shows, Readings
<1>5. CASE MakeActive(v)
  <2>1. /\ gauges'["active"] = Top + 1 /\ gauges'["peak"] = gauges["peak"]
        /\ handle' = [handle EXCEPT ![v] = Top + 1]
        /\ entering[v] = "make_active" /\ entering' = [entering EXCEPT ![v] = "add"]
        /\ UNCHANGED <<value, mine, cur, inside, max_inside>> /\ gauges["active"] = 0
    BY <1>5, TopFacts DEF MakeActive, Make, MoveTo, GaugeTypeOK, Metrics, history
  <2>2. Top' = Top + 1 /\ Top \in Nat
    BY <2>1, TopFacts DEF Top
  <2>3. HasActive = {}
    BY <2>1 DEF Numbering
  <2>4. Entered = {} /\ Entered' = {} /\ inside = {}
    BY <2>1, <2>3 DEF Entered, HasActive, Counted, GaugeTypeOK
  <2>5. \A w \in Vus : entering'[w] = IF w = v THEN "add" ELSE entering[w]
    BY <2>1 DEF GaugeTypeOK
  <2>6. \A w \in Vus : entering[w] \in {"find_active", "make_active"}
    BY <2>3 DEF HasActive
  <2>7. \A g \in Gauges : g > Top' => value'[g] = 0
    BY <1>2, <2>1, <2>2 DEF SameGauges, Gauges
  <2>8. SameGauges'
    BY <2>1, <2>5, <2>6, <2>7 DEF SameGauges, GaugeTypeOK
  <2>9. value'[gauges'["active"]] = Cardinality(inside')
    <3>1. Top + 1 \in Gauges
      BY <2>1, MakeFits
    <3>2. value[Top + 1] = 0
      BY <1>2, <2>2, <3>1 DEF SameGauges
    <3> QED
      BY <2>1, <2>4, <3>2, FS_EmptySet
  <2>10. Shows'
    BY <1>2, <2>1, <2>9 DEF Shows
  <2>11. Readings'
    BY <1>2, <2>1, <2>4, <2>5, <2>6 DEF Readings
  <2> QED
    BY <2>8, <2>10, <2>11
<1>6. CASE MakePeak(v)
  <2>1. /\ gauges'["peak"] = Top + 1 /\ gauges'["active"] = gauges["active"]
        /\ handle' = [handle EXCEPT ![v] = Top + 1]
        /\ entering[v] = "make_peak" /\ entering' = [entering EXCEPT ![v] = "load_peak"]
        /\ UNCHANGED <<value, mine, cur, inside, max_inside>> /\ gauges["peak"] = 0
    BY <1>6, TopFacts DEF MakePeak, Make, MoveTo, GaugeTypeOK, Metrics, history
  <2>2. Top' = Top + 1 /\ Top \in Nat
    BY <2>1, TopFacts DEF Top
  <2>3. HasPeak = {}
    BY <2>1 DEF Numbering
  <2>4. Entered' = Entered
    BY <2>1 DEF Entered, GaugeTypeOK
  <2>5. \A w \in Vus : entering'[w] = IF w = v THEN "load_peak" ELSE entering[w]
    BY <2>1 DEF GaugeTypeOK
  <2>6. \A w \in Vus : entering[w] \notin {"load_peak", "raise_peak", "inside", "sub", "out"}
    BY <2>3 DEF HasPeak
  <2>7. \A g \in Gauges : g > Top' => value'[g] = 0
    BY <1>2, <2>1, <2>2 DEF SameGauges, Gauges
  <2>8. SameGauges'
    BY <1>2, <2>1, <2>5, <2>6, <2>7 DEF SameGauges, GaugeTypeOK
  <2>9. value'[gauges'["peak"]] <= max_inside
    <3>1. Top + 1 \in Gauges
      BY <2>1, MakeFits
    <3>2. value[Top + 1] = 0
      BY <1>2, <2>2, <3>1 DEF SameGauges
    <3> QED
      BY <1>3, <2>1, <3>2
  <2>10. Shows'
    BY <1>2, <2>1, <2>9 DEF Shows
  <2>11. Readings'
    BY <1>2, <2>1, <2>4, <2>5, <2>6 DEF Readings
  <2> QED
    BY <2>8, <2>10, <2>11
<1>7. CASE Add(v)
  <2> DEFINE a == gauges["active"]
             p == gauges["peak"]
  <2>1. entering[v] = "add" /\ handle[v] = a /\ a \in Gauges /\ a # p /\ v \notin inside
    BY <1>2, <1>7 DEF Add, SameGauges, Numbering, Counted, GaugeTypeOK, Metrics
  <2>2. /\ value' = [value EXCEPT ![a] = @ + 1] /\ mine' = [mine EXCEPT ![v] = value[a] + 1]
        /\ entering' = [entering EXCEPT ![v] = "find_peak"] /\ inside' = inside \union {v}
        /\ UNCHANGED <<gauges, handle, cur>> /\ Top' = Top
    BY <1>7, <2>1 DEF Add, MoveTo, Top
  <2>3. Cardinality(inside') = Cardinality(inside) + 1
    BY <2>1, <2>2, SetsOfVus, FS_AddElement DEF GaugeTypeOK
  <2>4. value[a] = Cardinality(inside) /\ value'[a] = Cardinality(inside')
    BY <1>2, <1>3, <2>1, <2>2, <2>3 DEF Shows, GaugeTypeOK, Gauges
  <2>5. /\ mine'[v] = Cardinality(inside') /\ \A w \in Vus : w # v => mine'[w] = mine[w]
        /\ \A w \in Vus : w # v => entering'[w] = entering[w]
        /\ entering'[v] = "find_peak"
    BY <2>2, <2>3, <2>4 DEF GaugeTypeOK
  <2>6. Entered' = Entered \union {v} /\ v \notin Entered /\ Entered \subseteq Vus
    BY <2>1, <2>5 DEF Entered
  <2>7. /\ max_inside' = IF Cardinality(inside) + 1 > max_inside
                          THEN Cardinality(inside) + 1 ELSE max_inside
        /\ max_inside' >= max_inside /\ max_inside' >= Cardinality(inside')
        /\ max_inside' \in Nat
    BY <1>3, <1>7, <2>3 DEF Add
  <2>8. \A g \in Gauges : g # a => value'[g] = value[g]
    BY <2>2 DEF GaugeTypeOK
  <2>9. a <= Top /\ Top \in Nat /\ Gauges \subseteq Nat
    BY TopFacts, FS_CardinalityType DEF Gauges
  <2>10. p # 0 => p \in Gauges /\ value'[p] = value[p] /\ value[p] \in Int
    BY <2>1, <2>8 DEF GaugeTypeOK, Metrics
  <2>11. SameGauges'
    BY <1>2, <2>2, <2>5, <2>8, <2>9 DEF SameGauges
  <2>12. Shows'
    BY <1>2, <1>3, <2>2, <2>4, <2>7, <2>10 DEF Shows
  <2>13. \A w \in Entered' : mine'[w] <= max_inside' /\ mine'[w] > 0
    BY <1>2, <1>3, <2>3, <2>5, <2>6, <2>7 DEF Readings, GaugeTypeOK
  <2>14. max_inside' = 0 \/ \E w \in Entered' : mine'[w] = max_inside'
    <3>1. CASE Cardinality(inside) + 1 > max_inside
      BY <2>3, <2>5, <2>6, <2>7, <3>1
    <3>2. CASE ~(Cardinality(inside) + 1 > max_inside)
      BY <1>2, <2>5, <2>6, <2>7, <3>2 DEF Readings
    <3> QED
      BY <3>1, <3>2
  <2>15. HasPeak # {} => p # 0
    BY DEF Numbering
  <2>16. \A w \in Vus : entering'[w] = "raise_peak" => cur'[w] <= value'[gauges'["peak"]]
    BY <1>2, <2>2, <2>5, <2>10, <2>15 DEF Readings, HasPeak
  <2>17. \A w \in Vus : entering'[w] \in {"inside", "sub", "out"} => mine'[w] <= value'[gauges'["peak"]]
    BY <1>2, <2>2, <2>5, <2>10, <2>15 DEF Readings, HasPeak
  <2> QED
    BY <2>11, <2>12, <2>13, <2>14, <2>16, <2>17 DEF Readings
<1>8. CASE LoadPeak(v)
  <2>1. /\ UNCHANGED <<gauges, value, handle, mine, inside, max_inside>> /\ Top' = Top
        /\ Entered' = Entered
        /\ entering[v] = "load_peak" /\ entering' = [entering EXCEPT ![v] = "raise_peak"]
        /\ cur' = [cur EXCEPT ![v] = value[handle[v]]]
    BY <1>8 DEF LoadPeak, MoveTo, registry, history, Top, Entered, GaugeTypeOK
  <2>2. SameGauges'
    BY <1>2, <2>1 DEF SameGauges, GaugeTypeOK
  <2>3. value[gauges["peak"]] \in Int /\ handle[v] = gauges["peak"]
    BY <1>2, <2>1 DEF SameGauges, Numbering, HasPeak, GaugeTypeOK, Metrics
  <2>4. Readings'
    BY <1>2, <2>1, <2>3 DEF Readings, GaugeTypeOK
  <2> QED
    BY <1>2, <2>1, <2>2, <2>4 DEF Shows
<1>9. CASE RaisePeak(v)
  <2> DEFINE p == gauges["peak"]
  <2>1. /\ UNCHANGED <<gauges, handle, mine, inside, max_inside>> /\ Top' = Top
        /\ entering[v] = "raise_peak" /\ handle[v] = p
    BY <1>2, <1>9 DEF RaisePeak, history, Top, SameGauges
  <2>2. p \in Gauges /\ p <= Top /\ value[p] \in Int /\ Top \in Nat /\ Gauges \subseteq Nat
        /\ mine[v] \in Int /\ cur[v] \in Int /\ p # 0
    BY <2>1, TopFacts, FS_CardinalityType DEF Numbering, HasPeak, GaugeTypeOK, Metrics, Gauges
  <2>3. Entered' = Entered /\ v \in Entered
    BY <1>9, <2>1 DEF RaisePeak, MoveTo, Entered, GaugeTypeOK
  <2>4. /\ value'[p] \in Int /\ value'[p] >= value[p] /\ value'[p] <= max_inside
        /\ \A g \in Gauges : g # p => value'[g] = value[g]
    <3>1. mine[v] <= max_inside /\ value[p] <= max_inside
      BY <1>2, <2>2, <2>3 DEF Shows, Readings
    <3>2. \/ value' = value
          \/ value' = [value EXCEPT ![p] = mine[v]] /\ mine[v] > cur[v] /\ value[p] = cur[v]
      BY <1>9, <2>1 DEF RaisePeak
    <3>3. value \in [Gauges -> Int]
      BY DEF GaugeTypeOK
    <3> QED
      BY <1>3, <2>2, <3>1, <3>2, <3>3
  <2>5. SameGauges'
    BY <1>2, <1>9, <2>1, <2>2, <2>4 DEF RaisePeak, MoveTo, SameGauges, GaugeTypeOK
  <2>6. Shows'
    <3>1. gauges["active"] # 0 => gauges["active"] \in Gauges /\ gauges["active"] # p
      BY DEF Numbering, GaugeTypeOK, Metrics
    <3> QED
      BY <1>2, <2>1, <2>4, <3>1 DEF Shows
  <2>7. \A w \in Vus : entering'[w] = "raise_peak" => cur'[w] <= value'[p]
    BY <1>2, <1>9, <2>1, <2>2, <2>4 DEF RaisePeak, MoveTo, Readings, GaugeTypeOK
  <2>8. \A w \in Vus : entering'[w] \in {"inside", "sub", "out"} => mine[w] <= value'[p]
    <3>1. ASSUME NEW w \in Vus, w # v, entering'[w] \in {"inside", "sub", "out"} PROVE mine[w] <= value'[p]
      BY <1>2, <1>9, <2>2, <2>4, <3>1 DEF RaisePeak, MoveTo, Readings, GaugeTypeOK
    <3>2. ASSUME entering'[v] \in {"inside", "sub", "out"} PROVE mine[v] <= value'[p]
      BY <1>2, <1>9, <2>1, <2>2, <2>4, <3>2 DEF RaisePeak, MoveTo, Readings, GaugeTypeOK
    <3> QED
      BY <3>1, <3>2
  <2> QED
    BY <1>2, <2>1, <2>3, <2>5, <2>6, <2>7, <2>8 DEF Readings
<1>10. CASE Sub(v)
  <2> DEFINE a == gauges["active"]
             p == gauges["peak"]
  <2>1. entering[v] = "sub" /\ handle[v] = a /\ a \in Gauges /\ a # p /\ v \in inside
        /\ p # 0 /\ p \in Gauges
    BY <1>2, <1>10 DEF Sub, SameGauges, Numbering, Counted, GaugeTypeOK, Metrics, HasPeak
  <2>2. /\ value' = [value EXCEPT ![a] = @ - 1]
        /\ entering' = [entering EXCEPT ![v] = "out"] /\ inside' = inside \ {v}
        /\ UNCHANGED <<gauges, handle, mine, cur, max_inside>> /\ Top' = Top
    BY <1>10, <2>1 DEF Sub, MoveTo, Top
  <2>3. Cardinality(inside') = Cardinality(inside) - 1
    BY <2>1, <2>2, SetsOfVus, FS_RemoveElement DEF GaugeTypeOK
  <2>4. value'[a] = Cardinality(inside') /\ \A g \in Gauges : g # a => value'[g] = value[g]
    BY <1>2, <2>1, <2>2, <2>3 DEF Shows, GaugeTypeOK, Gauges
  <2>5. Entered' = Entered
    BY <2>1, <2>2 DEF Entered, GaugeTypeOK
  <2>6. a <= Top /\ Top \in Nat /\ Gauges \subseteq Nat
    BY TopFacts, FS_CardinalityType DEF Gauges
  <2>7. SameGauges'
    BY <1>2, <2>1, <2>2, <2>4, <2>6 DEF SameGauges, GaugeTypeOK
  <2>8. Shows'
    BY <1>2, <2>1, <2>2, <2>4 DEF Shows
  <2>9. Readings'
    BY <1>2, <2>1, <2>2, <2>4, <2>5 DEF Readings, GaugeTypeOK
  <2> QED
    BY <2>7, <2>8, <2>9
<1> QED
  BY <1>4, <1>5, <1>6, <1>7, <1>8, <1>9, <1>10 DEF VuStep

THEOREM GaugeInvariant == GaugeSpec => []GInv
<1>1. GInv /\ [GaugeNext]_gaugeVars => GInv'
  <2>1. CASE UNCHANGED gaugeVars
    BY <2>1 DEF gaugeVars, registry, locals, history, GInv, GaugeTypeOK, Numbering, Bounds,
       Counted, Unraced, SameGauges, Shows, Readings, Top, HasActive, HasPeak, Entered
  <2>2. CASE GaugeNext
    BY <2>2, GaugeAssumption, TypeStep, NumberingStep, BoundsStep, CountsStep, UnracedStep
       DEF GaugeNext, GInv
  <2> QED
    BY <2>1, <2>2
<1>2. GaugeInit => GInv
  BY GaugeAssumption, InvInit
<1> QED
  BY <1>1, <1>2, PTL DEF GaugeSpec

\* Every variable keeps its type; in particular the numbers of gauges suffice, and the
\* guard of a VU finds the series of vu_active when it is dropped.
THEOREM GaugeTypes == GaugeSpec => []GaugeTypeOK
BY GaugeInvariant, PTL DEF GInv

\* Unless two VUs made the same series, vu_active is the number of VUs inside, and once
\* all have entered vu_active_max is the largest number there has been, however the
\* atomic operations of the VUs interleave.
THEOREM GaugesExact == GaugeSpec => []ExactUnlessRaced
<1>1. GInv => ExactUnlessRaced
  <2> SUFFICES ASSUME GInv, ~remade PROVE
        /\ gauges["active"] # 0 => Shown("active") = Cardinality(inside)
        /\ Settled /\ Vus # {} => Shown("peak") = max_inside
    BY DEF ExactUnlessRaced
  <2>1. SameGauges /\ Shows /\ Readings
    BY DEF GInv, Unraced
  <2>2. ASSUME Settled, NEW v \in Vus PROVE value[gauges["peak"]] = max_inside
    <3>1. gauges["peak"] # 0 /\ Entered = Vus
      BY <2>2 DEF Settled, Entered, HasPeak, GInv, Numbering
    <3>2. value[gauges["peak"]] \in Int /\ max_inside \in Nat
      BY <3>1 DEF GInv, GaugeTypeOK, Metrics
    <3>3. \A w \in Vus : mine[w] \in Int /\ mine[w] > 0 /\ mine[w] <= value[gauges["peak"]]
      BY <2>1, <2>2, <3>1 DEF Readings, Settled, GInv, GaugeTypeOK
    <3> QED
      BY <2>1, <3>1, <3>2, <3>3 DEF Shows, Readings
  <2> QED
    BY <2>1, <2>2 DEF Shows, Shown
<1> QED
  BY <1>1, GaugeInvariant, PTL

\* Raced or not, neither gauge shows more VUs than have entered.
THEOREM NothingOverstated == GaugeSpec => []NeverOverstated
<1>1. GInv => NeverOverstated
  BY DEF GInv, Bounds, NeverOverstated, Shown, GaugeTypeOK, Metrics
<1> QED
  BY <1>1, GaugeInvariant, PTL

\* Raced or not, the gauge that is vu_active_max never falls: the compare-exchange raises
\* it, and no VU takes it for vu_active.
THEOREM PeakOnlyRises == GaugeSpec => PeakNeverFalls
<1>1. GInv /\ [GaugeNext]_gaugeVars =>
        [\A g \in Gauges : g = gauges["peak"] => value'[g] >= value[g]]_gaugeVars
  <2> SUFFICES ASSUME GInv, GaugeNext, NEW g \in Gauges, g = gauges["peak"]
               PROVE  value'[g] >= value[g]
    OBVIOUS
  <2>1. PICK v \in Vus : VuStep(v)
    BY DEF GaugeNext
  <2>2. value[g] \in Int
    BY DEF GInv, GaugeTypeOK
  <2>3. CASE Add(v) \/ Sub(v)
    BY <2>2, <2>3 DEF Add, Sub, GInv, Numbering, GaugeTypeOK
  <2>4. CASE RaisePeak(v)
    BY <2>2, <2>4 DEF RaisePeak, GInv, GaugeTypeOK
  <2>5. CASE UNCHANGED value
    BY <2>2, <2>5
  <2> QED
    BY <2>1, <2>3, <2>4, <2>5
    DEF VuStep, FindActive, FindPeak, FindDrop, Find, MakeActive, MakePeak, Make, LoadPeak, registry
<1> QED
  BY <1>1, GaugeInvariant, PTL DEF GaugeSpec, PeakNeverFalls
-----------------------------------------------------------------------------
(* The composition: a step is one of one part, and the others stutter. *)

LEMMA PartsBehave == PartsSpec => Spec /\ GaugeSpec /\ RecordSpec
<1>1. PartsInit => Init /\ GaugeInit /\ RecordInit
  BY DEF PartsInit
<1>2. [PartsNext]_partsVars => [Next]_vars /\ [GaugeNext]_gaugeVars /\ [RecordNext]_recordVars
  BY DEF PartsNext, partsVars
<1> QED
  BY <1>1, <1>2, PTL DEF PartsSpec, Spec, GaugeSpec, RecordSpec

\* Every variable of the three models has its type; in particular a tag set has one
\* value per key, whatever the script, the scenario and the group set.
THEOREM MetricsTypes == PartsSpec => []TypesOK
BY PartsBehave, RegistryTypes, GaugeTypes, RecordTypes, PTL DEF TypesOK

\* No gauge shows more VUs than have entered and no live total more than the calls that
\* have begun give to it, also when series are inserted over each other.
THEOREM MetricsNeverAhead == PartsSpec => []NeverAhead
BY PartsBehave, NothingOverstated, TotalsNeverAhead, PTL DEF NeverAhead

\* No step lowers a peak and, as long as no series was inserted over another, none lowers
\* a live total.
THEOREM MetricsNeverFall == PartsSpec => NeverFall
BY PartsBehave, PeakOnlyRises, TotalsNeverFall, PTL DEF NeverFall

\* In the composition, too, the series are those of the calls, with their values.
THEOREM MetricsSeriesExact == PartsSpec => []SeriesExact
BY PartsBehave, SeriesAreExact, PTL
\* In the composition, too, a summary has each request, error, iteration and failed
\* check once, if scripts leave the runner's own metrics alone.
THEOREM MetricsSummaryExact == ASSUME OrdinaryPlans PROVE PartsSpec => []SummaryExact
<1>1. RecordSpec => []SummaryExact
  BY SummaryIsExact
<1> QED
  BY <1>1, PartsBehave, PTL

\* The run fails on a threshold exactly if what was recorded does not satisfy it.
THEOREM MetricsVerdicts == PartsSpec => []ThresholdsAgree
<1>1. VerdictsAgree => ThresholdsAgree
  BY DEF ThresholdsAgree
<1> QED
  BY <1>1, PartsBehave, VerdictsAreRight, PTL
=============================================================================
