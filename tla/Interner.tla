------------------------------ MODULE Interner ------------------------------
(***************************************************************************)
(* The string interner behind metric names and tags (wrkr-metrics/src/     *)
(* key.rs): a map from strings to ids and a vector from ids to strings,    *)
(* each under its own RwLock.  get_or_intern looks under the read lock     *)
(* first and again under the write locks.  All tasks of a run share it.    *)
(*                                                                         *)
(* A step is one locked section.  MetricsRegistry composes the interner    *)
(* with the registry that calls it.                                        *)
(***************************************************************************)
EXTENDS Integers, Sequences

CONSTANTS Tasks, Strings

VARIABLES
    map,    \* a function from the interned strings to ids, which start at 0
    vec,    \* the sequence of interned strings
    pc,
    arg,    \* the string each task is interning
    got     \* the id that get_or_intern returned last

vars == <<map, vec, pc, arg, got>>

\* No id yet.
NoId == -1

Init ==
    /\ map = [s \in {} |-> 0]
    /\ vec = <<>>
    /\ pc = [t \in Tasks |-> "idle"]
    /\ arg = [t \in Tasks |-> CHOOSE s \in Strings : TRUE]
    /\ got = [t \in Tasks |-> NoId]

Goto(t, to) == pc' = [pc EXCEPT ![t] = to]

\* The first look, under map.read().
Lookup(t, s) ==
    /\ pc[t] = "idle"
    /\ arg' = [arg EXCEPT ![t] = s]
    /\ IF s \in DOMAIN map
       THEN got' = [got EXCEPT ![t] = map[s]] /\ UNCHANGED pc
       ELSE got' = [got EXCEPT ![t] = NoId] /\ Goto(t, "insert")
    /\ UNCHANGED <<map, vec>>

\* vec.push, and map.insert of the new id.
Push(s) ==
    /\ vec' = Append(vec, s)
    /\ map' = [x \in DOMAIN map \union {s} |-> IF x = s THEN Len(vec) ELSE map[x]]

\* The second look, under both write locks: "Check again to avoid race".
Insert(t) ==
    /\ pc[t] = "insert"
    /\ IF arg[t] \in DOMAIN map
       THEN got' = [got EXCEPT ![t] = map[arg[t]]] /\ UNCHANGED <<map, vec>>
       ELSE Push(arg[t]) /\ got' = [got EXCEPT ![t] = Len(vec)]
    /\ Goto(t, "idle")
    /\ UNCHANGED arg

Next == \E t \in Tasks : Insert(t) \/ \E s \in Strings : Lookup(t, s)

Spec == Init /\ [][Next]_vars

-----------------------------------------------------------------------------
(* Properties. *)

\* resolve: the string of an id that the interner has handed out.
Resolve(id) == vec[id + 1]

\* Every variable has its type.
TypeOK ==
    /\ DOMAIN map \subseteq Strings
    /\ map \in [DOMAIN map -> Nat]
    /\ vec \in Seq(Strings)
    /\ pc \in [Tasks -> {"idle", "insert"}]
    /\ arg \in [Tasks -> Strings]
    /\ got \in [Tasks -> Nat \union {NoId}]

\* "Check again to avoid race": map and vec are inverse to each other, so equal
\* strings have equal ids and different strings different ones.
Bijective ==
    /\ \A s \in DOMAIN map : map[s] \in 0 .. Len(vec) - 1 /\ vec[map[s] + 1] = s
    /\ \A i \in 1 .. Len(vec) : vec[i] \in DOMAIN map /\ map[vec[i]] = i - 1

\* The id a caller holds stands for its string, now and later.
GotResolves ==
    \A t \in Tasks : got[t] # NoId =>
        got[t] \in 0 .. Len(vec) - 1 /\ Resolve(got[t]) = arg[t]
=============================================================================
