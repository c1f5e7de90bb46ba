---------------------------- MODULE SharedStore -----------------------------
(***************************************************************************)
(* The key/value half of wrkr/shared: SharedStore (wrkr-shared/src/store.rs)*)
(* and the Lua bindings that call it (wrkr-lua/src/modules/shared.rs).      *)
(*                                                                         *)
(* Every VU runs its script on its own task and calls the store             *)
(* concurrently.  A step is one section under the store's mutex, or one     *)
(* access to a watch channel outside of it.                                 *)
(*                                                                         *)
(* tokio::sync::watch is external: a channel has a version that every send  *)
(* increments, whatever value is sent, if there is a receiver; subscribe    *)
(* starts a receiver at the current version and changed waits until the     *)
(* version differs from the one the receiver saw last.                      *)
(***************************************************************************)
EXTENDS Integers

CONSTANTS Clients,          \* the tasks that call the store
          Keys,
          MinI64, MaxI64,   \* the range of i64
          Deltas,           \* arguments of incr that scripts use
          SetValues,        \* arguments of set that scripts use
          MaxCalls          \* how many calls a client makes

\* A stored value: an i64, or anything else, which counts as 0.
I64(n)  == [kind |-> "i64", n |-> n]
Other   == [kind |-> "other", n |-> 0]
Missing == [kind |-> "missing", n |-> 0]
Values  == {I64(n) : n \in MinI64..MaxI64} \union {Other, Missing}

ASSUME StoreAssumption ==
    /\ MinI64 \in Int /\ MaxI64 \in Int
    /\ MinI64 <= 0 /\ 0 <= MaxI64
    /\ Deltas \subseteq MinI64..MaxI64
    /\ SetValues \subseteq Values \ {Missing}
    /\ MaxCalls \in Nat

VARIABLES
    values,   \* values[k]: what inner.values holds for k, or Missing
    channel,  \* the keys that have a sender in inner.notifies
    version,  \* version[k]: the version of k's watch channel
    pc,       \* control state of each client
    key,      \* the key of the client's current or last call
    seen,     \* the version the client's receiver saw last
    written,  \* what the client's current incr wrote
    result,   \* what the client's last call returned; nil is Missing
    calls     \* calls made so far

store   == <<values, channel, version>>
clients == <<pc, key, seen, written, result, calls>>
vars    == <<store, clients>>

Init ==
    /\ values = [k \in Keys |-> Missing]
    /\ channel = {}
    /\ version = [k \in Keys |-> 0]
    /\ pc = [c \in Clients |-> "idle"]
    /\ key \in [Clients -> Keys]
    /\ seen = [c \in Clients |-> 0]
    /\ written = [c \in Clients |-> 0]
    /\ result = [c \in Clients |-> Missing]
    /\ calls = [c \in Clients |-> 0]

Present(k) == values[k] # Missing

\* Clients that hold a receiver of k's channel.
Receivers(k) == {c \in Clients : pc[c] \in {"check", "changed"} /\ key[c] = k}

-----------------------------------------------------------------------------
(* Steps of a client. *)

Goto(c, to) == pc' = [pc EXCEPT ![c] = to]

Return(c, v) == result' = [result EXCEPT ![c] = v]

\* The script of client c calls the store with key k.
Call(c, k) ==
    /\ pc[c] \in {"idle", "got_incr"}
    /\ calls[c] < MaxCalls
    /\ calls' = [calls EXCEPT ![c] = @ + 1]
    /\ key' = [key EXCEPT ![c] = k]

\* Mutant of Set: the sender is not looked up, so nobody is told.
SetSilently(c, k, v) ==
    /\ Call(c, k)
    /\ values' = [values EXCEPT ![k] = v]
    /\ Goto(c, "idle")
    /\ Return(c, Missing)
    /\ UNCHANGED <<channel, version, seen, written>>

\* set: insert, and clone the key's sender if there is one.
Set(c, k, v) ==
    /\ Call(c, k)
    /\ values' = [values EXCEPT ![k] = v]
    /\ Goto(c, IF k \in channel THEN "send_set" ELSE "idle")
    /\ Return(c, Missing)
    /\ UNCHANGED <<channel, version, seen, written>>

\* get
Get(c, k) ==
    /\ Call(c, k)
    /\ Return(c, values[k])
    /\ Goto(c, "idle")
    /\ UNCHANGED <<store, seen, written>>

\* delete: nobody is told.
Delete(c, k) ==
    /\ Call(c, k)
    /\ values' = [values EXCEPT ![k] = Missing]
    /\ Goto(c, "idle")
    /\ Return(c, Missing)
    /\ UNCHANGED <<channel, version, seen, written>>

\* as_i64 with its default.
AsI64(v) == IF v.kind = "i64" THEN v.n ELSE 0

\* Mutant of SaturatingAdd: the sum wraps around.
WrappingAdd(a, b) == MinI64 + ((a + b - MinI64) % (MaxI64 - MinI64 + 1))

\* Mutant of SaturatingAdd: nothing keeps the sum in range.
UnboundedAdd(a, b) == a + b

SaturatingAdd(a, b) ==
    IF a + b > MaxI64 THEN MaxI64 ELSE IF a + b < MinI64 THEN MinI64 ELSE a + b

\* Mutant of Incr: it forgets the waiters.
IncrSilently(c, k, delta) ==
    LET next == SaturatingAdd(AsI64(values[k]), delta) IN
    /\ Call(c, k)
    /\ values' = [values EXCEPT ![k] = I64(next)]
    /\ written' = [written EXCEPT ![c] = next]
    /\ Goto(c, "reread")
    /\ Return(c, Missing)
    /\ UNCHANGED <<channel, version, seen>>

\* incr: read, add and insert under the mutex.
Incr(c, k, delta) ==
    LET next == SaturatingAdd(AsI64(values[k]), delta) IN
    /\ Call(c, k)
    /\ values' = [values EXCEPT ![k] = I64(next)]
    /\ written' = [written EXCEPT ![c] = next]
    /\ Goto(c, IF k \in channel THEN "send_incr" ELSE "reread")
    /\ Return(c, Missing)
    /\ UNCHANGED <<channel, version, seen>>

\* notify.send, after the mutex was released; it fails without receivers.
Send(c) ==
    /\ pc[c] \in {"send_set", "send_incr"}
    /\ version' = IF Receivers(key[c]) = {} THEN version
                  ELSE [version EXCEPT ![key[c]] = @ + 1]
    /\ Goto(c, IF pc[c] = "send_set" THEN "idle" ELSE "reread")
    /\ UNCHANGED <<values, channel, key, seen, written, result, calls>>

\* incr ends with a get_counter of its own.
Reread(c) ==
    /\ pc[c] = "reread"
    /\ Return(c, I64(AsI64(values[key[c]])))
    /\ Goto(c, "got_incr")
    /\ UNCHANGED <<store, key, seen, written, calls>>

\* get_counter, from a script.
Counter(c, k) ==
    /\ Call(c, k)
    /\ Return(c, I64(AsI64(values[k])))
    /\ Goto(c, "idle")
    /\ UNCHANGED <<store, seen, written>>

\* wait_for_key: return at once, or subscribe to the key's channel, which is
\* created if need be.
Wait(c, k) ==
    /\ Call(c, k)
    /\ Goto(c, IF Present(k) THEN "wait_get" ELSE "check")
    /\ channel' = IF Present(k) THEN channel ELSE channel \union {k}
    /\ seen' = [seen EXCEPT ![c] = IF Present(k) THEN @ ELSE version[k]]
    /\ Return(c, Missing)
    /\ UNCHANGED <<values, version, written>>

\* The loop of wait_for_key: the key is there, or await changed().
Check(c) ==
    /\ pc[c] = "check"
    /\ Goto(c, IF Present(key[c]) THEN "wait_get" ELSE "changed")
    /\ UNCHANGED <<store, key, seen, written, result, calls>>

\* Mutant of Changed: the key is not looked up again.
ChangedReturns(c) ==
    /\ pc[c] = "changed"
    /\ version[key[c]] # seen[c]
    /\ seen' = [seen EXCEPT ![c] = version[key[c]]]
    /\ Goto(c, "wait_get")
    /\ UNCHANGED <<store, key, written, result, calls>>

\* changed() is ready.  It never fails: inner.notifies keeps the sender.
Changed(c) ==
    /\ pc[c] = "changed"
    /\ version[key[c]] # seen[c]
    /\ seen' = [seen EXCEPT ![c] = version[key[c]]]
    /\ Goto(c, "check")
    /\ UNCHANGED <<store, key, written, result, calls>>

\* The binding of shared.wait reads the key again.
WaitGet(c) ==
    /\ pc[c] = "wait_get"
    /\ Return(c, values[key[c]])
    /\ Goto(c, "idle")
    /\ UNCHANGED <<store, key, seen, written, calls>>

\* A call in progress goes on.
Continue(c) == Send(c) \/ Reread(c) \/ Check(c) \/ Changed(c) \/ WaitGet(c)

\* A script makes its next call.
Begin(c) ==
    \E k \in Keys :
        \/ \E v \in SetValues : Set(c, k, v)
        \/ Get(c, k)
        \/ Delete(c, k)
        \/ \E delta \in Deltas : Incr(c, k, delta)
        \/ Counter(c, k)
        \/ Wait(c, k)

Next == \E c \in Clients : Begin(c) \/ Continue(c)

\* The runtime polls every ready task; nothing forces a script to call.
Fairness == \A c \in Clients : WF_vars(Continue(c))

Spec == Init /\ [][Next]_vars /\ Fairness

-----------------------------------------------------------------------------
(* Properties. *)

States == {"idle", "send_set", "send_incr", "reread", "got_incr", "check", "changed",
           "wait_get"}

\* Every variable has its type; a counter never leaves the range of i64.
TypeOK ==
    /\ values \in [Keys -> Values]
    /\ channel \subseteq Keys
    /\ version \in [Keys -> Nat]
    /\ pc \in [Clients -> States]
    /\ key \in [Clients -> Keys]
    /\ seen \in [Clients -> Nat]
    /\ written \in [Clients -> MinI64..MaxI64]
    /\ result \in [Clients -> Values]
    /\ calls \in [Clients -> 0..MaxCalls]

\* set and incr tell the waiters after they released the mutex.  Even so, a
\* client that sleeps in wait_for_key while its key exists has a wake-up ahead:
\* its channel has moved, or somebody is about to send.
NoLostWakeup ==
    \A c \in Clients : pc[c] = "changed" /\ Present(key[c]) =>
        \/ version[key[c]] # seen[c]
        \/ \E d \in Clients : pc[d] \in {"send_set", "send_incr"} /\ key[d] = key[c]

\* An increment never moves a counter the other way, not even at the ends of
\* the range of i64.
IncrMonotone ==
    [][\A c \in Clients, k \in Keys, delta \in Deltas : Incr(c, k, delta) =>
          /\ delta >= 0 => AsI64(values'[k]) >= AsI64(values[k])
          /\ delta <= 0 => AsI64(values'[k]) <= AsI64(values[k])]_vars

Waiting(c, k) == pc[c] \in {"check", "changed"} /\ key[c] = k

\* wait_for_key returns once the key exists, unless the key is deleted again.
WaitReturns ==
    \A c \in Clients, k \in Keys :
        (Waiting(c, k) /\ Present(k)) ~> (~Waiting(c, k) \/ ~Present(k))

\* "Increments by `delta` (default `1`) and returns the new value."
IncrReturnsNewValue ==
    \A c \in Clients : pc[c] = "got_incr" => result[c] = I64(written[c])
=============================================================================
