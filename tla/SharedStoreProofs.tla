-------------------------- MODULE SharedStoreProofs --------------------------
(***************************************************************************)
(* Proofs about the shared store, for any clients, keys and range of        *)
(* integers: types, that no wake-up of wait_for_key is lost, and that an    *)
(* increment never moves a counter the wrong way; and about all of          *)
(* wrkr/shared, for any barriers and parties: that the same holds there,    *)
(* that a barrier opens for whole groups only, and that shared.wait finds   *)
(* its key unless the key was deleted again.                                *)
(***************************************************************************)
EXTENDS SharedBarrier, FiniteSetTheorems, TLAPS

\* A receiver belongs to a channel of the map and is never ahead of it.
ReceiversBehind ==
    \A c \in Clients : pc[c] \in {"check", "changed"} =>
        key[c] \in channel /\ seen[c] <= version[key[c]]

IInv == TypeOK /\ ReceiversBehind /\ NoLostWakeup

-----------------------------------------------------------------------------
(* Arithmetic and values. *)

LEMMA SaturatingAddFacts ==
    ASSUME NEW a \in MinI64..MaxI64, NEW b \in MinI64..MaxI64
    PROVE  /\ SaturatingAdd(a, b) \in MinI64..MaxI64
           /\ b >= 0 => SaturatingAdd(a, b) >= a
           /\ b <= 0 => SaturatingAdd(a, b) <= a
BY StoreAssumption DEF SaturatingAdd

LEMMA AsI64Type ==
    ASSUME NEW v \in Values
    PROVE  AsI64(v) \in MinI64..MaxI64
BY StoreAssumption DEF AsI64, Values, I64, Other, Missing

LEMMA I64Facts ==
    ASSUME NEW n \in MinI64..MaxI64
    PROVE  /\ I64(n) \in Values
           /\ AsI64(I64(n)) = n
           /\ I64(n) # Missing
BY DEF Values, I64, AsI64, Missing

-----------------------------------------------------------------------------
(* Type correctness. *)

LEMMA TypeInit == Init => TypeOK
BY StoreAssumption DEF Init, TypeOK, Values, States

LEMMA CallTypes ==
    ASSUME TypeOK, NEW c \in Clients, NEW k \in Keys, Call(c, k)
    PROVE  /\ key' \in [Clients -> Keys]
           /\ calls' \in [Clients -> 0..MaxCalls]
BY StoreAssumption DEF TypeOK, Call

LEMMA TypeStep == TypeOK /\ [Next]_vars => TypeOK'
<1> SUFFICES ASSUME TypeOK, [Next]_vars PROVE TypeOK'
  OBVIOUS
<1> USE DEF store, clients, Goto, Return, States
<1>0. Missing \in Values
  BY DEF Values
<1>1. ASSUME NEW c \in Clients, NEW k \in Keys, NEW v \in SetValues, Set(c, k, v)
      PROVE  TypeOK'
  BY <1>0, <1>1, CallTypes, StoreAssumption DEF TypeOK, Set
<1>2. ASSUME NEW c \in Clients, NEW k \in Keys, Get(c, k) PROVE TypeOK'
  BY <1>2, CallTypes DEF TypeOK, Get
<1>3. ASSUME NEW c \in Clients, NEW k \in Keys, Delete(c, k) PROVE TypeOK'
  BY <1>0, <1>3, CallTypes DEF TypeOK, Delete
<1>4. ASSUME NEW c \in Clients, NEW k \in Keys, NEW delta \in Deltas, Incr(c, k, delta)
      PROVE  TypeOK'
  <2> DEFINE next == SaturatingAdd(AsI64(values[k]), delta)
  <2>1. AsI64(values[k]) \in MinI64..MaxI64
    BY AsI64Type DEF TypeOK
  <2>2. next \in MinI64..MaxI64
    BY <2>1, SaturatingAddFacts, StoreAssumption
  <2>3. I64(next) \in Values
    BY <2>2, I64Facts
  <2>4. /\ Call(c, k)
        /\ values' = [values EXCEPT ![k] = I64(next)]
        /\ written' = [written EXCEPT ![c] = next]
        /\ pc' = [pc EXCEPT ![c] = IF k \in channel THEN "send_incr" ELSE "reread"]
        /\ result' = [result EXCEPT ![c] = Missing]
        /\ UNCHANGED <<channel, version, seen>>
    BY <1>4 DEF Incr
  <2> HIDE DEF next
  <2> QED
    BY <1>0, <2>2, <2>3, <2>4, CallTypes DEF TypeOK
<1>5. ASSUME NEW c \in Clients, NEW k \in Keys, Counter(c, k) PROVE TypeOK'
  <2>1. I64(AsI64(values[k])) \in Values
    BY AsI64Type, I64Facts DEF TypeOK
  <2> QED
    BY <1>5, <2>1, CallTypes DEF TypeOK, Counter
<1>6. ASSUME NEW c \in Clients, NEW k \in Keys, Wait(c, k) PROVE TypeOK'
  BY <1>0, <1>6, CallTypes DEF TypeOK, Wait
<1>7. ASSUME NEW c \in Clients, Send(c) PROVE TypeOK'
  BY <1>7 DEF TypeOK, Send
<1>8. ASSUME NEW c \in Clients, Reread(c) PROVE TypeOK'
  <2>1. I64(AsI64(values[key[c]])) \in Values
    BY <1>8, AsI64Type, I64Facts DEF TypeOK
  <2> QED
    BY <1>8, <2>1 DEF TypeOK, Reread
<1>9. ASSUME NEW c \in Clients, Check(c) PROVE TypeOK'
  BY <1>9 DEF TypeOK, Check
<1>10. ASSUME NEW c \in Clients, Changed(c) PROVE TypeOK'
  BY <1>10 DEF TypeOK, Changed
<1>11. ASSUME NEW c \in Clients, WaitGet(c) PROVE TypeOK'
  BY <1>11 DEF TypeOK, WaitGet
<1>12. CASE UNCHANGED vars
  BY <1>12 DEF TypeOK, vars
<1> QED
  BY <1>1, <1>2, <1>3, <1>4, <1>5, <1>6, <1>7, <1>8, <1>9, <1>10, <1>11, <1>12
  DEF Next, Begin, Continue

\* Every variable keeps its type: a counter stays within i64.
THEOREM TypeCorrect == Spec => []TypeOK
BY TypeInit, TypeStep, PTL DEF Spec

-----------------------------------------------------------------------------
(* No wake-up is lost. *)

LEMMA InvInit == Init => IInv
BY TypeInit DEF Init, IInv, ReceiversBehind, NoLostWakeup

\* A client that begins a call neither sent nor slept before.  If every key that
\* it makes present and somebody listens to gets a sender, nothing is lost.
LEMMA BeginKeeps ==
    ASSUME IInv, TypeOK', NEW c \in Clients, NEW k \in Keys, Call(c, k),
           pc' = [pc EXCEPT ![c] = pc'[c]],
           pc'[c] \notin {"check", "changed"},
           UNCHANGED <<channel, version, seen>>,
           \A j \in Keys : j # k => values'[j] = values[j],
           values'[k] = Missing \/ values'[k] = values[k]
              \/ (k \in channel => pc'[c] \in {"send_set", "send_incr"})
    PROVE  (ReceiversBehind /\ NoLostWakeup)'
<1>1. /\ key' = [key EXCEPT ![c] = k]
      /\ pc[c] \in {"idle", "got_incr"}
  BY DEF Call
<1>2. \A d \in Clients : d # c => pc'[d] = pc[d] /\ key'[d] = key[d]
  BY <1>1 DEF IInv, TypeOK
<1>3. key'[c] = k
  BY <1>1 DEF IInv, TypeOK
<1>4. ReceiversBehind'
  BY <1>2 DEF IInv, ReceiversBehind
<1>5. ASSUME NEW d \in Clients, pc'[d] = "changed", Present(key[d])',
             version'[key'[d]] = seen'[d]
      PROVE  \E e \in Clients : pc'[e] \in {"send_set", "send_incr"} /\ key'[e] = key'[d]
  <2>1. d # c /\ pc[d] = "changed" /\ key'[d] = key[d] /\ key[d] \in Keys
    BY <1>2, <1>5 DEF IInv, TypeOK
  <2>2. key[d] \in channel
    BY <2>1 DEF IInv, ReceiversBehind
  <2>3. CASE values'[key[d]] = values[key[d]]
    <3>1. Present(key[d])
      BY <1>5, <2>1, <2>3 DEF Present
    <3>2. PICK e \in Clients : pc[e] \in {"send_set", "send_incr"} /\ key[e] = key[d]
      BY <1>5, <2>1, <3>1 DEF IInv, NoLostWakeup
    <3>3. e # c
      BY <1>1, <3>2
    <3> QED
      BY <1>2, <2>1, <3>2, <3>3
  <2>4. CASE values'[key[d]] # values[key[d]]
    <3>1. key[d] = k /\ values'[k] # Missing
      BY <1>5, <2>1, <2>4 DEF Present
    <3>2. pc'[c] \in {"send_set", "send_incr"}
      BY <2>2, <2>4, <3>1
    <3> QED
      BY <1>3, <2>1, <3>1, <3>2
  <2> QED
    BY <2>3, <2>4
<1> QED
  BY <1>4, <1>5 DEF NoLostWakeup

LEMMA WakeupStep == IInv /\ TypeOK' /\ [Next]_vars => (ReceiversBehind /\ NoLostWakeup)'
<1> SUFFICES ASSUME IInv, TypeOK', [Next]_vars PROVE (ReceiversBehind /\ NoLostWakeup)'
  OBVIOUS
<1> USE DEF store, clients, Goto, Return
<1>1. ASSUME NEW c \in Clients, NEW k \in Keys, NEW v \in SetValues, Set(c, k, v)
      PROVE  (ReceiversBehind /\ NoLostWakeup)'
  <2>1. pc'[c] = IF k \in channel THEN "send_set" ELSE "idle"
    BY <1>1 DEF Set, IInv, TypeOK
  <2> QED
    BY <1>1, <2>1, BeginKeeps DEF Set, IInv, TypeOK
<1>2. ASSUME NEW c \in Clients, NEW k \in Keys, Get(c, k) \/ Counter(c, k)
      PROVE  (ReceiversBehind /\ NoLostWakeup)'
  <2>1. pc'[c] = "idle"
    BY <1>2 DEF Get, Counter, IInv, TypeOK
  <2> QED
    BY <1>2, <2>1, BeginKeeps DEF Get, Counter, IInv, TypeOK
<1>3. ASSUME NEW c \in Clients, NEW k \in Keys, Delete(c, k)
      PROVE  (ReceiversBehind /\ NoLostWakeup)'
  <2>1. pc'[c] = "idle" /\ values'[k] = Missing
    BY <1>3 DEF Delete, IInv, TypeOK
  <2> QED
    BY <1>3, <2>1, BeginKeeps DEF Delete, IInv, TypeOK
<1>4. ASSUME NEW c \in Clients, NEW k \in Keys, NEW delta \in Deltas, Incr(c, k, delta)
      PROVE  (ReceiversBehind /\ NoLostWakeup)'
  <2>1. pc'[c] = IF k \in channel THEN "send_incr" ELSE "reread"
    BY <1>4 DEF Incr, IInv, TypeOK
  <2>2. Call(c, k) /\ pc' = [pc EXCEPT ![c] = pc'[c]]
        /\ UNCHANGED <<channel, version, seen>>
    BY <1>4, <2>1 DEF Incr, IInv, TypeOK
  <2>3. \A j \in Keys : j # k => values'[j] = values[j]
    BY <1>4 DEF Incr, IInv, TypeOK
  <2> QED
    BY <2>1, <2>2, <2>3, BeginKeeps
<1>5. ASSUME NEW c \in Clients, NEW k \in Keys, Wait(c, k)
      PROVE  (ReceiversBehind /\ NoLostWakeup)'
  BY <1>5 DEF Wait, Call, IInv, TypeOK, ReceiversBehind, NoLostWakeup, Present
<1>6. ASSUME NEW c \in Clients, Send(c) PROVE (ReceiversBehind /\ NoLostWakeup)'
  <2>1. UNCHANGED <<values, channel, key, seen>>
    BY <1>6 DEF Send
  <2>2. \A d \in Clients : d # c => pc'[d] = pc[d]
    BY <1>6 DEF Send, IInv, TypeOK
  <2>3. pc[c] \in {"send_set", "send_incr"} /\ pc'[c] \in {"idle", "reread"}
    BY <1>6 DEF Send, IInv, TypeOK
  <2>4. \A j \in Keys : version'[j] \in Nat /\ version[j] <= version'[j]
    BY <1>6 DEF Send, IInv, TypeOK
  <2>5. ReceiversBehind'
    BY <2>1, <2>2, <2>3, <2>4 DEF IInv, TypeOK, ReceiversBehind
  <2>6. ASSUME NEW d \in Clients, pc'[d] = "changed", Present(key[d])',
               version'[key'[d]] = seen'[d]
        PROVE  \E e \in Clients : pc'[e] \in {"send_set", "send_incr"} /\ key'[e] = key'[d]
    <3>1. d # c /\ pc[d] = "changed" /\ key[d] \in Keys /\ Present(key[d])
      BY <2>1, <2>2, <2>3, <2>6 DEF IInv, TypeOK, Present
    <3>2. seen[d] <= version[key[d]] /\ seen[d] \in Nat /\ version[key[d]] \in Nat
      BY <3>1 DEF IInv, TypeOK, ReceiversBehind
    <3>3. key[d] # key[c]
      <4>1. SUFFICES ASSUME key[d] = key[c] PROVE FALSE
        OBVIOUS
      <4>2. d \in Receivers(key[c])
        BY <3>1, <4>1 DEF Receivers
      <4>3. version'[key[d]] = version[key[d]] + 1
        BY <1>6, <3>1, <4>1, <4>2 DEF Send, IInv, TypeOK
      <4> QED
        BY <2>1, <2>6, <3>2, <4>3
    <3>4. version[key[d]] = seen[d]
      BY <2>1, <2>4, <2>6, <3>1, <3>2
    <3>5. PICK e \in Clients : pc[e] \in {"send_set", "send_incr"} /\ key[e] = key[d]
      BY <3>1, <3>4 DEF IInv, NoLostWakeup
    <3> QED
      BY <2>1, <2>2, <3>3, <3>5
  <2> QED
    BY <2>5, <2>6 DEF NoLostWakeup
<1>7. ASSUME NEW c \in Clients, Reread(c) \/ WaitGet(c)
      PROVE  (ReceiversBehind /\ NoLostWakeup)'
  BY <1>7 DEF Reread, WaitGet, IInv, TypeOK, ReceiversBehind, NoLostWakeup, Present
<1>8. ASSUME NEW c \in Clients, Check(c) PROVE (ReceiversBehind /\ NoLostWakeup)'
  BY <1>8 DEF Check, IInv, TypeOK, ReceiversBehind, NoLostWakeup, Present
<1>9. ASSUME NEW c \in Clients, Changed(c) PROVE (ReceiversBehind /\ NoLostWakeup)'
  BY <1>9 DEF Changed, IInv, TypeOK, ReceiversBehind, NoLostWakeup, Present
<1>10. CASE UNCHANGED vars
  BY <1>10 DEF vars, IInv, ReceiversBehind, NoLostWakeup, Present
<1> QED
  BY <1>1, <1>2, <1>3, <1>4, <1>5, <1>6, <1>7, <1>8, <1>9, <1>10
  DEF Next, Begin, Continue

THEOREM InductiveInvariant == Spec => []IInv
<1>1. IInv /\ [Next]_vars => IInv'
  BY TypeStep, WakeupStep DEF IInv
<1> QED
  BY InvInit, <1>1, PTL DEF Spec

\* However many clients set, delete and wait, a sleeping waiter whose key exists
\* has a wake-up ahead of it.
THEOREM WakeupsKept == Spec => []NoLostWakeup
BY InductiveInvariant, PTL DEF IInv

-----------------------------------------------------------------------------
(* Increments. *)

LEMMA IncrStep ==
    ASSUME TypeOK, NEW c \in Clients, NEW k \in Keys, NEW delta \in Deltas,
           Incr(c, k, delta)
    PROVE  /\ delta >= 0 => AsI64(values'[k]) >= AsI64(values[k])
           /\ delta <= 0 => AsI64(values'[k]) <= AsI64(values[k])
<1> DEFINE next == SaturatingAdd(AsI64(values[k]), delta)
<1>1. AsI64(values[k]) \in MinI64..MaxI64 /\ delta \in MinI64..MaxI64
  BY AsI64Type, StoreAssumption DEF TypeOK
<1>2. values'[k] = I64(next)
  BY DEF Incr, TypeOK
<1>3. AsI64(values'[k]) = next
  BY <1>1, <1>2, SaturatingAddFacts, I64Facts
<1> QED
  BY <1>1, <1>3, SaturatingAddFacts

\* incr with a positive delta never lowers the counter, and never raises it with
\* a negative one: the addition saturates at both ends of i64.
THEOREM IncrementsMonotone == Spec => IncrMonotone
<1>1. TypeOK /\ [Next]_vars =>
        [\A c \in Clients, k \in Keys, delta \in Deltas : Incr(c, k, delta) =>
            /\ delta >= 0 => AsI64(values'[k]) >= AsI64(values[k])
            /\ delta <= 0 => AsI64(values'[k]) <= AsI64(values[k])]_vars
  BY IncrStep
<1> QED
  BY <1>1, TypeCorrect, PTL DEF Spec, IncrMonotone

-----------------------------------------------------------------------------
(* All of wrkr/shared: the key/value half is not disturbed by the barriers. *)

\* A call of a barrier changes nothing of the key/value half but the number of calls.
LEMMA HalfStep ==
    ASSUME BarrierNext
    PROVE  \/ Next
           \/ UNCHANGED vars
           \/ \E c \in Clients : /\ calls[c] < MaxCalls
                                 /\ calls' = [calls EXCEPT ![c] = @ + 1]
                                 /\ UNCHANGED <<store, pc, key, seen, written, result>>
BY DEF BarrierNext, BeginStep, ContinueStep, BarrierWait, BarrierStep, ArriveLast, ArriveFirst,
       Leave, Next

LEMMA BarrierKeepsStore == IInv /\ [BarrierNext]_allVars => IInv'
<1> SUFFICES ASSUME IInv, [BarrierNext]_allVars PROVE IInv'
  OBVIOUS
<1>1. CASE [Next]_vars
  BY <1>1, TypeStep, WakeupStep DEF IInv
<1>2. CASE \E c \in Clients : /\ calls[c] < MaxCalls
                              /\ calls' = [calls EXCEPT ![c] = @ + 1]
                              /\ UNCHANGED <<store, pc, key, seen, written, result>>
  <2>1. TypeOK'
    BY <1>2, StoreAssumption DEF IInv, TypeOK, store
  <2>2. ReceiversBehind' /\ NoLostWakeup'
    BY <1>2 DEF IInv, ReceiversBehind, NoLostWakeup, Present, store
  <2> QED
    BY <2>1, <2>2 DEF IInv
<1> QED
  BY <1>1, <1>2, HalfStep DEF allVars

\* With the barriers, too, the types hold and no wake-up of wait_for_key is lost.
THEOREM StoreInBarrierSpec == BarrierSpec => []IInv
BY InvInit, BarrierKeepsStore, PTL DEF BarrierSpec, BarrierInit

\* With the barriers, too, every variable of the store keeps its type.
THEOREM TypesInShared == BarrierSpec => []TypeOK
BY StoreInBarrierSpec, PTL DEF IInv

\* With the barriers, too, a sleeping waiter whose key exists has a wake-up ahead of it.
THEOREM WakeupsInShared == BarrierSpec => []NoLostWakeup
BY StoreInBarrierSpec, PTL DEF IInv

\* With the barriers, too, incr never moves a counter the other way.
THEOREM IncrementsInShared == BarrierSpec => IncrMonotone
<1>1. TypeOK =>
        [\A c \in Clients, k \in Keys, delta \in Deltas : Incr(c, k, delta) =>
            /\ delta >= 0 => AsI64(values'[k]) >= AsI64(values[k])
            /\ delta <= 0 => AsI64(values'[k]) <= AsI64(values[k])]_vars
  BY IncrStep
<1> QED
  BY <1>1, TypesInShared, PTL DEF IncrMonotone

-----------------------------------------------------------------------------
(* shared.wait. *)

LEMMA WaitStep == IInv /\ WaitSeesKey /\ [BarrierNext]_allVars => WaitSeesKey'
<1> SUFFICES ASSUME IInv, WaitSeesKey, [BarrierNext]_allVars,
                    NEW c \in Clients, pc'[c] = "wait_get", ~Present(key[c])'
             PROVE  c \in dropped'
  BY DEF WaitSeesKey
<1>1. CASE UNCHANGED <<values, pc, key, dropped>>
  BY <1>1 DEF WaitSeesKey, Present
<1>2. ASSUME NEW d \in Clients, Begin(d) \/ Continue(d), Keyed PROVE c \in dropped'
  <2>1. CASE pc[c] = "wait_get"
    <3>1. key'[c] = key[c]
      BY <1>2, <2>1 DEF Begin, Continue, Set, Get, Delete, Incr, Counter, Wait, Call, Send, Reread,
         Check, Changed, WaitGet, IInv, TypeOK
    <3> QED
      BY <1>2, <2>1, <3>1 DEF Keyed, Dropping, WaitSeesKey, Present
  <2>2. CASE pc[c] # "wait_get"
    <3>1. CASE Check(d)
      BY <2>2, <3>1 DEF Check, Goto, Present, IInv, TypeOK, store
    <3>2. ASSUME NEW k \in Keys, Wait(d, k) PROVE c \in dropped'
      BY <2>2, <3>2 DEF Wait, Call, Goto, Present, IInv, TypeOK
    <3>3. CASE Begin(d) /\ ~\E k \in Keys : Wait(d, k)
      BY <2>2, <3>3 DEF Begin, Set, Get, Delete, Incr, Counter, Call, Goto, IInv, TypeOK
    <3>4. CASE Continue(d) /\ ~Check(d)
      BY <2>2, <3>4 DEF Continue, Send, Reread, Changed, WaitGet, Goto, IInv, TypeOK
    <3> QED
      BY <1>2, <3>1, <3>2, <3>3, <3>4
  <2> QED
    BY <2>1, <2>2
<1> QED
  BY <1>1, <1>2 DEF BarrierNext, BeginStep, ContinueStep, BarrierWait, BarrierStep, ArriveLast,
     ArriveFirst, Leave, allVars, vars, store, clients

\* shared.wait, which reads the key again after wait_for_key saw it without holding the
\* mutex in between, finds it unless the key was deleted meanwhile.
THEOREM WaitFinds == BarrierSpec => []WaitSeesKey
<1>1. BarrierInit => WaitSeesKey
  BY DEF BarrierInit, Init, WaitSeesKey
<1> QED
  BY <1>1, WaitStep, StoreInBarrierSpec, PTL DEF BarrierSpec


-----------------------------------------------------------------------------
(* Barriers.  A generation is complete when it is announced, so those who    *)
(* wait are of the current generation or of one that is announced, and a     *)
(* barrier nobody has used is in its first.                                  *)

BarrierTypes ==
    /\ parties \in [Names -> Nat]
    /\ arrived \in [Names -> Nat]
    /\ generation \in [Names -> Nat]
    /\ passed \in [Names -> Nat]
    /\ stage \in [Clients -> {"out", "arrive", "wait"}]
    /\ at \in [Clients -> Names]
    /\ mine \in [Clients -> Nat]

BarrierFacts ==
    /\ \A c \in Clients : stage[c] # "out" => parties[at[c]] > 0
    /\ \A c \in Clients : stage[c] = "wait" => mine[c] <= generation[at[c]]
    /\ \A b \in Names : parties[b] = 0 => generation[b] = 0

BarrierInv == BarrierTypes /\ BarrierFacts /\ BarrierWhole

\* Those the barrier has opened for and who have not gone yet, and the others.
Free(b)    == {c \in WaitingAt(b) : mine[c] < generation[b]}
Counted(b) == WaitingAt(b) \ Free(b)

Whole(b) ==
    /\ passed[b] + Cardinality(Free(b)) = parties[b] * generation[b]
    /\ Cardinality(Counted(b)) = arrived[b]
    /\ arrived[b] = 0 \/ arrived[b] < parties[b]

LEMMA WholeForm == BarrierWhole <=> \A b \in Names : Whole(b)
BY DEF BarrierWhole, Whole, Free, Counted

LEMMA WaitingFinite ==
    ASSUME NEW b
    PROVE  /\ IsFiniteSet(WaitingAt(b)) /\ IsFiniteSet(Free(b)) /\ IsFiniteSet(Counted(b))
           /\ Cardinality(WaitingAt(b)) \in Nat
           /\ Cardinality(Free(b)) \in Nat
           /\ Cardinality(Counted(b)) \in Nat
<1>1. WaitingAt(b) \subseteq Clients /\ Free(b) \subseteq Clients /\ Counted(b) \subseteq Clients
  BY DEF WaitingAt, Free, Counted
<1> QED
  BY <1>1, PartiesAssumption, FS_Subset, FS_CardinalityType

\* What the types and the facts need of a step.
LEMMA BarrierFactsStep ==
    ASSUME BarrierTypes, BarrierFacts, [BarrierNext]_allVars PROVE (BarrierTypes /\ BarrierFacts)'
<1>1. CASE UNCHANGED barriers
  BY <1>1 DEF barriers, BarrierTypes, BarrierFacts
<1>2. ASSUME NEW c \in Clients, NEW b \in Names, NEW n \in Parties, BarrierWait(c, b, n)
      PROVE  (BarrierTypes /\ BarrierFacts)'
  <2>1. n \in Nat /\ n > 0
    BY <1>2, PartiesAssumption DEF BarrierWait
  <2>2. parties' \in [Names -> Nat] /\ parties'[b] = n /\ \A x \in Names : x # b => parties'[x] = parties[x]
    BY <1>2, <2>1 DEF BarrierWait, BarrierTypes
  <2>3. BarrierTypes'
    BY <1>2, <2>2 DEF BarrierWait, BarrierTypes
  <2>4. \A x \in Names : parties[x] > 0 => parties'[x] > 0
    BY <1>2, <2>1, <2>2 DEF BarrierTypes
  <2>5. BarrierFacts'
    BY <1>2, <2>1, <2>2, <2>4 DEF BarrierWait, BarrierTypes, BarrierFacts
  <2> QED
    BY <2>3, <2>5
<1>3. ASSUME NEW c \in Clients, ArriveLast(c) PROVE (BarrierTypes /\ BarrierFacts)'
  BY <1>3 DEF ArriveLast, BarrierTypes, BarrierFacts
<1>4. ASSUME NEW c \in Clients, ArriveFirst(c) PROVE (BarrierTypes /\ BarrierFacts)'
  BY <1>4 DEF ArriveFirst, BarrierTypes, BarrierFacts
<1>5. ASSUME NEW c \in Clients, Leave(c) PROVE (BarrierTypes /\ BarrierFacts)'
  BY <1>5 DEF Leave, BarrierTypes, BarrierFacts
<1> QED
  BY <1>1, <1>2, <1>3, <1>4, <1>5
  DEF BarrierNext, BeginStep, ContinueStep, Keyed, BarrierStep, allVars

LEMMA WaitingSame ==
    ASSUME NEW b \in Names, WaitingAt(b)' = WaitingAt(b), generation'[b] = generation[b],
           \A c \in WaitingAt(b) : mine'[c] = mine[c]
    PROVE  Free(b)' = Free(b) /\ Counted(b)' = Counted(b)
BY DEF Free, Counted

LEMMA WholeStep ==
    ASSUME BarrierTypes, BarrierFacts, \A b \in Names : Whole(b), [BarrierNext]_allVars,
           NEW b \in Names
    PROVE  Whole(b)'
<1>1. CASE UNCHANGED barriers
  BY <1>1 DEF barriers, Whole, Free, Counted, WaitingAt
<1>2. ASSUME NEW c \in Clients, NEW d \in Names, NEW n \in Parties, BarrierWait(c, d, n)
      PROVE  Whole(b)'
  <2>1. WaitingAt(b)' = WaitingAt(b)
    BY <1>2 DEF BarrierWait, WaitingAt, BarrierTypes
  <2>2. Free(b)' = Free(b) /\ Counted(b)' = Counted(b)
    BY <1>2, <2>1, WaitingSame DEF BarrierWait
  <2>3. CASE parties'[b] = parties[b]
    BY <1>2, <2>2, <2>3 DEF Whole, BarrierWait
  <2>4. CASE parties'[b] # parties[b]
    <3>1. parties[b] = 0 /\ generation[b] = 0 /\ parties'[b] \in Nat /\ arrived[b] = 0
      <4>1. parties[b] = 0 /\ parties'[b] = n
        BY <1>2, <2>4 DEF BarrierWait, BarrierTypes
      <4> QED
        BY <4>1, PartiesAssumption DEF Whole, BarrierFacts, BarrierTypes
    <3>2. parties'[b] * generation'[b] = parties[b] * generation[b]
      BY <1>2, <3>1 DEF BarrierWait
    <3> QED
      BY <1>2, <2>2, <3>1, <3>2 DEF Whole, BarrierWait
  <2> QED
    BY <2>3, <2>4
<1>3. ASSUME NEW c \in Clients, ArriveLast(c) PROVE Whole(b)'
  <2>1. WaitingAt(b)' = WaitingAt(b)
    BY <1>3 DEF ArriveLast, WaitingAt, BarrierTypes
  <2>2. CASE b # at[c]
    <3>1. Free(b)' = Free(b) /\ Counted(b)' = Counted(b)
      BY <1>3, <2>1, <2>2, WaitingSame DEF ArriveLast, BarrierTypes
    <3> QED
      BY <1>3, <2>2, <3>1 DEF Whole, ArriveLast, BarrierTypes
  <2>3. CASE b = at[c]
    <3>1. /\ generation'[b] = generation[b] + 1 /\ passed'[b] = passed[b] + 1
          /\ arrived'[b] = 0 /\ parties'[b] = parties[b] /\ parties[b] = arrived[b] + 1
          /\ mine' = mine
      BY <1>3, <2>3 DEF ArriveLast, BarrierTypes
    <3>2. Free(b)' = WaitingAt(b)
      <4>1. \A x \in WaitingAt(b) : mine[x] < generation[b] + 1
        BY DEF WaitingAt, BarrierTypes, BarrierFacts
      <4> QED
        BY <2>1, <3>1, <4>1 DEF Free
    <3>3. Counted(b)' = {}
      BY <2>1, <3>2 DEF Counted
    <3>4. Cardinality(WaitingAt(b)) = Cardinality(Free(b)) + arrived[b]
      <4>1. Cardinality(Counted(b)) = Cardinality(WaitingAt(b)) - Cardinality(WaitingAt(b) \cap Free(b))
        BY WaitingFinite, FS_Difference DEF Counted
      <4>2. Cardinality(WaitingAt(b) \cap Free(b)) = Cardinality(Free(b))
        <5>1. WaitingAt(b) \cap Free(b) = Free(b)
          BY DEF Free
        <5> QED
          BY <5>1
      <4>3. Cardinality(Counted(b)) = arrived[b]
        BY DEF Whole
      <4>4. Cardinality(WaitingAt(b)) \in Nat /\ Cardinality(Free(b)) \in Nat
        BY WaitingFinite
      <4> QED
        BY <4>1, <4>2, <4>3, <4>4
    <3>5. parties[b] * (generation[b] + 1) = parties[b] * generation[b] + parties[b]
      BY DEF BarrierTypes
    <3>6. passed'[b] + Cardinality(Free(b))' = parties'[b] * generation'[b]
      <4> DEFINE product == parties[b] * generation[b]
      <4>1. product \in Nat /\ passed[b] \in Nat /\ arrived[b] \in Nat
        BY DEF BarrierTypes
      <4>2. passed[b] + Cardinality(Free(b)) = product
        BY DEF Whole
      <4>3. parties'[b] * generation'[b] = product + arrived[b] + 1
        BY <3>1, <3>5, <4>1
      <4> HIDE DEF product
      <4> QED
        BY <3>1, <3>2, <3>4, <4>1, <4>2, <4>3, WaitingFinite
    <3> QED
      BY <3>1, <3>3, <3>6, FS_EmptySet DEF Whole
  <2> QED
    BY <2>2, <2>3
<1>4. ASSUME NEW c \in Clients, ArriveFirst(c) PROVE Whole(b)'
  <2>1. CASE b # at[c]
    <3>1. WaitingAt(b)' = WaitingAt(b) /\ c \notin WaitingAt(b)
      BY <1>4, <2>1 DEF ArriveFirst, WaitingAt, BarrierTypes
    <3>2. Free(b)' = Free(b) /\ Counted(b)' = Counted(b)
      BY <1>4, <3>1, WaitingSame DEF ArriveFirst, BarrierTypes, WaitingAt
    <3> QED
      BY <1>4, <2>1, <3>2 DEF Whole, ArriveFirst, BarrierTypes
  <2>2. CASE b = at[c]
    <3>1. WaitingAt(b)' = WaitingAt(b) \union {c} /\ c \notin WaitingAt(b)
      BY <1>4, <2>2 DEF ArriveFirst, WaitingAt, BarrierTypes
    <3>2. /\ generation' = generation /\ passed' = passed /\ parties' = parties
          /\ arrived'[b] = arrived[b] + 1 /\ arrived[b] + 1 # parties[b] /\ parties[b] > 0
          /\ mine'[c] = generation[b] /\ \A x \in Clients : x # c => mine'[x] = mine[x]
      BY <1>4, <2>2 DEF ArriveFirst, BarrierTypes, BarrierFacts
    <3>3. Free(b)' = Free(b)
      BY <3>1, <3>2 DEF Free, WaitingAt, BarrierTypes
    <3>4. Counted(b)' = Counted(b) \union {c} /\ c \notin Counted(b)
      BY <3>1, <3>3 DEF Counted, Free
    <3>5. Cardinality(Counted(b)') = Cardinality(Counted(b)) + 1
      BY <3>4, WaitingFinite, FS_AddElement
    <3>6. arrived[b] + 1 < parties[b]
      BY <3>2 DEF Whole, BarrierTypes
    <3> QED
      BY <3>2, <3>3, <3>5, <3>6 DEF Whole
  <2> QED
    BY <2>1, <2>2
<1>5. ASSUME NEW c \in Clients, Leave(c) PROVE Whole(b)'
  <2>1. CASE b # at[c]
    <3>1. WaitingAt(b)' = WaitingAt(b)
      BY <1>5, <2>1 DEF Leave, WaitingAt, BarrierTypes
    <3>2. Free(b)' = Free(b) /\ Counted(b)' = Counted(b)
      BY <1>5, <3>1, WaitingSame DEF Leave
    <3> QED
      BY <1>5, <2>1, <3>2 DEF Whole, Leave, BarrierTypes
  <2>2. CASE b = at[c]
    <3>1. c \in Free(b) /\ WaitingAt(b)' = WaitingAt(b) \ {c}
      BY <1>5, <2>2 DEF Leave, Released, Free, WaitingAt, BarrierTypes
    <3>2. /\ passed'[b] = passed[b] + 1
          /\ UNCHANGED <<arrived, generation, parties, mine>>
      BY <1>5, <2>2 DEF Leave, BarrierTypes
    <3>3. Free(b)' = Free(b) \ {c} /\ Counted(b)' = Counted(b)
      BY <3>1, <3>2 DEF Free, Counted
    <3>4. Cardinality(Free(b)') = Cardinality(Free(b)) - 1
      BY <3>1, <3>3, WaitingFinite, FS_RemoveElement
    <3>5. passed'[b] + Cardinality(Free(b)') = passed[b] + Cardinality(Free(b))
      BY <3>2, <3>4, WaitingFinite DEF BarrierTypes
    <3> QED
      BY <3>2, <3>3, <3>5 DEF Whole
  <2> QED
    BY <2>1, <2>2
<1> QED
  BY <1>1, <1>2, <1>3, <1>4, <1>5
  DEF BarrierNext, BeginStep, ContinueStep, Keyed, BarrierStep, allVars

LEMMA BarrierInvInit == BarrierInit => BarrierInv
<1> SUFFICES ASSUME BarrierInit PROVE BarrierInv
  OBVIOUS
<1>1. BarrierTypes /\ BarrierFacts
  BY DEF BarrierInit, BarrierTypes, BarrierFacts
<1>2. ASSUME NEW b \in Names PROVE Whole(b)
  <2>1. Free(b) = {} /\ Counted(b) = {}
    BY DEF BarrierInit, Free, Counted, WaitingAt
  <2> QED
    BY <2>1, FS_EmptySet DEF BarrierInit, Whole
<1> QED
  BY <1>1, <1>2, WholeForm DEF BarrierInv

\* A barrier opens for whole groups of its parties, however many clients come, whatever
\* their order and however late those it has opened for go on: the calls that returned
\* and those about to return are parties times generations.
THEOREM BarriersOpenWhole == BarrierSpec => []BarrierWhole
<1>1. BarrierInv /\ [BarrierNext]_allVars => BarrierInv'
  <2> SUFFICES ASSUME BarrierInv, [BarrierNext]_allVars PROVE BarrierInv'
    OBVIOUS
  <2>1. (BarrierTypes /\ BarrierFacts)'
    BY BarrierFactsStep DEF BarrierInv
  <2>2. \A b \in Names : Whole(b)'
    BY WholeStep, WholeForm DEF BarrierInv
  <2>3. BarrierWhole'
    BY <2>2 DEF BarrierWhole, Whole, Free, Counted
  <2> QED
    BY <2>1, <2>3 DEF BarrierInv
<1>2. BarrierInv => BarrierWhole
  BY DEF BarrierInv
<1> QED
  BY BarrierInvInit, <1>1, <1>2, PTL DEF BarrierSpec
=============================================================================
