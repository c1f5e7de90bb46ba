--------------------------- MODULE RecordingProofs --------------------------
(***************************************************************************)
(* Proofs about Recording, for any VUs, scenarios, tags and plans.         *)
(*                                                                         *)
(* The invariant keeps books for every series.  Credit is what the calls   *)
(* that have begun give to it, from the log; Due what VUs still owe it,    *)
(* from the updates they have left; and the balance of the two is what the *)
(* series has, exactly as long as no series was inserted over another, and *)
(* at least that for a counter in any case, since a replaced series only   *)
(* loses values.  A weight on the values says which sum is meant: each     *)
(* value as it is (a counter), 1 (the number of them), or 1 for one value  *)
(* and 0 for others (how often a histogram has it).  Beginning a call adds *)
(* to both sides, because the updates a call is split into go to different *)
(* series, the ones that the documentation tells of (UpdatesFaithful).     *)
(*                                                                         *)
(* Everything else follows where no update is left: a series has what was  *)
(* given to it, sums over several series are sums over their calls         *)
(* (BagWeighs), and the summary and the verdicts read off such sums.       *)
(***************************************************************************)
EXTENDS RecordingLemmas

-----------------------------------------------------------------------------
(* The invariant: types. *)

\* Who is where, and whose handle may be of a series that was replaced.
PhasesOK ==
    /\ plan \in Plans
    /\ phase \in [VuIds -> {"script", "find", "make", "apply", "done"}]
    /\ \A v \in VuIds : phase[v] # "done" => v \in DOMAIN plan.scenario
    /\ detached \subseteq {v \in VuIds : phase[v] = "apply"}
    /\ raced \in BOOLEAN
    /\ ~raced => detached = {}

\* Metrics keep their kinds, the runner's own the kinds it gave them.
KindsOK ==
    /\ kinds \in [DOMAIN kinds -> Kinds]
    /\ \A m \in DOMAIN Builtin : m \in DOMAIN kinds /\ kinds[m] = Builtin[m]

IsBag(x) == x \in [DOMAIN x -> Nat \ {0}] /\ IsFiniteSet(DOMAIN x)

IsValue(kind, x) ==
    /\ kind = "Counter" => x \in Nat
    /\ kind = "Gauge" => x \in Int
    /\ kind = "Rate" => x \in [total : Nat, hits : Int]
    /\ kind = "Histogram" => IsBag(x) /\ DOMAIN x \subseteq Int

KeysIn(T) == {t[1] : t \in T}

\* Series are of registered metrics, and their tags were resolved.
IsSeries(p) == p[1] \in DOMAIN kinds /\ IsTagSet(p[2]) /\ KeysIn(p[2]) \subseteq ToSet(ids)

SeriesOK ==
    /\ IsFiniteSet(DOMAIN values)
    /\ values = [p \in DOMAIN values |-> values[p]]
    /\ \A p \in DOMAIN values : IsSeries(p) /\ IsValue(kinds[p[1]], values[p])

\* Updates to series of registered metrics, each to another one.
Separate(us) ==
    /\ us \in Seq(ToSet(us))
    /\ \A i \in DOMAIN us : IsUpdate(us[i])
    /\ \A i, j \in DOMAIN us : KeyOf(us[i]) = KeyOf(us[j]) => i = j

TodoOK ==
    /\ DOMAIN todo = VuIds
    /\ \A v \in VuIds :
          /\ Separate(todo[v])
          /\ \A i \in DOMAIN todo[v] : todo[v][i].metric \in DOMAIN kinds
          /\ (todo[v] = <<>>) = (phase[v] \in {"script", "done"})

\* Who is past resolve_tags has the ids of its keys, and who has a handle a series.
HandlesOK ==
    \A v \in VuIds :
        /\ phase[v] \in {"make", "apply"} => KeysOf(Head(todo[v]).tags) \subseteq ToSet(ids)
        /\ phase[v] = "apply" => SeriesAt(v) \in DOMAIN values

CountsOK ==
    /\ DOMAIN made = VuIds
    /\ \A v \in VuIds : made[v] \in Nat
    /\ \A v \in DOMAIN plan.scenario : made[v] <= plan.calls[v]
    /\ ticks \in Nat /\ ticks <= plan.ticks

\* A script in the groups n: the current group is the innermost one, and each
\* group.group has saved the one around it.
Around(s, n, g) ==
    /\ s \in Seq(ToSet(s)) /\ n \in Seq(ToSet(n))
    /\ Len(s) = Len(n)
    /\ g = IF n = <<>> THEN NoGroup ELSE Last(n)
    /\ \A i \in 1 .. Len(s) : s[i] = IF i = 1 THEN NoGroup ELSE n[i - 1]

GroupsOK ==
    /\ DOMAIN group = VuIds /\ DOMAIN saved = VuIds /\ DOMAIN nested = VuIds
    /\ \A v \in VuIds : Around(saved[v], nested[v], group[v])

\* The calls that are logged.
IsIteration(c) == c.success \in BOOLEAN /\ c = [op |-> "iteration", success |-> c.success]
IsEntry(e) ==
    /\ e = Of(e.scenario, e.group, e.call)
    /\ IsCall(e.call) \/ IsIteration(e.call)
    /\ e.call.op = "add" => e.call.metric \in DOMAIN kinds
LogOK ==
    /\ IsBag(log)
    /\ \A e \in DOMAIN log : IsEntry(e)

TInv == PhasesOK /\ IsIds(ids) /\ KindsOK /\ SeriesOK /\ TodoOK /\ HandlesOK /\ CountsOK
        /\ GroupsOK /\ LogOK
-----------------------------------------------------------------------------
(* What the proofs need of bags, sequences and plans. *)

LEMMA BagMore ==
    ASSUME NEW b, NEW x
    PROVE  LET c == b (+) SetToBag({x})
           IN /\ DOMAIN c = DOMAIN b \union {x}
              /\ \A y \in DOMAIN c : c[y] = Copies(y, b) + (IF y = x THEN 1 ELSE 0)
              /\ IsBag(b) => IsBag(c)
<1> DEFINE c == b (+) SetToBag({x})
<1>1. c = [y \in DOMAIN b \union {x} |-> Copies(y, b) + (IF y = x THEN 1 ELSE 0)]
  BY DEF (+), SetToBag, Copies
<1>2. ASSUME IsBag(b) PROVE IsBag(c)
  <2>1. IsFiniteSet(DOMAIN b \union {x})
    BY <1>2, FS_AddElement DEF IsBag
  <2>2. \A y \in DOMAIN b \union {x} : Copies(y, b) + (IF y = x THEN 1 ELSE 0) \in Nat \ {0}
    BY <1>2 DEF IsBag, Copies
  <2> HIDE DEF c
  <2> QED
    BY <1>1, <2>1, <2>2 DEF IsBag
<1> QED
  BY <1>1, <1>2

LEMMA NoBag == IsBag(EmptyBag) /\ DOMAIN EmptyBag = {}
BY FS_EmptySet DEF IsBag, EmptyBag, SetToBag

LEMMA TailFacts ==
    ASSUME NEW R, NEW us \in Seq(R), us # <<>>
    PROVE  /\ Tail(us) \in Seq(R) /\ Len(Tail(us)) = Len(us) - 1 /\ Len(us) \in Nat \ {0}
           /\ 1 \in DOMAIN us /\ Head(us) = us[1]
           /\ DOMAIN us = 1 .. Len(us) /\ DOMAIN Tail(us) = 1 .. Len(us) - 1
           /\ \A i \in DOMAIN Tail(us) : i + 1 \in DOMAIN us /\ Tail(us)[i] = us[i + 1]
           /\ \A i \in DOMAIN us : i # 1 => i - 1 \in DOMAIN Tail(us) /\ Tail(us)[i - 1] = us[i]
OBVIOUS

\* What is left of separate updates is separate, and none of it is for the series of
\* the first.
LEMMA SeparateTail ==
    ASSUME NEW us, Separate(us), us # <<>>
    PROVE  /\ Separate(Tail(us))
           /\ \A i \in DOMAIN Tail(us) : /\ i + 1 \in DOMAIN us /\ Tail(us)[i] = us[i + 1]
                                         /\ KeyOf(Tail(us)[i]) # KeyOf(Head(us))
           /\ 1 \in DOMAIN us /\ Head(us) = us[1] /\ IsUpdate(Head(us))
           /\ Len(us) \in Nat
           /\ Tail(us) = <<>> <=> ~(Len(us) > 1)
<1> DEFINE t == Tail(us)
<1>1. us \in Seq(ToSet(us))
  BY DEF Separate
<1>2. /\ t \in Seq(ToSet(us)) /\ Len(t) = Len(us) - 1 /\ Len(us) \in Nat \ {0}
      /\ 1 \in DOMAIN us /\ Head(us) = us[1]
      /\ DOMAIN us = 1 .. Len(us) /\ DOMAIN t = 1 .. Len(us) - 1
      /\ \A i \in DOMAIN t : i + 1 \in DOMAIN us /\ t[i] = us[i + 1]
  BY <1>1, TailFacts, Zenon
<1> HIDE DEF t
<1>3. t = <<>> <=> ~(Len(us) > 1)
  <2>1. t = <<>> <=> Len(t) = 0
    BY <1>2
  <2>2. Len(t) = 0 <=> ~(Len(us) > 1)
    BY <1>2
  <2> QED
    BY <2>1, <2>2
<1>4. t \in Seq(ToSet(t))
  <2>1. \A i \in 1 .. Len(t) : t[i] \in ToSet(t)
    BY <1>2 DEF ToSet
  <2> QED
    BY <1>2, <2>1, SeqIn
<1>5. \A i, j \in DOMAIN t : KeyOf(t[i]) = KeyOf(t[j]) => i = j
  <2>1. ASSUME NEW i \in DOMAIN t, NEW j \in DOMAIN t, KeyOf(t[i]) = KeyOf(t[j]) PROVE i = j
    <3>1. i + 1 = j + 1
      BY <1>2, <2>1, Zenon DEF Separate
    <3> QED
      BY <1>2, <3>1
  <2> QED
    BY <2>1
<1>6. \A i \in DOMAIN t : KeyOf(t[i]) # KeyOf(Head(us))
  <2>1. ASSUME NEW i \in DOMAIN t, KeyOf(t[i]) = KeyOf(Head(us)) PROVE FALSE
    <3>1. i + 1 = 1
      BY <1>2, <2>1, Zenon DEF Separate
    <3> QED
      BY <1>2, <3>1
  <2> QED
    BY <2>1
<1>7. Separate(t)
  BY <1>2, <1>4, <1>5 DEF Separate
<1> QED
  BY <1>2, <1>3, <1>6, <1>7, Zenon DEF t, Separate

LEMMA PlanFacts ==
    ASSUME plan \in Plans
    PROVE  /\ DOMAIN plan.scenario \subseteq VuIds
           /\ \A v \in DOMAIN plan.scenario : plan.scenario[v] \in Scenarios /\ plan.calls[v] \in Nat
           /\ \A c \in plan.menu : IsCall(c)
           /\ plan.ticks \in Nat
BY RecordingAssumption DEF IsCall
\* An update that its series takes.
Effective(kind, u) ==
    /\ kind = u.kind /\ Valid(u)
    /\ kind = "Histogram" => u.value.n <= HistogramMax

\* What it makes of the value.
Applied(kind, x, u) ==
    /\ ~Effective(kind, u) => Apply(kind, x, u) = x
    /\ Effective(kind, u) =>
          /\ kind \in {"Counter", "Gauge"} => Apply(kind, x, u) = x + u.value.n
          /\ kind = "Counter" => u.value.n \in Nat
          /\ kind = "Rate" => Apply(kind, x, u) = [total |-> x.total + 1, hits |-> x.hits + u.value.n]
          /\ kind = "Histogram" => Apply(kind, x, u) = x (+) SetToBag({u.value.n})

LEMMA ApplyIs ==
    ASSUME NEW kind \in Kinds, NEW x, IsValue(kind, x), NEW u, IsUpdate(u)
    PROVE  IsValue(kind, Apply(kind, x, u)) /\ Applied(kind, x, u)
<1>0. u.value.n \in Int /\ HistogramMax \in Nat
  BY RecordingAssumption DEF IsUpdate
<1>1. CASE kind # u.kind \/ ~Valid(u)
  BY <1>1, Zenon DEF Apply, Effective, Applied
<1>2. CASE kind = u.kind /\ Valid(u) /\ kind \in {"Counter", "Gauge"}
  <2>1. Apply(kind, x, u) = x + u.value.n /\ Effective(kind, u)
    BY <1>2 DEF Apply, Effective
  <2>2. kind = "Counter" => u.value.n \in Nat
    BY <1>0, <1>2 DEF Valid
  <2>3. IsValue(kind, x + u.value.n)
    BY <1>0, <1>2, <2>2 DEF IsValue
  <2> QED
    BY <1>2, <2>1, <2>2, <2>3 DEF Applied
<1>3. CASE kind = u.kind /\ Valid(u) /\ kind = "Rate"
  <2>1. Apply(kind, x, u) = [total |-> x.total + 1, hits |-> x.hits + u.value.n] /\ Effective(kind, u)
    BY <1>3 DEF Apply, Effective
  <2>2. IsValue(kind, [total |-> x.total + 1, hits |-> x.hits + u.value.n])
    <3>1. x.total \in Nat /\ x.hits \in Int
      BY <1>3 DEF IsValue
    <3> QED
      BY <1>0, <1>3, <3>1 DEF IsValue
  <2> QED
    BY <1>3, <2>1, <2>2 DEF Applied
<1>4. CASE kind = u.kind /\ Valid(u) /\ kind = "Histogram" /\ u.value.n > HistogramMax
  <2>1. Apply(kind, x, u) = x
    BY <1>4 DEF Apply
  <2>2. ~Effective(kind, u)
    BY <1>0, <1>4 DEF Effective
  <2> QED
    BY <2>1, <2>2 DEF Applied
<1>5. CASE kind = u.kind /\ Valid(u) /\ kind = "Histogram" /\ ~(u.value.n > HistogramMax)
  <2> DEFINE y == x (+) SetToBag({u.value.n})
  <2>1. Apply(kind, x, u) = y
    BY <1>5, Zenon DEF Apply
  <2>2. IsBag(x) /\ DOMAIN x \subseteq Int
    BY <1>5 DEF IsValue
  <2>3. DOMAIN y = DOMAIN x \union {u.value.n} /\ IsBag(y)
    BY <2>2, BagMore
  <2> HIDE DEF y
  <2>4. IsValue(kind, y)
    BY <1>0, <1>5, <2>2, <2>3 DEF IsValue
  <2>5. kind # "Counter" /\ kind # "Gauge" /\ kind # "Rate" /\ Effective(kind, u)
    BY <1>0, <1>5 DEF Effective
  <2>6. Apply(kind, x, u) = x (+) SetToBag({u.value.n}) /\ IsValue(kind, Apply(kind, x, u))
    BY <2>1, <2>4, Zenon DEF y
  <2> QED
    BY <2>5, <2>6, Zenon DEF Applied
<1> QED
  BY <1>1, <1>2, <1>3, <1>4, <1>5 DEF Kinds

LEMMA ZeroIs ==
    ASSUME NEW kind \in Kinds
    PROVE  /\ IsValue(kind, Zero(kind))
           /\ kind \in {"Counter", "Gauge"} => Zero(kind) = 0
           /\ kind = "Rate" => Zero(kind) = [total |-> 0, hits |-> 0]
           /\ kind = "Histogram" => Zero(kind) = EmptyBag
<1>1. CASE kind = "Histogram"
  <2>1. Zero(kind) = EmptyBag
    BY <1>1, Zenon DEF Zero
  <2> QED
    BY <1>1, <2>1, NoBag DEF IsValue
<1>2. CASE kind = "Rate"
  BY <1>2 DEF Zero, IsValue
<1>3. CASE kind \in {"Counter", "Gauge"}
  BY <1>3 DEF Zero, IsValue
<1> QED
  BY <1>1, <1>2, <1>3 DEF Kinds

-----------------------------------------------------------------------------
(* Types: TInv holds. *)

LEMMA TInit == RecordInit => TInv
<1> SUFFICES ASSUME RecordInit PROVE TInv
  OBVIOUS
<1> USE DEF RecordInit
<1>1. PhasesOK
  BY DEF PhasesOK
<1>2. IsIds(ids)
  <2>1. ids = <<"scenario">> \/ ids = TagKeys
    OBVIOUS
  <2>2. IsIds(<<"scenario">>)
    BY DEF IsIds, ToSet
  <2>3. IsIds(TagKeys)
    BY DEF IsIds, ToSet, TagKeys
  <2> QED
    BY <2>1, <2>2, <2>3
<1>3. KindsOK
  BY DEF KindsOK, Builtin, Kinds
<1>4. SeriesOK
  BY FS_EmptySet DEF SeriesOK
<1>5. TodoOK
  BY DEF TodoOK, Separate, ToSet
<1>6. HandlesOK
  BY DEF HandlesOK
<1>7. CountsOK
  BY PlanFacts DEF CountsOK
<1>8. GroupsOK
  BY DEF GroupsOK, Around, ToSet
<1>9. LogOK
  BY NoBag DEF LogOK
<1> QED
  BY <1>1, <1>2, <1>3, <1>4, <1>5, <1>6, <1>7, <1>8, <1>9 DEF TInv
\* The kinds of registered metrics stay.
KindsGrow ==
    /\ DOMAIN kinds \subseteq DOMAIN kinds'
    /\ \A m \in DOMAIN kinds : kinds'[m] = kinds[m]

\* VU v begins with the updates us of a call that is logged as e; those that their
\* series will take are those that count.
Begins(v, us, e) ==
    /\ phase[v] = "script" /\ phase' = [phase EXCEPT ![v] = "find"]
    /\ todo' = [todo EXCEPT ![v] = us]
    /\ log' = log (+) SetToBag({e})
    /\ KindsOK' /\ KindsGrow
    /\ Faithful(us, e) /\ IsEntry(e)'
    /\ \A u \in ToSet(us) : u.metric \in DOMAIN kinds'
    /\ \A u \in ToSet(us) : Counts(e, KeyOf(u))' <=> Effective(kinds'[u.metric], u)
    /\ UNCHANGED <<plan, ids, values, detached, raced, group, saved, nested, live>>

\* Updates of the runner's own metrics always have the right kind.
LEMMA RunnerCounts ==
    ASSUME KindsOK, NEW us, NEW e, Faithful(us, e), e.call.op # "add",
           NEW u \in ToSet(us), OfRunner(u)
    PROVE  /\ u.metric \in DOMAIN kinds
           /\ Counts(e, KeyOf(u)) <=> Effective(kinds[u.metric], u)
<1>1. ValueAt(e, KeyOf(u)) = u.value.n /\ u.value.n \in Nat
  BY FaithfulAt, Zenon DEF OfRunner
<1>2. u.metric \in DOMAIN kinds /\ kinds[u.metric] = u.kind
  BY DEF KindsOK, OfRunner
<1>3. u.kind \in {"Counter", "Histogram"} /\ u.value.t = "integer"
  BY BuiltinIs DEF OfRunner
<1>4. Valid(u)
  BY <1>1, <1>3 DEF Valid
<1>5. KeyOf(u)[1] = u.metric
  BY DEF KeyOf
<1> QED
  BY <1>1, <1>2, <1>4, <1>5, Zenon DEF Counts, Effective

LEMMA CallBegins ==
    ASSUME TInv, NEW v \in VuIds, NEW c \in plan.menu, ScriptCall(v, c)
    PROVE  \E us, e : Begins(v, us, e)
<1>a. PICK e : e = Entry(v, c)
  OBVIOUS
<1>b. PICK us : us = Updates(plan.scenario[v], c, group[v])
  OBVIOUS
<1>1. IsCall(c)
  BY PlanFacts DEF TInv, PhasesOK
<1>2. e = Of(plan.scenario[v], group[v], c)
  BY <1>a DEF Entry, Of, TInv, GroupsOK, Around, Innermost
<1>3. /\ Faithful(us, e)
      /\ c.op # "add" => \A u \in ToSet(us) : OfRunner(u)
      /\ c.op = "add" => \A u \in ToSet(us) : /\ u.metric = c.metric /\ u.kind = c.kind
                                              /\ u.value = c.value
  BY <1>1, <1>2, <1>b, UpdatesFaithful
<1>4. e.call = c /\ e = Of(e.scenario, e.group, e.call)
  BY <1>2 DEF Of
<1>5. kinds' = IF c.op = "add" /\ c.metric \notin DOMAIN kinds
               THEN With(kinds, c.metric, c.kind) ELSE kinds
  BY DEF ScriptCall
<1>6. c.op = "add" => c.kind \in Kinds
  BY <1>1 DEF IsCall, IsRequest, IsCheck, IsAdd
<1>7. KindsOK' /\ KindsGrow /\ (c.op = "add" => c.metric \in DOMAIN kinds')
  <2>1. CASE c.op = "add" /\ c.metric \notin DOMAIN kinds
    <3>1. kinds' = [z \in DOMAIN kinds \union {c.metric} |-> IF z = c.metric THEN c.kind ELSE kinds[z]]
      BY <1>5, <2>1 DEF With
    <3> QED
      BY <1>6, <2>1, <3>1 DEF TInv, KindsOK, KindsGrow
  <2>2. CASE ~(c.op = "add" /\ c.metric \notin DOMAIN kinds)
    <3>1. kinds' = kinds
      BY <1>5, <2>2
    <3> QED
      BY <2>2, <3>1 DEF TInv, KindsOK, KindsGrow
  <2> QED
    BY <2>1, <2>2
<1>8. \A u \in ToSet(us) : /\ u.metric \in DOMAIN kinds'
                           /\ Counts(e, KeyOf(u))' <=> Effective(kinds'[u.metric], u)
  <2>1. CASE c.op = "add"
    <3> SUFFICES ASSUME NEW u \in ToSet(us)
                 PROVE  /\ u.metric \in DOMAIN kinds'
                        /\ Counts(e, KeyOf(u))' <=> Effective(kinds'[u.metric], u)
      OBVIOUS
    <3>1. ValueAt(e, KeyOf(u)) = u.value.n
      BY <1>3, FaithfulAt, Zenon
    <3>2. u.metric = c.metric /\ u.kind = c.kind /\ u.value = c.value
      BY <1>3, <2>1
    <3>3. Valid(u) <=> Valid(e.call)
      BY <1>4, <3>2, Zenon DEF Valid
    <3>4. KeyOf(u)[1] = u.metric
      BY DEF KeyOf
    <3>5. u.metric \in DOMAIN kinds'
      BY <1>7, <2>1, <3>2
    <3>6. Counts(e, KeyOf(u))' <=>
             /\ u.kind = kinds'[u.metric] /\ Valid(u)
             /\ kinds'[u.metric] = "Histogram" => u.value.n <= HistogramMax
      BY <1>4, <2>1, <3>1, <3>2, <3>3, <3>4, Zenon DEF Counts
    <3> QED
      BY <3>5, <3>6, Zenon DEF Effective
  <2>2. CASE c.op # "add"
    <3>1. kinds' = kinds
      BY <1>5, <2>2
    <3>2. \A u \in ToSet(us) : /\ u.metric \in DOMAIN kinds
                               /\ Counts(e, KeyOf(u)) <=> Effective(kinds[u.metric], u)
      BY <1>3, <1>4, <2>2, RunnerCounts DEF TInv
    <3> QED
      BY <3>1, <3>2 DEF Counts
  <2> QED
    BY <2>1, <2>2
<1>9. IsEntry(e)'
  BY <1>1, <1>4, <1>7 DEF IsEntry
<1>10. /\ phase[v] = "script" /\ phase' = [phase EXCEPT ![v] = "find"]
       /\ todo' = [todo EXCEPT ![v] = us]
       /\ log' = log (+) SetToBag({e})
       /\ UNCHANGED <<plan, ids, values, detached, raced, group, saved, nested, live>>
  BY <1>a, <1>b, Zenon DEF ScriptCall, Scripted, Become, Logged
<1>11. Begins(v, us, e)
  BY <1>3, <1>7, <1>8, <1>9, <1>10, Zenon DEF Begins
<1> QED
  BY <1>11

LEMMA IterationBegins ==
    ASSUME TInv, NEW v \in VuIds, NEW success \in BOOLEAN, EndIteration(v, success)
    PROVE  \E us, e : Begins(v, us, e)
<1> DEFINE c == [op |-> "iteration", success |-> success]
<1>a. PICK e : e = Entry(v, c)
  OBVIOUS
<1>b. PICK us : us = RecordIteration(plan.scenario[v], success, 0)
  OBVIOUS
<1>1. e = Of(plan.scenario[v], group[v], c)
  BY <1>a DEF Entry, Of, TInv, GroupsOK, Around, Innermost
<1>2. Faithful(us, e) /\ \A u \in ToSet(us) : OfRunner(u)
  BY <1>1, <1>b, IterationFaithful, Zenon
<1>3. e.call = c /\ e = Of(e.scenario, e.group, e.call)
  BY <1>1 DEF Of
<1>4. c.op = "iteration" /\ IsIteration(c)
  BY DEF IsIteration
<1>5. kinds' = kinds
  BY DEF EndIteration, metrics
<1>6. /\ phase[v] = "script" /\ phase' = [phase EXCEPT ![v] = "find"]
      /\ todo' = [todo EXCEPT ![v] = us]
      /\ log' = log (+) SetToBag({e})
      /\ UNCHANGED <<plan, ids, values, detached, raced, group, saved, nested, live>>
  BY <1>a, <1>b, Zenon DEF EndIteration, Become, Logged, metrics
<1> HIDE DEF c
<1>7. KindsOK' /\ KindsGrow
  BY <1>5 DEF TInv, KindsOK, KindsGrow
<1>8. \A u \in ToSet(us) : /\ u.metric \in DOMAIN kinds
                           /\ Counts(e, KeyOf(u)) <=> Effective(kinds[u.metric], u)
  <2>1. e.call.op # "add"
    BY <1>3, <1>4
  <2> QED
    BY <1>2, <2>1, RunnerCounts DEF TInv
<1>9. \A u \in ToSet(us) : /\ u.metric \in DOMAIN kinds'
                           /\ Counts(e, KeyOf(u))' <=> Effective(kinds'[u.metric], u)
  BY <1>5, <1>8 DEF Counts
<1>10. IsEntry(e)'
  BY <1>3, <1>4 DEF IsEntry
<1>11. Begins(v, us, e)
  BY <1>2, <1>6, <1>7, <1>9, <1>10, Zenon DEF Begins
<1> QED
  BY <1>11
LEMMA BeginsTypes ==
    ASSUME TInv, NEW v \in VuIds, NEW us, NEW e, Begins(v, us, e), CountsOK'
    PROVE  TInv'
<1>1. /\ phase[v] = "script" /\ phase' = [phase EXCEPT ![v] = "find"]
      /\ todo' = [todo EXCEPT ![v] = us]
      /\ log' = log (+) SetToBag({e})
      /\ KindsOK' /\ KindsGrow
      /\ UNCHANGED <<plan, ids, values, detached, raced, group, saved, nested, live>>
  BY DEF Begins
<1>2. PhasesOK'
  BY <1>1 DEF TInv, PhasesOK
<1>3. IsIds(ids)'
  BY <1>1 DEF TInv
<1>4. SeriesOK'
  <2>1. ASSUME NEW p \in DOMAIN values PROVE (IsSeries(p) /\ IsValue(kinds[p[1]], values[p]))'
    <3>1. IsSeries(p) /\ IsValue(kinds[p[1]], values[p]) /\ p[1] \in DOMAIN kinds
      BY DEF TInv, SeriesOK, IsSeries
    <3>2. p[1] \in DOMAIN kinds' /\ kinds'[p[1]] = kinds[p[1]]
      BY <1>1, <3>1 DEF KindsGrow
    <3> QED
      BY <1>1, <3>1, <3>2 DEF IsSeries
  <2> QED
    BY <1>1, <2>1 DEF TInv, SeriesOK
<1>5. TodoOK'
  <2>1. DOMAIN todo' = VuIds
    BY <1>1 DEF TInv, TodoOK
  <2>2. Separate(us) /\ us # <<>> /\ \A i \in DOMAIN us : us[i].metric \in DOMAIN kinds'
    BY DEF Begins, Faithful, Separate, ToSet
  <2>3. ASSUME NEW w \in VuIds
        PROVE  /\ Separate(todo'[w])
               /\ \A i \in DOMAIN todo'[w] : todo'[w][i].metric \in DOMAIN kinds'
               /\ (todo'[w] = <<>>) = (phase'[w] \in {"script", "done"})
    <3>1. CASE w = v
      <4>1. todo'[w] = us /\ phase'[w] = "find"
        BY <1>1, <3>1 DEF TInv, TodoOK, PhasesOK
      <4> QED
        BY <2>2, <4>1
    <3>2. CASE w # v
      <4>1. todo'[w] = todo[w] /\ phase'[w] = phase[w]
        BY <1>1, <3>2 DEF TInv, TodoOK, PhasesOK
      <4> QED
        BY <1>1, <4>1 DEF TInv, TodoOK, KindsGrow
    <3> QED
      BY <3>1, <3>2
  <2> QED
    BY <2>1, <2>3 DEF TodoOK
<1>6. HandlesOK'
  <2>1. ASSUME NEW w \in VuIds, phase'[w] \in {"make", "apply"}
        PROVE  w # v /\ phase'[w] = phase[w] /\ todo'[w] = todo[w]
    BY <1>1, <2>1 DEF TInv, TodoOK, PhasesOK
  <2> QED
    BY <1>1, <2>1 DEF TInv, HandlesOK, SeriesAt
<1>7. GroupsOK'
  BY <1>1 DEF TInv, GroupsOK
<1>8. LogOK'
  <2>1. IsBag(log) /\ \A f \in DOMAIN log : IsEntry(f)
    BY DEF TInv, LogOK
  <2>2. IsBag(log') /\ DOMAIN log' = DOMAIN log \union {e}
    BY <1>1, <2>1, BagMore
  <2>3. IsEntry(e)'
    BY DEF Begins
  <2>4. \A f \in DOMAIN log : IsEntry(f)'
    BY <1>1, <2>1 DEF IsEntry, KindsGrow
  <2> QED
    BY <2>2, <2>3, <2>4 DEF LogOK, IsBag
<1> QED
  BY <1>1, <1>2, <1>3, <1>4, <1>5, <1>6, <1>7, <1>8 DEF TInv

LEMMA ScriptedCounts ==
    ASSUME TInv, NEW v \in VuIds, Scripted(v), UNCHANGED <<plan, ticks>>
    PROVE  CountsOK'
<1>1. v \in DOMAIN plan.scenario /\ plan.calls[v] \in Nat
  BY PlanFacts DEF TInv, PhasesOK, Scripted
<1> QED
  BY <1>1 DEF TInv, CountsOK, Scripted

LEMMA AppendFacts ==
    ASSUME NEW s, s \in Seq(ToSet(s)), NEW x
    PROVE  /\ Append(s, x) \in Seq(ToSet(Append(s, x)))
           /\ Len(s) \in Nat /\ Len(Append(s, x)) = Len(s) + 1
           /\ \A i \in 1 .. Len(s) : Append(s, x)[i] = s[i]
           /\ Append(s, x)[Len(s) + 1] = x
           /\ Append(s, x) # <<>>
<1> DEFINE R == ToSet(s) \union {x}
           c == Append(s, x)
<1>1. s \in Seq(R) /\ x \in R
  <2>1. \A i \in 1 .. Len(s) : s[i] \in R
    BY DEF ToSet
  <2> QED
    BY <2>1, SeqIn, Zenon
<1> HIDE DEF R
<1>2. /\ c \in Seq(R) /\ Len(s) \in Nat /\ Len(c) = Len(s) + 1 /\ c[Len(s) + 1] = x
      /\ \A i \in 1 .. Len(s) : c[i] = s[i]
  BY <1>1
<1> HIDE DEF c
<1>3. c # <<>> /\ \A i \in 1 .. Len(c) : c[i] \in ToSet(c)
  BY <1>2 DEF ToSet
<1>4. c \in Seq(ToSet(c))
  BY <1>2, <1>3, SeqIn, Zenon
<1> QED
  BY <1>2, <1>3, <1>4 DEF c

LEMMA FrontFacts ==
    ASSUME NEW s, s \in Seq(ToSet(s)), s # <<>>
    PROVE  /\ Front(s) \in Seq(ToSet(Front(s)))
           /\ Len(s) \in Nat \ {0} /\ Len(Front(s)) = Len(s) - 1
           /\ \A i \in 1 .. Len(s) - 1 : Front(s)[i] = s[i]
           /\ Front(s) = <<>> <=> Len(s) = 1
<1> DEFINE c == Front(s)
<1>0. Len(s) \in Nat \ {0}
  OBVIOUS
<1>1. /\ c \in Seq(ToSet(s)) /\ Len(s) \in Nat \ {0} /\ Len(c) = Len(s) - 1
      /\ \A i \in 1 .. Len(s) - 1 : c[i] = s[i]
  <2>1. c = [i \in 1 .. Len(s) - 1 |-> s[i]]
    BY <1>0 DEF Front, SubSeq
  <2>2. \A i \in 1 .. Len(s) - 1 : s[i] \in ToSet(s)
    BY <1>0 DEF ToSet
  <2> QED
    BY <1>0, <2>1, <2>2
<1> HIDE DEF c
<1>2. \A i \in 1 .. Len(c) : c[i] \in ToSet(c)
  BY <1>1 DEF ToSet
<1>3. c \in Seq(ToSet(c))
  BY <1>1, <1>2, SeqIn, Zenon
<1>4. c = <<>> <=> Len(c) = 0
  BY <1>1
<1> QED
  BY <1>1, <1>3, <1>4 DEF c

LEMMA AroundEnter ==
    ASSUME NEW s, NEW n, NEW g, Around(s, n, g), NEW h
    PROVE  Around(Append(s, g), Append(n, h), h)
<1> DEFINE s2 == Append(s, g)  n2 == Append(n, h)
<1>0. /\ s \in Seq(ToSet(s)) /\ n \in Seq(ToSet(n)) /\ Len(s) = Len(n)
      /\ g = IF n = <<>> THEN NoGroup ELSE Last(n)
      /\ \A i \in 1 .. Len(s) : s[i] = IF i = 1 THEN NoGroup ELSE n[i - 1]
  BY DEF Around
<1>1. /\ s2 \in Seq(ToSet(s2)) /\ Len(s) \in Nat /\ Len(s2) = Len(s) + 1
      /\ \A i \in 1 .. Len(s) : s2[i] = s[i]
      /\ s2[Len(s) + 1] = g
  BY <1>0, AppendFacts
<1>2. /\ n2 \in Seq(ToSet(n2)) /\ Len(n2) = Len(n) + 1
      /\ \A i \in 1 .. Len(n) : n2[i] = n[i]
      /\ n2[Len(n) + 1] = h /\ n2 # <<>>
  <2>1. n \in Seq(ToSet(n))
    BY <1>0
  <2> QED
    BY <2>1, AppendFacts
<1>3. n = <<>> <=> Len(n) = 0
  BY <1>0
<1> HIDE DEF s2, n2
<1>4. Last(n2) = h /\ Last(n) = n[Len(n)]
  BY <1>2 DEF Last
<1>5. ASSUME NEW i \in 1 .. Len(s2) PROVE s2[i] = IF i = 1 THEN NoGroup ELSE n2[i - 1]
  <2>1. CASE i = Len(s) + 1
    BY <1>0, <1>1, <1>2, <1>3, <1>4, <2>1
  <2>2. CASE i # Len(s) + 1
    <3>1. i \in 1 .. Len(s) /\ (i # 1 => i - 1 \in 1 .. Len(n))
      BY <1>0, <1>1, <2>2
    <3> QED
      BY <1>0, <1>1, <1>2, <3>1
  <2> QED
    BY <2>1, <2>2
<1> QED
  BY <1>0, <1>1, <1>2, <1>4, <1>5 DEF Around, s2, n2

LEMMA AroundLeave ==
    ASSUME NEW s, NEW n, NEW g, Around(s, n, g), s # <<>>
    PROVE  Around(Front(s), Front(n), Last(s))
<1> DEFINE s2 == Front(s)  n2 == Front(n)
<1>0. /\ s \in Seq(ToSet(s)) /\ n \in Seq(ToSet(n)) /\ Len(s) = Len(n)
      /\ \A i \in 1 .. Len(s) : s[i] = IF i = 1 THEN NoGroup ELSE n[i - 1]
  BY DEF Around
<1>1. /\ s2 \in Seq(ToSet(s2)) /\ Len(s) \in Nat \ {0} /\ Len(s2) = Len(s) - 1
      /\ \A i \in 1 .. Len(s) - 1 : s2[i] = s[i]
  BY <1>0, FrontFacts
<1>2. n # <<>>
  <2>1. n = <<>> => Len(n) = 0
    BY <1>0
  <2> QED
    BY <1>0, <1>1, <2>1
<1>3. /\ n2 \in Seq(ToSet(n2)) /\ Len(n2) = Len(n) - 1
      /\ \A i \in 1 .. Len(n) - 1 : n2[i] = n[i]
      /\ n2 = <<>> <=> Len(n) = 1
  BY <1>0, <1>2, FrontFacts
<1> HIDE DEF s2, n2
<1>4. Last(s) = s[Len(s)] /\ Last(n2) = n2[Len(n2)]
  BY DEF Last
<1>5. Last(s) = IF n2 = <<>> THEN NoGroup ELSE Last(n2)
  BY <1>0, <1>1, <1>3, <1>4
<1>6. ASSUME NEW i \in 1 .. Len(s2) PROVE s2[i] = IF i = 1 THEN NoGroup ELSE n2[i - 1]
  <2>1. i \in 1 .. Len(s) /\ i \in 1 .. Len(s) - 1 /\ (i # 1 => i - 1 \in 1 .. Len(n) - 1)
    BY <1>0, <1>1
  <2> QED
    BY <1>0, <1>1, <1>3, <2>1
<1> QED
  BY <1>0, <1>1, <1>3, <1>5, <1>6 DEF Around, s2, n2

LEMMA GroupTypes ==
    ASSUME TInv, NEW v \in VuIds, NEW g, EnterGroup(v, g) \/ LeaveGroup(v)
    PROVE  TInv'
<1>1. UNCHANGED <<plan, metrics, phase, todo, live, log>>
  BY DEF EnterGroup, LeaveGroup
<1>2. UNCHANGED <<plan, ids, kinds, values, detached, raced, phase, todo, ticks, left, read, log>>
  BY <1>1 DEF metrics, live
<1>3. /\ PhasesOK' /\ IsIds(ids)' /\ KindsOK' /\ SeriesOK'
  BY <1>2 DEF TInv, PhasesOK, IsIds, KindsOK, SeriesOK, IsSeries
<1>4. TodoOK' /\ HandlesOK' /\ LogOK'
  BY <1>2 DEF TInv, TodoOK, HandlesOK, SeriesAt, LogOK, IsEntry
<1>5. CASE EnterGroup(v, g)
  <2>1. CountsOK'
    BY <1>2, <1>5, ScriptedCounts DEF EnterGroup
  <2>2. /\ saved' = [saved EXCEPT ![v] = Append(saved[v], group[v])]
        /\ group' = [group EXCEPT ![v] = g]
        /\ nested' = [nested EXCEPT ![v] = Append(nested[v], g)]
    BY <1>5 DEF EnterGroup
  <2>3. Around(Append(saved[v], group[v]), Append(nested[v], g), g)
    BY AroundEnter DEF TInv, GroupsOK
  <2>4. GroupsOK'
    BY <2>2, <2>3 DEF TInv, GroupsOK
  <2> QED
    BY <1>3, <1>4, <2>1, <2>4 DEF TInv
<1>6. CASE LeaveGroup(v)
  <2>1. CountsOK'
    BY <1>2, <1>6 DEF TInv, CountsOK, LeaveGroup
  <2>2. /\ saved' = [saved EXCEPT ![v] = Front(saved[v])]
        /\ group' = [group EXCEPT ![v] = Last(saved[v])]
        /\ nested' = [nested EXCEPT ![v] = Front(nested[v])]
        /\ saved[v] # <<>>
    BY <1>6 DEF LeaveGroup
  <2>3. Around(Front(saved[v]), Front(nested[v]), Last(saved[v]))
    BY <2>2, AroundLeave DEF TInv, GroupsOK
  <2>4. GroupsOK'
    BY <2>2, <2>3 DEF TInv, GroupsOK
  <2> QED
    BY <1>3, <1>4, <2>1, <2>4 DEF TInv
<1> QED
  BY <1>5, <1>6
\* The update that a VU is at.
LEMMA HeadFacts ==
    ASSUME TInv, NEW v \in VuIds, phase[v] \in {"find", "make", "apply"}
    PROVE  /\ todo[v] # <<>> /\ Separate(todo[v])
           /\ Head(todo[v]) = todo[v][1] /\ 1 \in DOMAIN todo[v]
           /\ IsUpdate(Head(todo[v])) /\ Head(todo[v]).metric \in DOMAIN kinds
           /\ SeriesAt(v) = <<Head(todo[v]).metric, ToSet(Head(todo[v]).tags)>>
           /\ SeriesAt(v)[1] = Head(todo[v]).metric /\ SeriesAt(v)[2] = ToSet(Head(todo[v]).tags)
           /\ IsTagSet(ToSet(Head(todo[v]).tags))
           /\ KeysIn(ToSet(Head(todo[v]).tags)) = KeysOf(Head(todo[v]).tags)
<1>1. todo[v] # <<>> /\ Separate(todo[v])
  BY DEF TInv, TodoOK
<1>2. Head(todo[v]) = todo[v][1] /\ 1 \in DOMAIN todo[v] /\ IsUpdate(Head(todo[v]))
  BY <1>1, SeparateTail
<1>3. Head(todo[v]).metric \in DOMAIN kinds
  BY <1>2 DEF TInv, TodoOK
<1>4. IsTags(Head(todo[v]).tags)
  BY <1>2 DEF IsUpdate
<1>5. IsTagSet(ToSet(Head(todo[v]).tags)) /\ KeysIn(ToSet(Head(todo[v]).tags)) = KeysOf(Head(todo[v]).tags)
  BY <1>4, TagsFacts DEF KeysIn
<1> QED
  BY <1>1, <1>2, <1>3, <1>5 DEF SeriesAt, KeyOf

LEMMA GetHandleTypes ==
    ASSUME TInv, NEW v \in VuIds, GetHandle(v)
    PROVE  TInv'
<1> DEFINE u == Head(todo[v])
           to == IF SeriesAt(v) \in DOMAIN values THEN "apply" ELSE "make"
<1>1. /\ phase[v] = "find" /\ ids' = InternKeys(ids, u.tags)
      /\ phase' = [phase EXCEPT ![v] = to]
      /\ UNCHANGED <<plan, kinds, values, detached, raced, todo, group, saved, made, nested, log,
                     ticks, left, read>>
  BY DEF GetHandle, Become, script, live
<1>2. IsUpdate(u) /\ IsTags(u.tags)
  BY <1>1, HeadFacts DEF IsUpdate
<1>3. IsIds(ids') /\ ToSet(ids') = ToSet(ids) \union KeysOf(u.tags)
  <2>1. IsIds(ids)
    BY DEF TInv
  <2> QED
    BY <1>1, <1>2, <2>1, InternFacts, Zenon
<1> HIDE DEF u
<1>4. IsIds(ids)'
  BY <1>3 DEF IsIds
<1>5. PhasesOK'
  BY <1>1 DEF TInv, PhasesOK
<1>6. SeriesOK'
  <2>1. ToSet(ids)' = ToSet(ids')
    BY DEF ToSet
  <2> QED
    BY <1>1, <1>3, <2>1 DEF TInv, SeriesOK, IsSeries
<1>7. TodoOK'
  BY <1>1 DEF TInv, TodoOK, PhasesOK
<1>8. HandlesOK'
  <2>1. ToSet(ids)' = ToSet(ids')
    BY DEF ToSet
  <2>2. ASSUME NEW w \in VuIds
        PROVE  /\ phase'[w] \in {"make", "apply"} => KeysOf(Head(todo[w]).tags) \subseteq ToSet(ids')
               /\ phase'[w] = "apply" => SeriesAt(w) \in DOMAIN values
    <3>1. CASE w = v
      BY <1>1, <1>3, <3>1 DEF u, TInv, PhasesOK
    <3>2. CASE w # v
      BY <1>1, <1>3, <3>2 DEF TInv, PhasesOK, HandlesOK
    <3> QED
      BY <3>1, <3>2
  <2> QED
    BY <1>1, <2>1, <2>2 DEF HandlesOK, SeriesAt
<1>9. CountsOK' /\ GroupsOK' /\ LogOK' /\ KindsOK'
  BY <1>1 DEF TInv, CountsOK, GroupsOK, LogOK, IsEntry, KindsOK
<1> QED
  BY <1>4, <1>5, <1>6, <1>7, <1>8, <1>9 DEF TInv

LEMMA InsertTypes ==
    ASSUME TInv, NEW v \in VuIds, InsertSeries(v)
    PROVE  TInv'
<1>0. PICK p : p = SeriesAt(v)
  OBVIOUS
<1>1. /\ phase[v] = "make" /\ raced' = (raced \/ p \in DOMAIN values)
      /\ values' = With(values, p, Zero(kinds[p[1]]))
      /\ detached' = detached \union {w \in VuIds : phase[w] = "apply" /\ SeriesAt(w) = p}
      /\ phase' = [phase EXCEPT ![v] = "apply"]
      /\ UNCHANGED <<plan, ids, kinds, todo, group, saved, made, nested, log, ticks, left, read>>
  BY <1>0 DEF InsertSeries, Become, script, live
<1>2. /\ p[1] \in DOMAIN kinds /\ IsTagSet(p[2]) /\ KeysIn(p[2]) \subseteq ToSet(ids)
  <2>1. /\ Head(todo[v]).metric \in DOMAIN kinds
        /\ p[1] = Head(todo[v]).metric /\ p[2] = ToSet(Head(todo[v]).tags)
        /\ IsTagSet(ToSet(Head(todo[v]).tags))
        /\ KeysIn(ToSet(Head(todo[v]).tags)) = KeysOf(Head(todo[v]).tags)
    BY <1>0, <1>1, HeadFacts
  <2>2. KeysOf(Head(todo[v]).tags) \subseteq ToSet(ids)
    BY <1>1 DEF TInv, HandlesOK
  <2> QED
    BY <2>1, <2>2
<1>3. PhasesOK'
  <2>1. ~raced' => detached' = {}
    <3>1. ASSUME ~raced', NEW w \in VuIds, phase[w] = "apply" PROVE SeriesAt(w) # p
      BY <1>1, <3>1 DEF TInv, HandlesOK
    <3>2. ~raced' => detached = {}
      BY <1>1 DEF TInv, PhasesOK
    <3> QED
      BY <1>1, <3>1, <3>2
  <2>2. v \in DOMAIN plan.scenario
    BY <1>1 DEF TInv, PhasesOK
  <2> QED
    BY <1>1, <2>1, <2>2 DEF TInv, PhasesOK
<1>4. /\ values' = [z \in DOMAIN values \union {p} |-> IF z = p THEN Zero(kinds[p[1]]) ELSE values[z]]
  BY <1>1 DEF With
<1>5. IsValue(kinds[p[1]], Zero(kinds[p[1]]))
  BY <1>2, ZeroIs DEF TInv, KindsOK
<1>6. SeriesOK'
  <2>1. IsFiniteSet(DOMAIN values')
    BY <1>4, FS_AddElement DEF TInv, SeriesOK
  <2>2. ASSUME NEW z \in DOMAIN values' PROVE IsSeries(z)' /\ IsValue(kinds[z[1]], values'[z])
    <3>1. CASE z = p
      BY <1>1, <1>2, <1>4, <1>5, <3>1 DEF IsSeries
    <3>2. CASE z # p
      BY <1>1, <1>4, <3>2 DEF IsSeries, TInv, SeriesOK
    <3> QED
      BY <3>1, <3>2
  <2>3. values' = [z \in DOMAIN values' |-> values'[z]]
    BY <1>4
  <2> QED
    BY <1>1, <2>1, <2>2, <2>3 DEF SeriesOK
<1>7. TodoOK'
  BY <1>1 DEF TInv, TodoOK, PhasesOK
<1>8. HandlesOK'
  <2>1. ASSUME NEW w \in VuIds
        PROVE  /\ phase'[w] \in {"make", "apply"} => KeysOf(Head(todo[w]).tags) \subseteq ToSet(ids)
               /\ phase'[w] = "apply" => SeriesAt(w) \in DOMAIN values'
    <3>1. CASE w = v
      BY <1>0, <1>1, <1>4, <3>1 DEF TInv, PhasesOK, HandlesOK
    <3>2. CASE w # v
      BY <1>1, <1>4, <3>2 DEF TInv, PhasesOK, HandlesOK
    <3> QED
      BY <3>1, <3>2
  <2> QED
    BY <1>1, <2>1 DEF HandlesOK, SeriesAt
<1>9. CountsOK' /\ GroupsOK' /\ LogOK' /\ KindsOK' /\ IsIds(ids)'
  BY <1>1 DEF TInv, CountsOK, GroupsOK, LogOK, IsEntry, KindsOK
<1> QED
  BY <1>3, <1>6, <1>7, <1>8, <1>9 DEF TInv

LEMMA ApplyTypes ==
    ASSUME TInv, NEW v \in VuIds, ApplyTo(v)
    PROVE  TInv'
<1>0. PICK u, p : u = Head(todo[v]) /\ p = SeriesAt(v)
  OBVIOUS
<1> DEFINE to == IF Len(todo[v]) > 1 THEN "find"
                 ELSE IF u.metric = "iteration_duration" THEN "done" ELSE "script"
<1>1. /\ phase[v] = "apply"
      /\ values' = IF v \in detached THEN values
                   ELSE [values EXCEPT ![p] = Apply(kinds[u.metric], values[p], u)]
      /\ detached' = detached \ {v}
      /\ todo' = [todo EXCEPT ![v] = Tail(todo[v])]
      /\ phase' = [phase EXCEPT ![v] = to]
      /\ UNCHANGED <<plan, ids, kinds, raced, group, saved, made, nested, log, ticks, left, read>>
  BY <1>0 DEF ApplyTo, Become, script, live
<1>2. /\ todo[v] # <<>> /\ Separate(todo[v]) /\ IsUpdate(u) /\ u.metric \in DOMAIN kinds
      /\ p[1] = u.metric /\ p \in DOMAIN values
  <2>1. p \in DOMAIN values
    BY <1>0, <1>1 DEF TInv, HandlesOK
  <2> QED
    BY <1>0, <1>1, <2>1, HeadFacts
<1>3. /\ Separate(Tail(todo[v]))
      /\ \A i \in DOMAIN Tail(todo[v]) : i + 1 \in DOMAIN todo[v] /\ Tail(todo[v])[i] = todo[v][i + 1]
      /\ Tail(todo[v]) = <<>> <=> ~(Len(todo[v]) > 1)
  BY <1>2, SeparateTail, Zenon
<1>4. PhasesOK'
  <2>1. v \in DOMAIN plan.scenario
    BY <1>1 DEF TInv, PhasesOK
  <2> QED
    BY <1>1, <2>1 DEF TInv, PhasesOK
<1>5. SeriesOK'
  <2>1. CASE v \in detached
    BY <1>1, <2>1 DEF TInv, SeriesOK, IsSeries
  <2>2. CASE v \notin detached
    <3> DEFINE x == Apply(kinds[u.metric], values[p], u)
    <3>1. IsValue(kinds[p[1]], x)
      BY <1>2, ApplyIs DEF TInv, SeriesOK, KindsOK
    <3> HIDE DEF x
    <3>2. values' = [values EXCEPT ![p] = x]
      BY <1>1, <2>2 DEF x
    <3>3. DOMAIN values' = DOMAIN values /\ values' = [z \in DOMAIN values' |-> values'[z]]
      BY <3>2 DEF TInv, SeriesOK
    <3>4. ASSUME NEW z \in DOMAIN values PROVE IsSeries(z)' /\ IsValue(kinds[z[1]], values'[z])
      <4>1. CASE z = p
        BY <1>1, <3>1, <3>2, <4>1 DEF IsSeries, TInv, SeriesOK
      <4>2. CASE z # p
        BY <1>1, <3>2, <4>2 DEF IsSeries, TInv, SeriesOK
      <4> QED
        BY <4>1, <4>2
    <3> QED
      BY <1>1, <3>3, <3>4 DEF TInv, SeriesOK
  <2> QED
    BY <2>1, <2>2
<1>6. DOMAIN values' = DOMAIN values
  BY <1>1
<1>7. TodoOK'
  <2>1. DOMAIN todo' = VuIds
    BY <1>1 DEF TInv, TodoOK
  <2>2. ASSUME NEW w \in VuIds
        PROVE  /\ Separate(todo'[w])
               /\ \A i \in DOMAIN todo'[w] : todo'[w][i].metric \in DOMAIN kinds
               /\ (todo'[w] = <<>>) = (phase'[w] \in {"script", "done"})
    <3>1. CASE w = v
      <4>1. todo'[w] = Tail(todo[v]) /\ phase'[w] = to
        BY <1>1, <3>1 DEF TInv, TodoOK, PhasesOK
      <4>2. to \in {"script", "done"} <=> ~(Len(todo[v]) > 1)
        OBVIOUS
      <4>3. \A i \in DOMAIN todo[v] : todo[v][i].metric \in DOMAIN kinds
        BY DEF TInv, TodoOK
      <4> HIDE DEF to
      <4> QED
        BY <1>3, <4>1, <4>2, <4>3
    <3>2. CASE w # v
      <4>1. todo'[w] = todo[w] /\ phase'[w] = phase[w]
        BY <1>1, <3>2 DEF TInv, TodoOK, PhasesOK
      <4> QED
        BY <4>1 DEF TInv, TodoOK
    <3> QED
      BY <3>1, <3>2
  <2> QED
    BY <1>1, <2>1, <2>2 DEF TodoOK
<1>8. HandlesOK'
  <2>1. ASSUME NEW w \in VuIds, phase'[w] \in {"make", "apply"}
        PROVE  w # v /\ phase'[w] = phase[w] /\ todo'[w] = todo[w]
    BY <1>1, <2>1 DEF TInv, TodoOK, PhasesOK
  <2> QED
    BY <1>1, <1>6, <2>1 DEF TInv, HandlesOK, SeriesAt
<1>9. CountsOK' /\ GroupsOK' /\ LogOK' /\ KindsOK' /\ IsIds(ids)'
  BY <1>1 DEF TInv, CountsOK, GroupsOK, LogOK, IsEntry, KindsOK
<1> QED
  BY <1>4, <1>5, <1>7, <1>8, <1>9 DEF TInv

\* Steps that only the progress task takes, and steps of another model.
LEMMA QuietTypes ==
    ASSUME TInv, UNCHANGED <<plan, metrics, phase, todo, script>>, ticks' \in Nat, ticks' <= plan.ticks
    PROVE  TInv'
<1>1. UNCHANGED <<plan, ids, kinds, values, detached, raced, phase, todo, group, saved, made, nested, log>>
  BY DEF metrics, script
<1>2. PhasesOK' /\ IsIds(ids)' /\ KindsOK' /\ SeriesOK'
  BY <1>1 DEF TInv, PhasesOK, KindsOK, SeriesOK, IsSeries
<1>3. TodoOK' /\ HandlesOK' /\ LogOK'
  BY <1>1 DEF TInv, TodoOK, HandlesOK, SeriesAt, LogOK, IsEntry
<1>4. CountsOK' /\ GroupsOK'
  BY <1>1 DEF TInv, CountsOK, GroupsOK
<1> QED
  BY <1>2, <1>3, <1>4 DEF TInv

LEMMA TNext == TInv /\ [RecordNext]_recordVars => TInv'
<1> SUFFICES ASSUME TInv, [RecordNext]_recordVars PROVE TInv'
  OBVIOUS
<1>0. ticks \in Nat /\ ticks <= plan.ticks /\ plan.ticks \in Nat
  BY PlanFacts DEF TInv, PhasesOK, CountsOK
<1>1. ASSUME NEW v \in VuIds, NEW c \in plan.menu, ScriptCall(v, c) PROVE TInv'
  <2>1. CountsOK'
    BY <1>1, ScriptedCounts DEF ScriptCall, live
  <2> QED
    BY <1>1, <2>1, CallBegins, BeginsTypes
<1>2. ASSUME NEW v \in VuIds, NEW g \in plan.groups, EnterGroup(v, g) PROVE TInv'
  BY <1>2, GroupTypes
<1>3. ASSUME NEW v \in VuIds, LeaveGroup(v) PROVE TInv'
  BY <1>3, GroupTypes
<1>4. ASSUME NEW v \in VuIds, NEW success \in BOOLEAN, EndIteration(v, success) PROVE TInv'
  <2>1. CountsOK'
    BY <1>4 DEF EndIteration, live, TInv, CountsOK
  <2> QED
    BY <1>4, <2>1, IterationBegins, BeginsTypes
<1>5. ASSUME NEW v \in VuIds, GetHandle(v) PROVE TInv'
  BY <1>5, GetHandleTypes
<1>6. ASSUME NEW v \in VuIds, InsertSeries(v) PROVE TInv'
  BY <1>6, InsertTypes
<1>7. ASSUME NEW v \in VuIds, ApplyTo(v) PROVE TInv'
  BY <1>7, ApplyTypes
<1>8. CASE BeginTick
  BY <1>0, <1>8, QuietTypes DEF BeginTick
<1>9. CASE ReadQuery
  BY <1>0, <1>9, QuietTypes DEF ReadQuery
<1>10. CASE UNCHANGED recordVars
  BY <1>0, <1>10, QuietTypes DEF recordVars, live
<1> QED
  BY <1>1, <1>2, <1>3, <1>4, <1>5, <1>6, <1>7, <1>8, <1>9, <1>10 DEF RecordNext, RecordStep

LEMMA TypesFollow == TInv => RecordTypeOK
<1> SUFFICES ASSUME TInv PROVE RecordTypeOK
  OBVIOUS
<1>1. plan \in Plans /\ \A i, j \in DOMAIN ids : ids[i] = ids[j] => i = j
  BY DEF TInv, PhasesOK, IsIds
<1>2. \A p \in DOMAIN values :
          /\ p[1] \in DOMAIN kinds
          /\ \A t, u \in p[2] : t[1] = u[1] => t = u
          /\ {t[1] : t \in p[2]} \subseteq ToSet(ids)
  BY DEF TInv, SeriesOK, IsSeries, IsTagSet, KeysIn
<1>3. /\ phase \in [VuIds -> {"script", "find", "make", "apply", "done"}]
      /\ \A v \in VuIds : (todo[v] = <<>>) = (phase[v] \in {"script", "done"})
      /\ \A v \in VuIds : phase[v] = "apply" => SeriesAt(v) \in DOMAIN values
      /\ detached \subseteq {v \in VuIds : phase[v] = "apply"}
  BY DEF TInv, PhasesOK, TodoOK, HandlesOK
<1>4. /\ \A v \in DOMAIN plan.scenario : made[v] \in 0 .. plan.calls[v]
      /\ ticks \in 0 .. plan.ticks
  BY PlanFacts DEF TInv, PhasesOK, CountsOK
<1> QED
  BY <1>1, <1>2, <1>3, <1>4, Zenon DEF RecordTypeOK

\* Recording's variables keep their types: in particular tag sets have one value per
\* key, whatever MergeBaseTags, AddGroup and filter_extra make of the script's tags.
THEOREM RecordTypes == RecordSpec => []RecordTypeOK
<1>1. RecordSpec => []TInv
  BY TInit, TNext, PTL DEF RecordSpec
<1> QED
  BY <1>1, TypesFollow, PTL
-----------------------------------------------------------------------------
(* The books: of what the logged calls give to a series, the VUs still owe *)
(* what is in their updates, and the series has the rest.  A value counts  *)
(* with a weight: itself, one, or one if it is a certain value.            *)

Weights   == [Int -> Int]
Plain     == [n \in Int |-> n]
Unit      == [n \in Int |-> 1]
Single(m) == [n \in Int |-> IF n = m THEN 1 ELSE 0]

\* What is left of a call for series p, of a metric of kind k.
Hits(u, k, p) == KeyOf(u) = p /\ Effective(k, u)
Owes(us, k, w, p) ==
    IF \E i \in DOMAIN us : Hits(us[i], k, p)
    THEN w[us[CHOOSE i \in DOMAIN us : Hits(us[i], k, p)].value.n]
    ELSE 0
Due(w, p) == Sum([v \in VuIds |-> Owes(todo[v], kinds[p[1]], w, p)])

\* What the calls give to p.
Share(e, w, p) == IF p \in Reached(e) /\ Counts(e, p) THEN w[ValueAt(e, p)] ELSE 0
Credit(w, p)   == Sum([e \in DOMAIN log |-> Share(e, w, p) * log[e]])

Balance(w, p) == Credit(w, p) - Due(w, p)

LEMMA OwesIs ==
    ASSUME NEW us, Separate(us), NEW k, NEW w \in Weights, NEW p
    PROVE  /\ Owes(us, k, w, p) \in Int
           /\ \A i \in DOMAIN us : Hits(us[i], k, p) => Owes(us, k, w, p) = w[us[i].value.n]
           /\ (\A i \in DOMAIN us : ~Hits(us[i], k, p)) => Owes(us, k, w, p) = 0
<1>1. CASE \E i \in DOMAIN us : Hits(us[i], k, p)
  <2> DEFINE j == CHOOSE i \in DOMAIN us : Hits(us[i], k, p)
  <2>1. j \in DOMAIN us /\ Hits(us[j], k, p)
    BY <1>1, Zenon
  <2>2. Owes(us, k, w, p) = w[us[j].value.n]
    BY <1>1 DEF Owes
  <2>3. \A i \in DOMAIN us : Hits(us[i], k, p) => i = j
    <3> HIDE DEF j
    <3> QED
      BY <2>1, Zenon DEF Separate, Hits
  <2>4. us[j].value.n \in Int
    BY <2>1 DEF Separate, IsUpdate
  <2> HIDE DEF j
  <2> QED
    BY <1>1, <2>2, <2>3, <2>4 DEF Weights
<1>2. CASE ~\E i \in DOMAIN us : Hits(us[i], k, p)
  BY <1>2 DEF Owes
<1> QED
  BY <1>1, <1>2

LEMMA OwesNothing ==
    ASSUME NEW k, NEW w, NEW p
    PROVE  Owes(<<>>, k, w, p) = 0
BY DEF Owes

LEMMA OwesTail ==
    ASSUME NEW us, Separate(us), us # <<>>, NEW k, NEW w \in Weights, NEW p
    PROVE  Owes(Tail(us), k, w, p) =
               Owes(us, k, w, p) - (IF Hits(Head(us), k, p) THEN w[Head(us).value.n] ELSE 0)
<1> DEFINE t == Tail(us)
<1>1. /\ Separate(t)
      /\ \A i \in DOMAIN t : i + 1 \in DOMAIN us /\ t[i] = us[i + 1] /\ KeyOf(t[i]) # KeyOf(Head(us))
      /\ 1 \in DOMAIN us /\ Head(us) = us[1] /\ IsUpdate(Head(us))
  BY SeparateTail, Zenon
<1>2. \A i \in DOMAIN us : i # 1 => i - 1 \in DOMAIN t /\ t[i - 1] = us[i]
  BY TailFacts, Zenon DEF Separate
<1>3. w[Head(us).value.n] \in Int
  BY <1>1 DEF IsUpdate, Weights
<1> HIDE DEF t
<1>4. CASE Hits(Head(us), k, p)
  <2>1. Owes(us, k, w, p) = w[Head(us).value.n]
    BY <1>1, <1>4, OwesIs
  <2>2. \A i \in DOMAIN t : ~Hits(t[i], k, p)
    BY <1>1, <1>4 DEF Hits
  <2>3. Owes(t, k, w, p) = 0
    BY <1>1, <2>2, OwesIs
  <2> QED
    BY <1>3, <1>4, <2>1, <2>3 DEF t
<1>5. CASE ~Hits(Head(us), k, p)
  <2>1. Owes(us, k, w, p) \in Int /\ Owes(t, k, w, p) \in Int
    BY <1>1, OwesIs
  <2>2. CASE \E i \in DOMAIN t : Hits(t[i], k, p)
    <3>1. PICK i \in DOMAIN t : Hits(t[i], k, p)
      BY <2>2
    <3>2. Owes(t, k, w, p) = w[t[i].value.n]
      BY <1>1, <3>1, OwesIs
    <3>3. i + 1 \in DOMAIN us /\ t[i] = us[i + 1]
      BY <1>1
    <3>4. Owes(us, k, w, p) = w[us[i + 1].value.n]
      BY <3>1, <3>3, OwesIs
    <3> QED
      BY <1>5, <2>1, <3>2, <3>3, <3>4 DEF t
  <2>3. CASE \A i \in DOMAIN t : ~Hits(t[i], k, p)
    <3>1. \A i \in DOMAIN us : ~Hits(us[i], k, p)
      BY <1>1, <1>2, <1>5, <2>3
    <3>2. Owes(us, k, w, p) = 0 /\ Owes(t, k, w, p) = 0
      BY <1>1, <2>3, <3>1, OwesIs
    <3> QED
      BY <1>5, <3>2 DEF t
  <2> QED
    BY <2>2, <2>3
<1> QED
  BY <1>4, <1>5

\* A call owes what it gives; N are the series in which it counts.
LEMMA OwesShare ==
    ASSUME NEW us, NEW e, Faithful(us, e), NEW w \in Weights, NEW p, NEW K,
           NEW N, \A u \in ToSet(us) : KeyOf(u) \in N <=> Effective(K[u.metric], u)
    PROVE  Owes(us, K[p[1]], w, p) = IF p \in Reached(e) /\ p \in N THEN w[ValueAt(e, p)] ELSE 0
<1>1. Separate(us)
  BY DEF Separate, Faithful, ToSet
<1>2. Reached(e) = {KeyOf(u) : u \in ToSet(us)} /\ \A u \in ToSet(us) : ValueAt(e, KeyOf(u)) = u.value.n
  BY FaithfulAt, Zenon
<1>3. \A u : KeyOf(u)[1] = u.metric
  BY DEF KeyOf
<1>4. CASE p \in Reached(e)
  <2>1. PICK i \in DOMAIN us : KeyOf(us[i]) = p
    BY <1>2, <1>4 DEF ToSet
  <2>2. us[i] \in ToSet(us) /\ p[1] = us[i].metric /\ ValueAt(e, p) = us[i].value.n
    BY <1>2, <1>3, <2>1 DEF ToSet
  <2>3. p \in N <=> Hits(us[i], K[p[1]], p)
    BY <2>1, <2>2 DEF Hits
  <2>4. CASE p \in N
    BY <1>1, <1>4, <2>2, <2>3, <2>4, OwesIs
  <2>5. CASE p \notin N
    <3>1. \A j \in DOMAIN us : ~Hits(us[j], K[p[1]], p)
      BY <2>1, <2>3, <2>5, Zenon DEF Hits, Faithful
    <3> QED
      BY <1>1, <2>5, <3>1, OwesIs
  <2> QED
    BY <2>4, <2>5
<1>5. CASE p \notin Reached(e)
  <2>1. \A j \in DOMAIN us : ~Hits(us[j], K[p[1]], p)
    BY <1>2, <1>5 DEF Hits, ToSet
  <2> QED
    BY <1>1, <1>5, <2>1, OwesIs
<1> QED
  BY <1>4, <1>5

\* A logged call has the updates that it was made of.
LEMMA EntryFaithful ==
    ASSUME NEW e, IsEntry(e)
    PROVE  \E us : /\ Faithful(us, e)
                   /\ e.call.op # "add" => \A u \in ToSet(us) : OfRunner(u)
                   /\ e.call.op = "add" => \A u \in ToSet(us) : /\ u.metric = e.call.metric
                                                                /\ u.kind = e.call.kind
                                                                /\ u.value = e.call.value
<1>1. e = Of(e.scenario, e.group, e.call)
  BY DEF IsEntry
<1>2. CASE IsCall(e.call)
  <2> DEFINE us == Updates(e.scenario, e.call, e.group)
  <2>1. /\ Faithful(us, Of(e.scenario, e.group, e.call))
        /\ e.call.op # "add" => \A u \in ToSet(us) : OfRunner(u)
        /\ e.call.op = "add" => \A u \in ToSet(us) : /\ u.metric = e.call.metric
                                                     /\ u.kind = e.call.kind
                                                     /\ u.value = e.call.value
    BY <1>2, UpdatesFaithful
  <2> HIDE DEF us
  <2>2. Faithful(us, e)
    BY <1>1, <2>1
  <2> QED
    BY <2>1, <2>2
<1>3. CASE IsIteration(e.call)
  <2> DEFINE us == RecordIteration(e.scenario, e.call.success, 0)
  <2>1. /\ e.call.success \in BOOLEAN /\ e.call = [op |-> "iteration", success |-> e.call.success]
    BY <1>3 DEF IsIteration
  <2>2. /\ Faithful(us, Of(e.scenario, e.group, [op |-> "iteration", success |-> e.call.success]))
        /\ \A u \in ToSet(us) : OfRunner(u)
    BY <2>1, IterationFaithful
  <2>3. e.call.op = "iteration"
    BY <2>1
  <2> HIDE DEF us
  <2>4. Faithful(us, e)
    BY <1>1, <2>1, <2>2
  <2> QED
    BY <2>2, <2>3, <2>4
<1> QED
  BY <1>2, <1>3 DEF IsEntry

\* What a logged call reaches and gives.
LEMMA EntryFacts ==
    ASSUME KindsOK, NEW e, IsEntry(e)
    PROVE  /\ IsFiniteSet(Reached(e))
           /\ \A p \in Reached(e) :
                 /\ p[1] \in DOMAIN kinds /\ ValueAt(e, p) \in Int
                 /\ Counts(e, p) /\ kinds[p[1]] = "Counter" => ValueAt(e, p) \in Nat
           /\ \A w \in Weights : \A p : Share(e, w, p) \in Int
<1>1. PICK us : /\ Faithful(us, e)
                /\ e.call.op # "add" => \A u \in ToSet(us) : OfRunner(u)
                /\ e.call.op = "add" => \A u \in ToSet(us) : /\ u.metric = e.call.metric
                                                             /\ u.kind = e.call.kind
                                                             /\ u.value = e.call.value
  BY EntryFaithful
<1>2. Reached(e) = {KeyOf(u) : u \in ToSet(us)} /\ \A u \in ToSet(us) : ValueAt(e, KeyOf(u)) = u.value.n
  BY <1>1, FaithfulAt, Zenon
<1>3. IsFiniteSet(Reached(e))
  <2>1. us \in Seq(ToSet(us))
    BY <1>1 DEF Faithful
  <2>2. IsFiniteSet(1 .. Len(us)) /\ DOMAIN us = 1 .. Len(us)
    BY <2>1, FS_Interval
  <2> DEFINE f == [i \in 1 .. Len(us) |-> KeyOf(us[i])]
  <2>3. Reached(e) = {f[i] : i \in 1 .. Len(us)}
    BY <1>2, <2>2 DEF ToSet
  <2> HIDE DEF f
  <2> QED
    BY <2>2, <2>3, ImageFinite
<1>4. ASSUME NEW p \in Reached(e)
      PROVE  /\ p[1] \in DOMAIN kinds /\ ValueAt(e, p) \in Int
             /\ Counts(e, p) /\ kinds[p[1]] = "Counter" => ValueAt(e, p) \in Nat
  <2>1. PICK u \in ToSet(us) : p = KeyOf(u)
    BY <1>2
  <2>2. ValueAt(e, p) = u.value.n /\ p[1] = u.metric
    BY <1>2, <2>1 DEF KeyOf
  <2>3. u.value.n \in Int
    BY <1>1 DEF Faithful, IsUpdate
  <2>4. CASE e.call.op = "add"
    <3>1. u.metric = e.call.metric /\ u.kind = e.call.kind /\ u.value = e.call.value
      BY <1>1, <2>4
    <3>2. p[1] \in DOMAIN kinds
      BY <2>2, <2>4, <3>1 DEF IsEntry
    <3>3. Counts(e, p) /\ kinds[p[1]] = "Counter" => e.call.value.n >= 0
      BY <2>2, <2>4, <3>1 DEF Counts, Valid
    <3> QED
      BY <2>2, <2>3, <3>1, <3>2, <3>3
  <2>5. CASE e.call.op # "add"
    BY <1>1, <2>2, <2>5 DEF OfRunner, KindsOK
  <2> QED
    BY <2>4, <2>5
<1>5. \A w \in Weights : \A p : Share(e, w, p) \in Int
  BY <1>4 DEF Weights, Share
<1> QED
  BY <1>3, <1>4, <1>5
\* The functions that are summed up in the books.
OwedBy(w, p)   == [v \in VuIds |-> Owes(todo[v], kinds[p[1]], w, p)]
GivenBy(w, p)  == [e \in DOMAIN log |-> Share(e, w, p) * log[e]]

Books ==
    /\ IsFiniteSet(VuIds) /\ IsFiniteSet(DOMAIN log)
    /\ \A e \in DOMAIN log : \A w \in Weights : \A p : Share(e, w, p) \in Int
    /\ \A w \in Weights : \A p :
          /\ OwedBy(w, p) \in [VuIds -> Int] /\ Due(w, p) = Sum(OwedBy(w, p))
          /\ GivenBy(w, p) \in [DOMAIN log -> Int] /\ Credit(w, p) = Sum(GivenBy(w, p))
          /\ Due(w, p) \in Int /\ Credit(w, p) \in Int /\ Balance(w, p) \in Int

LEMMA BooksInt == TInv => Books
<1> SUFFICES ASSUME TInv PROVE Books
  OBVIOUS
<1>0. IsFiniteSet(VuIds) /\ IsFiniteSet(DOMAIN log)
  BY RecordingAssumption DEF TInv, LogOK, IsBag
<1>s. \A e \in DOMAIN log : \A w \in Weights : \A p : Share(e, w, p) \in Int
  BY EntryFacts DEF TInv, LogOK
<1> SUFFICES ASSUME NEW w \in Weights, NEW p
             PROVE  /\ OwedBy(w, p) \in [VuIds -> Int] /\ Due(w, p) = Sum(OwedBy(w, p))
                    /\ GivenBy(w, p) \in [DOMAIN log -> Int] /\ Credit(w, p) = Sum(GivenBy(w, p))
                    /\ Due(w, p) \in Int /\ Credit(w, p) \in Int /\ Balance(w, p) \in Int
  BY <1>0, <1>s DEF Books
<1>1. IsFiniteSet(VuIds) /\ OwedBy(w, p) \in [VuIds -> Int]
  BY RecordingAssumption, OwesIs DEF OwedBy, TInv, TodoOK
<1>2. IsFiniteSet(DOMAIN log) /\ GivenBy(w, p) \in [DOMAIN log -> Int]
  <2>1. IsFiniteSet(DOMAIN log) /\ \A e \in DOMAIN log : log[e] \in Nat /\ IsEntry(e)
    BY DEF TInv, LogOK, IsBag
  <2>2. ASSUME NEW e \in DOMAIN log PROVE Share(e, w, p) * log[e] \in Int
    <3>1. Share(e, w, p) \in Int /\ log[e] \in Int
      BY <2>1, EntryFacts DEF TInv
    <3> QED
      BY <3>1
  <2> QED
    BY <2>1, <2>2 DEF GivenBy
<1>3. Due(w, p) = Sum(OwedBy(w, p)) /\ Credit(w, p) = Sum(GivenBy(w, p))
  BY Zenon DEF Due, Credit, OwedBy, GivenBy
<1>4. Due(w, p) \in Int /\ Credit(w, p) \in Int
  BY <1>1, <1>2, <1>3, SumInt
<1> QED
  BY <1>1, <1>2, <1>3, <1>4 DEF Balance

\* The shares of logged calls do not depend on metrics registered later.
LEMMA ShareStays ==
    ASSUME KindsOK, KindsGrow, NEW e, IsEntry(e), NEW w, NEW p
    PROVE  Share(e, w, p)' = Share(e, w, p)
<1>1. p \in Reached(e) => p[1] \in DOMAIN kinds
  BY EntryFacts
<1>2. p \in Reached(e) => (Counts(e, p)' <=> Counts(e, p))
  BY <1>1 DEF Counts, KindsGrow, IsEntry
<1> QED
  BY <1>2 DEF Share

\* A call that begins owes what it is logged with.
LEMMA BalanceBegins ==
    ASSUME TInv, TInv', NEW v \in VuIds, NEW us, NEW e, Begins(v, us, e), NEW w \in Weights, NEW p
    PROVE  /\ Balance(w, p)' = Balance(w, p)
           /\ Credit(w, p)' = Credit(w, p) + Share(e, w, p)'
           /\ Share(e, w, p)' \in Int
<1> DEFINE n == Share(e, w, p)'
<1>0. Books /\ Books'
  BY BooksInt, PTL
<1>1. /\ phase[v] = "script"
      /\ todo' = [todo EXCEPT ![v] = us] /\ log' = log (+) SetToBag({e}) /\ KindsGrow
      /\ Faithful(us, e) /\ IsEntry(e)'
      /\ \A u \in ToSet(us) : Counts(e, KeyOf(u))' <=> Effective(kinds'[u.metric], u)
  BY DEF Begins
<1>2. n \in Int
  <2>1. e \in DOMAIN log'
    BY <1>1, BagMore
  <2> QED
    BY <1>0, <2>1 DEF Books
<1>3. Owes(us, kinds'[p[1]], w, p) = n
  <2> DEFINE N == {q \in Reached(e) : Counts(e, q)'}
  <2>1. \A u \in ToSet(us) : KeyOf(u) \in Reached(e)
    BY <1>1, FaithfulAt
  <2>2. \A u \in ToSet(us) : KeyOf(u) \in N <=> Effective(kinds'[u.metric], u)
    BY <1>1, <2>1
  <2>3. n = IF p \in Reached(e) /\ p \in N THEN w[ValueAt(e, p)] ELSE 0
    BY DEF Share
  <2> HIDE DEF n, N
  <2> QED
    BY <1>1, <2>2, <2>3, OwesShare
<1>4. Due(w, p)' = Due(w, p) + n
  <2> DEFINE F == OwedBy(w, p)
             G == OwedBy(w, p)'
  <2>1. /\ IsFiniteSet(VuIds) /\ F \in [VuIds -> Int] /\ G \in [VuIds -> Int]
        /\ Due(w, p) = Sum(F) /\ Due(w, p)' = Sum(G) /\ Sum(F) \in Int
    BY <1>0, SumInt DEF Books
  <2>2. F[v] = 0
    BY <1>1, OwesNothing DEF OwedBy, TInv, TodoOK
  <2>3. G[v] = n
    BY <1>1, <1>3 DEF OwedBy, TInv, TodoOK
  <2>4. ASSUME NEW x \in VuIds \ {v} PROVE G[x] = F[x]
    <3>1. todo'[x] = todo[x] /\ Separate(todo[x])
      BY <1>1 DEF TInv, TodoOK
    <3>2. \A i \in DOMAIN todo[x] : todo[x][i].metric \in DOMAIN kinds
      BY DEF TInv, TodoOK
    <3>3. \A i \in DOMAIN todo[x] : Hits(todo[x][i], kinds'[p[1]], p) <=> Hits(todo[x][i], kinds[p[1]], p)
      BY <1>1, <3>2 DEF Hits, KeyOf, KindsGrow
    <3>4. Owes(todo[x], kinds'[p[1]], w, p) = Owes(todo[x], kinds[p[1]], w, p)
      BY <3>1, <3>3, OwesIs
    <3> QED
      BY <3>1, <3>4 DEF OwedBy
  <2> HIDE DEF F, G
  <2>5. Sum(G) = Sum(F) - F[v] + G[v]
    BY <2>1, <2>4, SumBump
  <2> QED
    BY <1>2, <2>1, <2>2, <2>3, <2>5
<1>5. Credit(w, p)' = Credit(w, p) + n
  <2> DEFINE F == GivenBy(w, p)
             G == GivenBy(w, p)'
             D == DOMAIN log
  <2>1. /\ IsFiniteSet(D) /\ F \in [D -> Int] /\ G \in [DOMAIN log' -> Int]
        /\ Credit(w, p) = Sum(F) /\ Credit(w, p)' = Sum(G) /\ Sum(F) \in Int
    BY <1>0, SumInt DEF Books
  <2>2. /\ DOMAIN log' = D \union {e}
        /\ \A y \in D \union {e} : log'[y] = Copies(y, log) + (IF y = e THEN 1 ELSE 0)
    BY <1>1, BagMore
  <2>3. \A y \in D : Share(y, w, p)' = Share(y, w, p) /\ log[y] \in Nat /\ Share(y, w, p) \in Int
    BY <1>1, ShareStays, EntryFacts DEF TInv, LogOK, IsBag
  <2>4. ASSUME NEW y \in D, y # e PROVE G[y] = F[y]
    <3>1. log'[y] = log[y]
      BY <2>2, <2>3, <2>4 DEF Copies
    <3> QED
      BY <2>2, <2>3, <3>1 DEF GivenBy
  <2>5. CASE e \in D
    <3>1. log'[e] = log[e] + 1 /\ log[e] \in Nat
      BY <2>2, <2>3, <2>5 DEF Copies
    <3>2. G[e] = n * (log[e] + 1) /\ F[e] = n * log[e]
      BY <2>2, <2>3, <2>5, <3>1 DEF GivenBy
    <3>3. G[e] = F[e] + n /\ F[e] \in Int
      BY <1>2, <3>1, <3>2
    <3>4. DOMAIN log' = D
      BY <2>2, <2>5
    <3> HIDE DEF F, G, D, n
    <3>5. Sum(G) = Sum(F) - F[e] + G[e]
      BY <2>1, <2>4, <2>5, <3>4, SumBump
    <3> QED
      BY <1>2, <2>1, <3>3, <3>5
  <2>6. CASE e \notin D
    <3>1. log'[e] = 1
      BY <2>2, <2>6 DEF Copies
    <3>2. G[e] = n
      BY <1>2, <2>2, <3>1 DEF GivenBy
    <3> HIDE DEF F, G, D, n
    <3>3. Sum(G) = Sum(F) + G[e]
      <4>1. PICK A, f, h : A = D /\ f = F /\ h = G
        OBVIOUS
      <4>2. /\ IsFiniteSet(A) /\ f \in [A -> Int] /\ e \notin A /\ h \in [A \union {e} -> Int]
            /\ \A y \in A : h[y] = f[y]
        BY <2>1, <2>2, <2>4, <2>6, <4>1
      <4>3. Sum(h) = Sum(f) + h[e]
        BY <4>2, SumMore
      <4> QED
        BY <4>1, <4>3
    <3> QED
      BY <2>1, <3>2, <3>3
  <2> QED
    BY <2>5, <2>6
<1>6. Due(w, p) \in Int /\ Credit(w, p) \in Int
  BY <1>0 DEF Books
<1> QED
  BY <1>2, <1>4, <1>5, <1>6 DEF Balance

\* An update that is done is not owed any more.
LEMMA BalanceApply ==
    ASSUME TInv, TInv', NEW v \in VuIds, ApplyTo(v), NEW w \in Weights, NEW p
    PROVE  Balance(w, p)' = Balance(w, p) + (IF Hits(Head(todo[v]), kinds[p[1]], p)
                                             THEN w[Head(todo[v]).value.n] ELSE 0)
<1>0. Books /\ Books'
  BY BooksInt, PTL
<1>1. phase[v] = "apply" /\ todo' = [todo EXCEPT ![v] = Tail(todo[v])] /\ UNCHANGED <<kinds, log>>
  BY DEF ApplyTo, script
<1>2. todo[v] # <<>> /\ Separate(todo[v]) /\ Head(todo[v]).value.n \in Int
  BY <1>1, HeadFacts DEF IsUpdate
<1> DEFINE F == OwedBy(w, p)
           G == OwedBy(w, p)'
           n == IF Hits(Head(todo[v]), kinds[p[1]], p) THEN w[Head(todo[v]).value.n] ELSE 0
<1>3. /\ IsFiniteSet(VuIds) /\ F \in [VuIds -> Int] /\ G \in [VuIds -> Int]
      /\ Due(w, p) = Sum(F) /\ Due(w, p)' = Sum(G) /\ Sum(F) \in Int
      /\ Credit(w, p) \in Int
  BY <1>0, SumInt DEF Books
<1>4. \A x \in VuIds \ {v} : G[x] = F[x]
  BY <1>1 DEF OwedBy, TInv, TodoOK
<1>5. Owes(Tail(todo[v]), kinds[p[1]], w, p) = Owes(todo[v], kinds[p[1]], w, p) - n
  BY <1>2, OwesTail, Zenon
<1>6. G[v] = F[v] - n
  BY <1>1, <1>5 DEF OwedBy, TInv, TodoOK
<1>7. n \in Int
  BY <1>2 DEF Weights
<1>8. Credit(w, p)' = Credit(w, p)
  BY <1>1 DEF Credit, Share, Counts
<1> HIDE DEF F, G, n
<1>9. Sum(G) = Sum(F) - F[v] + G[v] /\ F[v] \in Int
  BY <1>3, <1>4, SumBump
<1>10. Balance(w, p)' = Balance(w, p) + n
  BY <1>3, <1>6, <1>7, <1>8, <1>9 DEF Balance
<1> QED
  BY <1>10 DEF n

LEMMA BalanceStays ==
    ASSUME UNCHANGED <<kinds, log>>, NEW w, NEW p
    PROVE  /\ Credit(w, p)' = Credit(w, p)
           /\ UNCHANGED todo => Balance(w, p)' = Balance(w, p)
<1>1. Credit(w, p)' = Credit(w, p)
  BY DEF Credit, Share, Counts
<1> QED
  BY <1>1 DEF Balance, Due
-----------------------------------------------------------------------------
(* The invariant: the series and the books. *)

\* The series are those that logged calls reach, but for the updates that are left.
ReachedOK ==
    /\ \A p \in DOMAIN values : \E e \in DOMAIN log : p \in Reached(e)
    /\ \A v \in VuIds : \A i \in DOMAIN todo[v] :
          \E e \in DOMAIN log : KeyOf(todo[v][i]) \in Reached(e)
    /\ \A e \in DOMAIN log : \A p \in Reached(e) :
          p \in DOMAIN values \/ \E v \in VuIds : \E i \in DOMAIN todo[v] : KeyOf(todo[v][i]) = p

\* Series p has what was given to it and is not owed to it any more.
Fits(p) ==
    /\ kinds[p[1]] \in {"Counter", "Gauge"} => values[p] = Balance(Plain, p)
    /\ kinds[p[1]] = "Rate" => /\ values[p].total = Balance(Unit, p)
                               /\ values[p].hits = Balance(Plain, p)
    /\ kinds[p[1]] = "Histogram" =>
          \A m \in Int : Copies(m, values[p]) = Balance(Single(m), p)

\* As long as no series was inserted over another the books balance.
ExactOK ==
    ~raced => \A p : IF p \in DOMAIN values THEN Fits(p)
                     ELSE \A w \in Weights : Balance(w, p) = 0

\* Raced or not, a counter has at most what was given to it and is not owed any more.
Held(p) == IF p \in DOMAIN values THEN values[p] ELSE 0
AheadOK ==
    \A p : (p[1] \in DOMAIN kinds => kinds[p[1]] = "Counter") => Held(p) <= Balance(Plain, p)

\* The progress task has read at most what the calls have given by now and, as long as
\* no series was inserted over another, what the series have by now.
Asked(q)    == Selected(q[2], Scope(q[1], q[2]))
Credited(q) == Sum([p \in Asked(q) |-> Credit(Plain, p)])
ReadOK ==
    /\ DOMAIN read = Scenarios \X ToSet(Queries)
    /\ \A q \in DOMAIN read : read[q] \in Int /\ read[q] <= Credited(q)
    /\ ~raced => \A q \in DOMAIN read : read[q] <= Total(q[1], q[2])

RInv == TInv /\ ReachedOK /\ ExactOK /\ AheadOK /\ ReadOK
LEMMA WeightsAre == Plain \in Weights /\ Unit \in Weights /\ \A m \in Int : Single(m) \in Weights
BY DEF Plain, Unit, Single, Weights

LEMMA RInit == RecordInit => RInv
<1> SUFFICES ASSUME RecordInit PROVE RInv
  OBVIOUS
<1>1. TInv
  BY TInit
<1>2. /\ DOMAIN values = {} /\ DOMAIN log = {} /\ todo = [v \in VuIds |-> <<>>]
      /\ read = [q \in Scenarios \X ToSet(Queries) |-> 0]
  BY NoBag DEF RecordInit
<1>3. ReachedOK
  BY <1>2 DEF ReachedOK
<1>4. \A w \in Weights : \A p : Credit(w, p) = 0 /\ Balance(w, p) = 0
  <2> SUFFICES ASSUME NEW w \in Weights, NEW p PROVE Credit(w, p) = 0 /\ Balance(w, p) = 0
    OBVIOUS
  <2>1. Books
    BY <1>1, BooksInt
  <2>2. Credit(w, p) = 0
    <3>1. DOMAIN GivenBy(w, p) = {}
      BY <1>2 DEF GivenBy
    <3> QED
      BY <2>1, <3>1, SumEmpty DEF Books
  <2>3. Due(w, p) = 0
    <3>1. \A v \in VuIds : OwedBy(w, p)[v] = 0
      BY <1>2, OwesNothing DEF OwedBy
    <3> QED
      BY <2>1, <3>1, SumZero DEF Books
  <2> QED
    BY <2>2, <2>3 DEF Balance
<1>5. ExactOK
  BY <1>2, <1>4 DEF ExactOK
<1>6. AheadOK
  BY <1>2, <1>4, WeightsAre DEF AheadOK, Held
<1>7. \A q : Asked(q) = {}
  BY <1>2 DEF Asked, Selected
<1>8. \A q : Credited(q) = 0
  BY <1>7, SumEmpty DEF Credited
<1>9. \A q : Total(q[1], q[2]) = 0
  <2>1. ASSUME NEW q PROVE DOMAIN Where(q[2], Scope(q[1], q[2])) = {}
    BY <1>7 DEF Asked, Where, Restrict
  <2> QED
    BY <2>1, SumEmpty DEF Total
<1>10. ReadOK
  BY <1>2, <1>8, <1>9 DEF ReadOK
<1> QED
  BY <1>1, <1>3, <1>5, <1>6, <1>10 DEF RInv

\* Steps that leave the series and the updates alone.
Idle == UNCHANGED <<kinds, values, raced, todo, log>>

LEMMA IdleKeeps ==
    ASSUME RInv, Idle
    PROVE  ReachedOK' /\ ExactOK' /\ AheadOK'
<1>1. \A w, p : Balance(w, p)' = Balance(w, p)
  BY BalanceStays DEF Idle
<1>2. ReachedOK'
  BY DEF RInv, ReachedOK, Idle
<1>3. ExactOK'
  <2>1. \A p : Fits(p) => Fits(p)'
    BY <1>1 DEF Fits, Idle
  <2> QED
    BY <1>1, <2>1 DEF RInv, ExactOK, Idle
<1>4. AheadOK'
  BY <1>1 DEF RInv, AheadOK, Held, Idle
<1> QED
  BY <1>2, <1>3, <1>4

LEMMA BeginsKeeps ==
    ASSUME RInv, TInv', NEW v \in VuIds, NEW us, NEW e, Begins(v, us, e)
    PROVE  ReachedOK' /\ ExactOK' /\ AheadOK'
<1>0. TInv
  BY DEF RInv
<1>1. /\ phase[v] = "script" /\ todo' = [todo EXCEPT ![v] = us]
      /\ log' = log (+) SetToBag({e}) /\ KindsGrow
      /\ Faithful(us, e) /\ UNCHANGED <<values, raced>>
  BY DEF Begins
<1>2. \A w \in Weights : \A p : Balance(w, p)' = Balance(w, p)
  BY <1>0, BalanceBegins
<1>3. DOMAIN log' = DOMAIN log \union {e}
  BY <1>1, BagMore
<1>4. ReachedOK'
  <2>1. Reached(e) = {KeyOf(u) : u \in ToSet(us)}
    BY <1>1, FaithfulAt
  <2>2. todo[v] = <<>> /\ DOMAIN todo = VuIds
    BY <1>0, <1>1 DEF TInv, TodoOK
  <2>3. todo'[v] = us /\ \A x \in VuIds : x # v => todo'[x] = todo[x]
    BY <1>1, <2>2
  <2>4. \A p \in DOMAIN values' : \E f \in DOMAIN log' : p \in Reached(f)
    BY <1>1, <1>3 DEF RInv, ReachedOK
  <2>5. ASSUME NEW x \in VuIds, NEW i \in DOMAIN todo'[x]
        PROVE  \E f \in DOMAIN log' : KeyOf(todo'[x][i]) \in Reached(f)
    <3>1. CASE x = v
      BY <1>3, <2>1, <2>3, <3>1 DEF ToSet
    <3>2. CASE x # v
      BY <1>3, <2>3, <3>2 DEF RInv, ReachedOK
    <3> QED
      BY <3>1, <3>2
  <2>6. ASSUME NEW f \in DOMAIN log', NEW p \in Reached(f)
        PROVE  p \in DOMAIN values' \/ \E x \in VuIds : \E i \in DOMAIN todo'[x] : KeyOf(todo'[x][i]) = p
    <3>1. CASE f = e
      BY <2>1, <2>3, <3>1 DEF ToSet
    <3>2. CASE f \in DOMAIN log
      <4>1. p \in DOMAIN values \/ \E x \in VuIds : \E i \in DOMAIN todo[x] : KeyOf(todo[x][i]) = p
        BY <3>2 DEF RInv, ReachedOK
      <4>2. \A i \in DOMAIN todo[v] : FALSE
        BY <2>2
      <4> QED
        BY <1>1, <2>3, <4>1, <4>2
    <3> QED
      BY <1>3, <3>1, <3>2
  <2> QED
    BY <2>4, <2>5, <2>6 DEF ReachedOK
<1>5. \A p \in DOMAIN values : p[1] \in DOMAIN kinds /\ kinds'[p[1]] = kinds[p[1]]
  BY <1>0, <1>1 DEF TInv, SeriesOK, IsSeries, KindsGrow
<1>6. ExactOK'
  <2>1. \A p \in DOMAIN values : Fits(p) => Fits(p)'
    BY <1>1, <1>2, <1>5, WeightsAre DEF Fits
  <2> QED
    BY <1>1, <1>2, <2>1 DEF RInv, ExactOK
<1>7. AheadOK'
  <2> SUFFICES ASSUME NEW p, p[1] \in DOMAIN kinds' => kinds'[p[1]] = "Counter"
               PROVE  Held(p)' <= Balance(Plain, p)'
    BY DEF AheadOK
  <2>1. p[1] \in DOMAIN kinds => kinds[p[1]] = "Counter"
    BY <1>1 DEF KindsGrow
  <2>2. Held(p) <= Balance(Plain, p)
    BY <2>1 DEF RInv, AheadOK
  <2> QED
    BY <1>1, <1>2, <2>2, WeightsAre DEF Held
<1> QED
  BY <1>4, <1>6, <1>7
LEMMA InsertKeeps ==
    ASSUME RInv, TInv', NEW v \in VuIds, InsertSeries(v)
    PROVE  ReachedOK' /\ ExactOK' /\ AheadOK'
<1>0. TInv
  BY DEF RInv
<1>1. PICK p : p = SeriesAt(v)
  OBVIOUS
<1>2. /\ phase[v] = "make" /\ raced' = (raced \/ p \in DOMAIN values)
      /\ values' = [z \in DOMAIN values \union {p} |-> IF z = p THEN Zero(kinds[p[1]]) ELSE values[z]]
      /\ UNCHANGED <<kinds, todo, log>>
  BY <1>1 DEF InsertSeries, With, script
<1>3. p = KeyOf(todo[v][1]) /\ 1 \in DOMAIN todo[v] /\ p[1] \in DOMAIN kinds /\ kinds[p[1]] \in Kinds
  <2>1. /\ Head(todo[v]) = todo[v][1] /\ 1 \in DOMAIN todo[v]
        /\ SeriesAt(v)[1] = Head(todo[v]).metric /\ Head(todo[v]).metric \in DOMAIN kinds
    BY <1>0, <1>2, HeadFacts
  <2> QED
    BY <1>0, <1>1, <2>1 DEF SeriesAt, TInv, KindsOK
<1>4. \A w, q : Balance(w, q)' = Balance(w, q)
  BY <1>2, BalanceStays
<1>5. ReachedOK'
  BY <1>2, <1>3 DEF RInv, ReachedOK
<1>6. ExactOK'
  <2> SUFFICES ASSUME ~raced', NEW q
               PROVE  (IF q \in DOMAIN values THEN Fits(q) ELSE \A w \in Weights : Balance(w, q) = 0)'
    BY DEF ExactOK
  <2>1. ~raced /\ p \notin DOMAIN values
    BY <1>0, <1>2 DEF TInv, PhasesOK
  <2>2. CASE q = p
    <3>1. \A w \in Weights : Balance(w, p)' = 0
      BY <1>4, <2>1 DEF RInv, ExactOK
    <3>2. values'[p] = Zero(kinds[p[1]])
      BY <1>2
    <3>3. \A m : Copies(m, EmptyBag) = 0
      BY NoBag DEF Copies
    <3>4. Fits(p)'
      BY <1>2, <1>3, <3>1, <3>2, <3>3, ZeroIs, WeightsAre DEF Fits
    <3> QED
      BY <1>2, <2>2, <3>4
  <2>3. CASE q # p /\ q \in DOMAIN values
    <3>1. Fits(q)
      BY <2>1, <2>3 DEF RInv, ExactOK
    <3>2. values'[q] = values[q] /\ q \in DOMAIN values'
      BY <1>2, <2>3
    <3>3. Fits(q)'
      BY <1>2, <1>4, <3>1, <3>2 DEF Fits
    <3> QED
      BY <3>2, <3>3
  <2>4. CASE q # p /\ q \notin DOMAIN values
    <3>1. \A w \in Weights : Balance(w, q)' = 0
      BY <1>4, <2>1, <2>4 DEF RInv, ExactOK
    <3> QED
      BY <1>2, <2>4, <3>1
  <2> QED
    BY <2>2, <2>3, <2>4
<1>7. AheadOK'
  <2> SUFFICES ASSUME NEW q, q[1] \in DOMAIN kinds => kinds[q[1]] = "Counter"
               PROVE  Held(q)' <= Balance(Plain, q)'
    BY <1>2 DEF AheadOK
  <2>1. Held(q) <= Balance(Plain, q)
    BY DEF RInv, AheadOK
  <2>2. CASE q = p
    <3>1. Held(p)' = 0
      BY <1>2, <1>3, <2>2, ZeroIs DEF Held
    <3>2. Held(p) \in Nat
      BY <1>0, <1>3, <2>2 DEF Held, TInv, SeriesOK, IsValue
    <3>3. Balance(Plain, p) \in Int
      BY <1>0, BooksInt, WeightsAre DEF Books
    <3> QED
      BY <1>4, <2>1, <2>2, <3>1, <3>2, <3>3
  <2>3. CASE q # p
    <3>1. Held(q)' = Held(q)
      BY <1>2, <2>3 DEF Held
    <3> QED
      BY <1>4, <2>1, <3>1
  <2> QED
    BY <2>2, <2>3
<1> QED
  BY <1>5, <1>6, <1>7

LEMMA ApplyKeeps ==
    ASSUME RInv, TInv', NEW v \in VuIds, ApplyTo(v)
    PROVE  ReachedOK' /\ ExactOK' /\ AheadOK'
<1>0. TInv
  BY DEF RInv
<1>1. PICK u, p : u = Head(todo[v]) /\ p = SeriesAt(v)
  OBVIOUS
<1>2. /\ phase[v] = "apply"
      /\ values' = IF v \in detached THEN values
                   ELSE [values EXCEPT ![p] = Apply(kinds[u.metric], values[p], u)]
      /\ todo' = [todo EXCEPT ![v] = Tail(todo[v])]
      /\ UNCHANGED <<kinds, raced, log>>
  BY <1>1 DEF ApplyTo, script
<1>3. /\ todo[v] # <<>> /\ Separate(todo[v]) /\ IsUpdate(u) /\ u.metric \in DOMAIN kinds
      /\ p = KeyOf(u) /\ p[1] = u.metric /\ p \in DOMAIN values /\ u = todo[v][1]
  <2>1. p \in DOMAIN values
    BY <1>0, <1>1, <1>2 DEF TInv, HandlesOK
  <2>2. p = KeyOf(u)
    BY <1>1 DEF SeriesAt
  <2> QED
    BY <1>0, <1>1, <1>2, <2>1, <2>2, HeadFacts
<1>4. DOMAIN values' = DOMAIN values
  BY <1>2
<1>5. ASSUME NEW w \in Weights, NEW q
      PROVE  Balance(w, q)' = Balance(w, q) + (IF Hits(u, kinds[q[1]], q) THEN w[u.value.n] ELSE 0)
  BY <1>0, <1>1, BalanceApply
<1>6. ASSUME NEW w \in Weights, NEW q
      PROVE  Balance(w, q) \in Int /\ (q # p => Balance(w, q)' = Balance(w, q))
  <2>1. Balance(w, q) \in Int
    BY <1>0, BooksInt DEF Books
  <2>2. q # p => ~Hits(u, kinds[q[1]], q)
    BY <1>3 DEF Hits
  <2> QED
    BY <1>5, <2>1, <2>2
<1>7. ReachedOK'
  <2>1. DOMAIN todo = VuIds
    BY <1>0 DEF TInv, TodoOK
  <2>2. todo'[v] = Tail(todo[v]) /\ \A x \in VuIds : x # v => todo'[x] = todo[x]
    BY <1>2, <2>1
  <2>3. \A i \in DOMAIN todo'[v] : i + 1 \in DOMAIN todo[v] /\ todo'[v][i] = todo[v][i + 1]
    BY <1>3, <2>2, SeparateTail
  <2>4. \A i \in DOMAIN todo[v] : i # 1 => i - 1 \in DOMAIN todo'[v] /\ todo'[v][i - 1] = todo[v][i]
    BY <1>3, <2>2, TailFacts DEF Separate
  <2>5. ASSUME NEW x \in VuIds, NEW i \in DOMAIN todo'[x]
        PROVE  \E f \in DOMAIN log : KeyOf(todo'[x][i]) \in Reached(f)
    BY <2>2, <2>3 DEF RInv, ReachedOK
  <2>6. ASSUME NEW f \in DOMAIN log, NEW q \in Reached(f), q \notin DOMAIN values
        PROVE  \E x \in VuIds : \E i \in DOMAIN todo'[x] : KeyOf(todo'[x][i]) = q
    <3>1. PICK x \in VuIds : \E i \in DOMAIN todo[x] : KeyOf(todo[x][i]) = q
      BY <2>6 DEF RInv, ReachedOK
    <3>2. PICK i \in DOMAIN todo[x] : KeyOf(todo[x][i]) = q
      BY <3>1
    <3>3. CASE x = v
      <4>1. i # 1
        BY <1>3, <2>6, <3>2, <3>3
      <4> QED
        BY <2>4, <3>2, <3>3, <4>1
    <3>4. CASE x # v
      BY <2>2, <3>2, <3>4
    <3> QED
      BY <3>3, <3>4
  <2>7. \A q \in DOMAIN values' : \E f \in DOMAIN log' : q \in Reached(f)
    BY <1>2, <1>4 DEF RInv, ReachedOK
  <2> QED
    BY <1>2, <1>4, <2>5, <2>6, <2>7 DEF ReachedOK
<1>8. /\ kinds[p[1]] \in Kinds /\ IsValue(kinds[p[1]], values[p]) /\ u.value.n \in Int
  BY <1>0, <1>3 DEF TInv, SeriesOK, KindsOK, IsUpdate
<1>k. PICK k, x : k = kinds[u.metric] /\ k = kinds[p[1]] /\ x = values[p]
  BY <1>3
<1>a. Applied(k, x, u)
  <2>1. k \in Kinds /\ IsValue(k, x)
    BY <1>8, <1>k
  <2> QED
    BY <1>3, <2>1, ApplyIs
<1>b. Hits(u, k, p) <=> Effective(k, u)
  BY <1>3 DEF Hits
<1>9. ExactOK'
  <2> SUFFICES ASSUME ~raced, NEW q
               PROVE  (IF q \in DOMAIN values THEN Fits(q) ELSE \A w \in Weights : Balance(w, q) = 0)'
    BY <1>2 DEF ExactOK
  <2>1. values' = [values EXCEPT ![p] = Apply(kinds[u.metric], values[p], u)]
    BY <1>0, <1>2 DEF TInv, PhasesOK
  <2>2. CASE q = p
    <3>1. Fits(p)
      BY <1>3 DEF RInv, ExactOK
    <3>2. values'[p] = Apply(k, x, u) /\ kinds'[p[1]] = k
      BY <1>2, <1>3, <1>k, <2>1
    <3>3. ASSUME ~Effective(k, u) PROVE Fits(p)'
      <4>1. \A w \in Weights : Balance(w, p)' = Balance(w, p)
        BY <1>5, <1>6, <1>b, <1>k, <3>3
      <4> QED
        BY <1>a, <1>k, <3>1, <3>2, <3>3, <4>1, WeightsAre DEF Fits, Applied
    <3>4. ASSUME Effective(k, u) PROVE Fits(p)'
      <4>1. \A w \in Weights : Balance(w, p)' = Balance(w, p) + w[u.value.n]
        BY <1>5, <1>b, <1>k, <3>4
      <4>2. Plain[u.value.n] = u.value.n /\ Unit[u.value.n] = 1
        BY <1>8 DEF Plain, Unit
      <4>3. CASE k \in {"Counter", "Gauge"}
        BY <1>a, <1>k, <3>1, <3>2, <3>4, <4>1, <4>2, <4>3, WeightsAre DEF Fits, Applied
      <4>4. CASE k = "Rate"
        <5>1. values'[p].total = x.total + 1 /\ values'[p].hits = x.hits + u.value.n
          BY <1>a, <3>2, <3>4, <4>4 DEF Applied
        <5>2. x.total = Balance(Unit, p) /\ x.hits = Balance(Plain, p)
          BY <1>k, <3>1, <4>4 DEF Fits
        <5> QED
          BY <3>2, <4>1, <4>2, <4>4, <5>1, <5>2, WeightsAre DEF Fits
      <4>5. CASE k = "Histogram"
        <5>1. ASSUME NEW m \in Int PROVE Copies(m, values'[p]) = Balance(Single(m), p)'
          <6>1. Copies(m, x) = Balance(Single(m), p) /\ Copies(m, x) \in Int
            BY <1>6, <1>k, <3>1, <4>5, WeightsAre DEF Fits
          <6>2. values'[p] = x (+) SetToBag({u.value.n})
            BY <1>a, <3>2, <3>4, <4>5 DEF Applied
          <6>3. Copies(m, values'[p]) = Copies(m, x) + (IF m = u.value.n THEN 1 ELSE 0)
            <7>1. PICK y : y = values'[p]
              OBVIOUS
            <7>0. y = x (+) SetToBag({u.value.n})
              BY <6>2, <7>1
            <7>2. /\ DOMAIN y = DOMAIN x \union {u.value.n}
                  /\ \A z \in DOMAIN y : y[z] = Copies(z, x) + (IF z = u.value.n THEN 1 ELSE 0)
              BY <7>0, BagMore, Zenon
            <7>3. Copies(m, y) = Copies(m, x) + (IF m = u.value.n THEN 1 ELSE 0)
              BY <6>1, <7>2 DEF Copies
            <7> QED
              BY <7>1, <7>3
          <6>4. Single(m)[u.value.n] = IF m = u.value.n THEN 1 ELSE 0
            BY <1>8 DEF Single
          <6>5. Balance(Single(m), p)' = Balance(Single(m), p) + Single(m)[u.value.n]
            BY <4>1, WeightsAre
          <6> QED
            BY <6>1, <6>3, <6>4, <6>5
        <5> QED
          BY <3>2, <4>5, <5>1 DEF Fits
      <4> QED
        BY <1>8, <1>k, <4>3, <4>4, <4>5 DEF Kinds
    <3>5. Fits(p)'
      BY <3>3, <3>4
    <3> QED
      BY <1>3, <1>4, <2>2, <3>5
  <2>3. CASE q # p /\ q \in DOMAIN values
    <3>1. Fits(q) /\ values'[q] = values[q]
      BY <2>1, <2>3 DEF RInv, ExactOK
    <3>2. Fits(q)'
      BY <1>2, <1>6, <2>3, <3>1, WeightsAre DEF Fits
    <3> QED
      BY <1>4, <2>3, <3>2
  <2>4. CASE q # p /\ q \notin DOMAIN values
    <3>1. \A w \in Weights : Balance(w, q)' = 0
      BY <1>6, <2>4 DEF RInv, ExactOK
    <3> QED
      BY <1>4, <2>4, <3>1
  <2> QED
    BY <2>2, <2>3, <2>4
<1>10. AheadOK'
  <2> SUFFICES ASSUME NEW q, q[1] \in DOMAIN kinds => kinds[q[1]] = "Counter"
               PROVE  Held(q)' <= Balance(Plain, q)'
    BY <1>2 DEF AheadOK
  <2>1. Held(q) <= Balance(Plain, q) /\ Balance(Plain, q) \in Int
    BY <1>6, WeightsAre DEF RInv, AheadOK
  <2>2. CASE q # p
    <3>1. Held(q)' = Held(q)
      BY <1>2, <2>2 DEF Held
    <3> QED
      BY <1>6, <2>1, <2>2, <3>1, WeightsAre
  <2>3. CASE q = p
    <3>1. kinds[u.metric] = "Counter" /\ values[p] \in Nat
      BY <1>3, <1>8, <2>3 DEF IsValue
    <3>2. Held(p)' = values[p] \/ Held(p)' = Apply(kinds[u.metric], values[p], u)
      BY <1>2, <1>3, <1>4 DEF Held
    <3>3. Held(p) = values[p]
      BY <1>3 DEF Held
    <3>4. CASE Effective(kinds[u.metric], u)
      <4>1. Apply(kinds[u.metric], values[p], u) = values[p] + u.value.n /\ u.value.n \in Nat
        BY <1>a, <1>k, <3>1, <3>4 DEF Applied
      <4>2. Hits(u, kinds[p[1]], p) /\ Plain[u.value.n] = u.value.n
        BY <1>3, <1>8, <3>4 DEF Hits, Plain
      <4>3. Balance(Plain, p)' = Balance(Plain, p) + u.value.n
        BY <1>5, <4>2, WeightsAre
      <4> QED
        BY <2>1, <2>3, <3>1, <3>2, <3>3, <4>1, <4>3
    <3>5. CASE ~Effective(kinds[u.metric], u)
      <4>1. Apply(kinds[u.metric], values[p], u) = values[p]
        BY <1>a, <1>k, <3>5 DEF Applied
      <4>2. ~Hits(u, kinds[p[1]], p)
        BY <1>3, <3>5 DEF Hits
      <4>3. Balance(Plain, p)' = Balance(Plain, p)
        BY <1>5, <2>1, <2>3, <4>2, WeightsAre
      <4> QED
        BY <2>1, <2>3, <3>2, <3>3, <4>1, <4>3
    <3> QED
      BY <3>4, <3>5
  <2> QED
    BY <2>2, <2>3
<1> QED
  BY <1>7, <1>9, <1>10
-----------------------------------------------------------------------------
(* Live totals. *)

LEMMA QueriesCount == \A m \in ToSet(Queries) : m \in Counters
BY DEF ToSet, Queries, Counters

\* What is summed up for a query: counters.
AskedOK ==
    \A q \in Scenarios \X ToSet(Queries) :
        /\ IsFiniteSet(Asked(q))
        /\ \A p \in Asked(q) :
              /\ p \in DOMAIN values /\ p[1] \in DOMAIN kinds /\ kinds[p[1]] = "Counter"
              /\ values[p] \in Nat /\ Credit(Plain, p) \in Nat /\ Due(Plain, p) \in Nat
        /\ Total(q[1], q[2]) = Sum([p \in Asked(q) |-> values[p]])

\* Nothing is taken from a counter.
SharesOK ==
    \A e \in DOMAIN log : \A p :
        p[1] \in DOMAIN kinds /\ kinds[p[1]] = "Counter" => Share(e, Plain, p) \in Nat

LEMMA SharesAre == TInv => SharesOK
<1> SUFFICES ASSUME TInv, NEW e \in DOMAIN log, NEW p, p[1] \in DOMAIN kinds, kinds[p[1]] = "Counter"
             PROVE  Share(e, Plain, p) \in Nat
  BY DEF SharesOK
<1>1. p \in Reached(e) /\ Counts(e, p) => ValueAt(e, p) \in Nat
  BY EntryFacts DEF TInv, LogOK
<1> QED
  BY <1>1 DEF Share, Plain

LEMMA AskedAre == TInv => AskedOK
<1> SUFFICES ASSUME TInv, NEW q \in Scenarios \X ToSet(Queries)
             PROVE  /\ IsFiniteSet(Asked(q))
                    /\ \A p \in Asked(q) :
                          /\ p \in DOMAIN values /\ p[1] \in DOMAIN kinds /\ kinds[p[1]] = "Counter"
                          /\ values[p] \in Nat /\ Credit(Plain, p) \in Nat /\ Due(Plain, p) \in Nat
                    /\ Total(q[1], q[2]) = Sum([p \in Asked(q) |-> values[p]])
  BY DEF AskedOK
<1>1. q[2] \in Counters
  BY QueriesCount
<1>2. q[2] \in DOMAIN kinds /\ kinds[q[2]] = "Counter"
  BY <1>1, BuiltinIs DEF TInv, KindsOK
<1>3. Asked(q) \subseteq DOMAIN values /\ \A p \in Asked(q) : p[1] = q[2]
  BY DEF Asked, Selected
<1>4. IsFiniteSet(Asked(q))
  BY <1>3, FS_Subset DEF TInv, SeriesOK
<1>5. Total(q[1], q[2]) = Sum([p \in Asked(q) |-> values[p]])
  BY DEF Total, Where, Asked, Restrict
<1>6. Books
  BY BooksInt
<1>7. ASSUME NEW p, p[1] \in DOMAIN kinds, kinds[p[1]] = "Counter"
      PROVE  Credit(Plain, p) \in Nat /\ Due(Plain, p) \in Nat
  <2>1. GivenBy(Plain, p) \in [DOMAIN log -> Nat]
    <3>1. ASSUME NEW e \in DOMAIN log PROVE Share(e, Plain, p) * log[e] \in Nat
      <4>1. Share(e, Plain, p) \in Nat
        BY <1>7, SharesAre DEF SharesOK
      <4>2. log[e] \in Nat
        BY DEF TInv, LogOK, IsBag
      <4> QED
        BY <4>1, <4>2
    <3> QED
      BY <3>1 DEF GivenBy
  <2>2. OwedBy(Plain, p) \in [VuIds -> Nat]
    <3>1. ASSUME NEW v \in VuIds PROVE Owes(todo[v], kinds[p[1]], Plain, p) \in Nat
      <4>1. Separate(todo[v]) /\ Plain \in Weights
        BY WeightsAre DEF TInv, TodoOK
      <4>2. CASE \E i \in DOMAIN todo[v] : Hits(todo[v][i], kinds[p[1]], p)
        <5>1. PICK i \in DOMAIN todo[v] : Hits(todo[v][i], kinds[p[1]], p)
          BY <4>2
        <5>2. Owes(todo[v], kinds[p[1]], Plain, p) = Plain[todo[v][i].value.n]
          BY <4>1, <5>1, OwesIs
        <5>3. todo[v][i].value.n \in Nat
          BY <1>7, <4>1, <5>1 DEF Hits, Effective, Valid, Separate, IsUpdate
        <5> QED
          BY <5>2, <5>3 DEF Plain
      <4>3. CASE \A i \in DOMAIN todo[v] : ~Hits(todo[v][i], kinds[p[1]], p)
        BY <4>1, <4>3, OwesIs
      <4> QED
        BY <4>2, <4>3
    <3> QED
      BY <3>1 DEF OwedBy
  <2> QED
    BY <1>6, <2>1, <2>2, SumNat, WeightsAre DEF Books
<1>8. \A p \in Asked(q) : values[p] \in Nat
  BY <1>2, <1>3 DEF TInv, SeriesOK, IsValue
<1> QED
  BY <1>2, <1>3, <1>4, <1>5, <1>7, <1>8

\* Counters and what is given to them grow.
Grows ==
    /\ DOMAIN values \subseteq DOMAIN values'
    /\ ~raced' => ~raced
    /\ \A p \in DOMAIN values :
          kinds[p[1]] = "Counter" => /\ Credit(Plain, p) <= Credit(Plain, p)'
                                     /\ ~raced' => values[p] <= values'[p]

LEMMA BeginsGrows ==
    ASSUME TInv, TInv', NEW v \in VuIds, NEW us, NEW e, Begins(v, us, e)
    PROVE  Grows
<1>1. UNCHANGED <<values, raced>> /\ KindsGrow /\ e \in DOMAIN log'
  BY BagMore DEF Begins
<1>2. ASSUME NEW p \in DOMAIN values, kinds[p[1]] = "Counter"
      PROVE  Credit(Plain, p) <= Credit(Plain, p)' /\ values[p] \in Nat
  <2>1. Credit(Plain, p)' = Credit(Plain, p) + Share(e, Plain, p)' /\ Share(e, Plain, p)' \in Int
    BY BalanceBegins, WeightsAre
  <2>2. Credit(Plain, p) \in Int
    BY BooksInt, WeightsAre DEF Books
  <2>3. Share(e, Plain, p)' \in Nat
    <3>1. SharesOK'
      BY SharesAre, PTL
    <3>2. p[1] \in DOMAIN kinds' /\ kinds'[p[1]] = "Counter"
      BY <1>1, <1>2 DEF TInv, SeriesOK, IsSeries, KindsGrow
    <3> QED
      BY <1>1, <3>1, <3>2 DEF SharesOK
  <2> QED
    BY <1>2, <2>1, <2>2, <2>3 DEF TInv, SeriesOK, IsValue
<1> QED
  BY <1>1, <1>2 DEF Grows
LEMMA StepGrows ==
    ASSUME TInv, TInv', [RecordNext]_recordVars
    PROVE  Grows
<1>0. ASSUME NEW p \in DOMAIN values, kinds[p[1]] = "Counter"
      PROVE  values[p] \in Nat /\ Credit(Plain, p) \in Int /\ values[p] <= values[p]
             /\ Credit(Plain, p) <= Credit(Plain, p)
  <2>1. values[p] \in Nat /\ Credit(Plain, p) \in Int
    BY <1>0, BooksInt, WeightsAre DEF TInv, SeriesOK, IsValue, Books
  <2> QED
    BY <2>1
<1>1. ASSUME UNCHANGED <<kinds, values, raced, log>> PROVE Grows
  BY <1>0, <1>1, BalanceStays DEF Grows
<1>2. ASSUME NEW v \in VuIds, NEW c \in plan.menu, ScriptCall(v, c) PROVE Grows
  BY <1>2, CallBegins, BeginsGrows
<1>3. ASSUME NEW v \in VuIds, NEW success \in BOOLEAN, EndIteration(v, success) PROVE Grows
  BY <1>3, IterationBegins, BeginsGrows
<1>4. ASSUME NEW v \in VuIds, InsertSeries(v) PROVE Grows
  <2>1. PICK p : p = SeriesAt(v)
    OBVIOUS
  <2>2. /\ raced' = (raced \/ p \in DOMAIN values)
        /\ values' = [z \in DOMAIN values \union {p} |-> IF z = p THEN Zero(kinds[p[1]]) ELSE values[z]]
        /\ UNCHANGED <<kinds, log>>
    BY <1>4, <2>1 DEF InsertSeries, With, script
  <2>3. ASSUME NEW z \in DOMAIN values, ~raced' PROVE values'[z] = values[z] /\ ~raced
    BY <2>2, <2>3 DEF TInv, PhasesOK
  <2> QED
    BY <1>0, <2>2, <2>3, BalanceStays DEF Grows, TInv, PhasesOK
<1>5. ASSUME NEW v \in VuIds, ApplyTo(v) PROVE Grows
  <2>1. PICK u, p : u = Head(todo[v]) /\ p = SeriesAt(v)
    OBVIOUS
  <2>2. /\ phase[v] = "apply"
        /\ values' = IF v \in detached THEN values
                     ELSE [values EXCEPT ![p] = Apply(kinds[u.metric], values[p], u)]
        /\ UNCHANGED <<kinds, raced, log>>
    BY <1>5, <2>1 DEF ApplyTo, script
  <2>3. IsUpdate(u) /\ p[1] = u.metric
    BY <2>1, <2>2, HeadFacts
  <2>4. ASSUME NEW z \in DOMAIN values, kinds[z[1]] = "Counter" PROVE values[z] <= values'[z]
    <3>1. CASE z = p /\ v \notin detached
      <4>1. PICK k, x : k = kinds[u.metric] /\ x = values[p]
        OBVIOUS
      <4>2. k = "Counter" /\ x \in Nat /\ IsValue(k, x) /\ k \in Kinds
        BY <2>3, <2>4, <3>1, <4>1 DEF TInv, SeriesOK, IsValue, Kinds
      <4>3. Applied(k, x, u)
        BY <2>3, <4>2, ApplyIs
      <4>4. Apply(k, x, u) = x \/ (u.value.n \in Nat /\ Apply(k, x, u) = x + u.value.n)
        BY <4>2, <4>3 DEF Applied
      <4>5. values'[z] = Apply(k, x, u)
        BY <2>2, <2>4, <3>1, <4>1
      <4> QED
        BY <3>1, <4>1, <4>2, <4>4, <4>5
    <3>2. CASE z # p \/ v \in detached
      <4>1. values'[z] = values[z]
        BY <2>2, <3>2
      <4> QED
        BY <1>0, <2>4, <4>1
    <3> QED
      BY <3>1, <3>2
  <2>5. DOMAIN values' = DOMAIN values
    BY <2>2
  <2> QED
    BY <1>0, <2>2, <2>4, <2>5, BalanceStays DEF Grows
<1>6. ASSUME NEW v \in VuIds, GetHandle(v) PROVE Grows
  BY <1>1, <1>6 DEF GetHandle, script
<1>7. ASSUME NEW v \in VuIds, NEW g, EnterGroup(v, g) \/ LeaveGroup(v) PROVE Grows
  BY <1>1, <1>7 DEF EnterGroup, LeaveGroup, metrics
<1>8. CASE BeginTick \/ ReadQuery \/ UNCHANGED recordVars
  BY <1>1, <1>8 DEF BeginTick, ReadQuery, recordVars, metrics, script
<1> QED
  BY <1>2, <1>3, <1>4, <1>5, <1>6, <1>7, <1>8 DEF RecordNext, RecordStep

\* A total is never ahead.
LEMMA TotalCredited ==
    ASSUME RInv, NEW q \in Scenarios \X ToSet(Queries)
    PROVE  /\ Total(q[1], q[2]) \in Int /\ Credited(q) \in Int
           /\ Total(q[1], q[2]) <= Credited(q)
<1> DEFINE A == Asked(q)
           F == [p \in A |-> values[p]]
           G == [p \in A |-> Credit(Plain, p)]
<1>1. /\ IsFiniteSet(A)
      /\ \A p \in A : /\ p \in DOMAIN values /\ p[1] \in DOMAIN kinds /\ kinds[p[1]] = "Counter"
                      /\ values[p] \in Nat /\ Credit(Plain, p) \in Nat /\ Due(Plain, p) \in Nat
      /\ Total(q[1], q[2]) = Sum(F)
  BY AskedAre DEF RInv, AskedOK
<1>2. \A p \in A : F[p] <= G[p]
  <2>1. ASSUME NEW p \in A PROVE values[p] <= Credit(Plain, p)
    <3>1. Held(p) = values[p] /\ Held(p) <= Balance(Plain, p)
      BY <1>1 DEF Held, RInv, AheadOK
    <3> QED
      BY <1>1, <3>1 DEF Balance
  <2> QED
    BY <2>1
<1>3. F \in [A -> Int] /\ G \in [A -> Int] /\ Credited(q) = Sum(G)
  BY <1>1 DEF Credited
<1> HIDE DEF A, F, G
<1>4. Sum(F) <= Sum(G) /\ Sum(F) \in Int /\ Sum(G) \in Int
  BY <1>1, <1>2, <1>3, SumMono, SumInt
<1> QED
  BY <1>1, <1>3, <1>4

\* What is asked for grows.
LEMMA AskedGrows ==
    ASSUME TInv, TInv', Grows, NEW q \in Scenarios \X ToSet(Queries)
    PROVE  /\ Credited(q) <= Credited(q)' /\ Credited(q) \in Int /\ Credited(q)' \in Int
           /\ Total(q[1], q[2]) \in Int /\ Total(q[1], q[2])' \in Int
           /\ ~raced' => Total(q[1], q[2]) <= Total(q[1], q[2])'
<1>1. AskedOK /\ AskedOK'
  BY AskedAre, PTL
<1>2. PICK A, B, F, G, f, g :
          /\ A = Asked(q) /\ B = Asked(q)'
          /\ F = [p \in A |-> values[p]] /\ G = [p \in B |-> values'[p]]
          /\ f = [p \in A |-> Credit(Plain, p)] /\ g = [p \in B |-> Credit(Plain, p)']
  OBVIOUS
<1>3. /\ IsFiniteSet(A) /\ IsFiniteSet(B)
      /\ F \in [A -> Int] /\ f \in [A -> Int] /\ G \in [B -> Nat] /\ g \in [B -> Nat]
      /\ Total(q[1], q[2]) = Sum(F) /\ Total(q[1], q[2])' = Sum(G)
      /\ Credited(q) = Sum(f) /\ Credited(q)' = Sum(g)
  BY <1>1, <1>2 DEF AskedOK, Credited
<1>4. A \subseteq B /\ \A p \in A : p \in DOMAIN values /\ kinds[p[1]] = "Counter"
  BY <1>1, <1>2 DEF AskedOK, Grows, Asked, Selected
<1>5. \A p \in A : f[p] <= g[p] /\ (~raced' => F[p] <= G[p])
  BY <1>2, <1>4 DEF Grows
<1>6. \A p \in B : 0 <= g[p] /\ 0 <= G[p]
  BY <1>3
<1>7. g \in [B -> Int] /\ G \in [B -> Int]
  BY <1>3
<1>8. Sum(f) <= Sum(g)
  BY <1>3, <1>4, <1>5, <1>6, <1>7, SumWithin
<1>9. ~raced' => Sum(F) <= Sum(G)
  BY <1>3, <1>4, <1>5, <1>6, <1>7, SumWithin
<1>10. Sum(f) \in Int /\ Sum(g) \in Int /\ Sum(F) \in Int /\ Sum(G) \in Int
  BY <1>3, <1>7, SumInt
<1> QED
  BY <1>3, <1>8, <1>9, <1>10
LEMMA ReadKeeps ==
    ASSUME RInv, TInv', Grows, UNCHANGED read \/ ReadQuery
    PROVE  /\ ReadOK'
           /\ ~raced' => \A q \in DOMAIN read : read'[q] >= read[q]
<1>0. /\ TInv /\ DOMAIN read = Scenarios \X ToSet(Queries)
      /\ \A q \in DOMAIN read : read[q] \in Int /\ read[q] <= Credited(q)
      /\ ~raced => \A q \in DOMAIN read : read[q] <= Total(q[1], q[2])
  BY DEF RInv, ReadOK
<1>1. \A q \in DOMAIN read :
          /\ Credited(q) <= Credited(q)' /\ Credited(q) \in Int /\ Credited(q)' \in Int
          /\ Total(q[1], q[2]) \in Int /\ Total(q[1], q[2])' \in Int
          /\ ~raced' => Total(q[1], q[2]) <= Total(q[1], q[2])'
          /\ Total(q[1], q[2]) <= Credited(q)
  BY <1>0, AskedGrows, TotalCredited
<1>2. ~raced' => ~raced
  BY DEF Grows
<1>3. DOMAIN read' = DOMAIN read
  BY DEF ReadQuery
<1>4. \A q \in DOMAIN read : read'[q] = read[q] \/ read'[q] = Total(q[1], q[2])
  BY DEF ReadQuery
<1>5. ASSUME NEW q \in DOMAIN read
      PROVE  /\ read'[q] \in Int /\ read'[q] <= Credited(q)'
             /\ ~raced' => read'[q] <= Total(q[1], q[2])' /\ read'[q] >= read[q]
  BY <1>0, <1>1, <1>2, <1>4
<1> QED
  BY <1>0, <1>3, <1>5 DEF ReadOK

LEMMA RNext == RInv /\ [RecordNext]_recordVars => RInv'
<1> SUFFICES ASSUME RInv, [RecordNext]_recordVars PROVE RInv'
  OBVIOUS
<1>1. TInv /\ TInv'
  BY TNext DEF RInv
<1>2. Grows
  BY <1>1, StepGrows
<1>3. UNCHANGED read \/ ReadQuery
  BY DEF RecordNext, RecordStep, ScriptCall, EnterGroup, LeaveGroup, EndIteration, GetHandle,
         InsertSeries, ApplyTo, BeginTick, recordVars, live
<1>4. ReadOK'
  BY <1>1, <1>2, <1>3, ReadKeeps
<1>5. ReachedOK' /\ ExactOK' /\ AheadOK'
  <2>1. ASSUME NEW v \in VuIds, NEW c \in plan.menu, ScriptCall(v, c)
        PROVE  ReachedOK' /\ ExactOK' /\ AheadOK'
    BY <1>1, <2>1, CallBegins, BeginsKeeps
  <2>2. ASSUME NEW v \in VuIds, NEW success \in BOOLEAN, EndIteration(v, success)
        PROVE  ReachedOK' /\ ExactOK' /\ AheadOK'
    BY <1>1, <2>2, IterationBegins, BeginsKeeps
  <2>3. ASSUME NEW v \in VuIds, InsertSeries(v) PROVE ReachedOK' /\ ExactOK' /\ AheadOK'
    BY <1>1, <2>3, InsertKeeps
  <2>4. ASSUME NEW v \in VuIds, ApplyTo(v) PROVE ReachedOK' /\ ExactOK' /\ AheadOK'
    BY <1>1, <2>4, ApplyKeeps
  <2>5. ASSUME NEW v \in VuIds, GetHandle(v) PROVE Idle
    BY <2>5 DEF Idle, GetHandle, script
  <2>6. ASSUME NEW v \in VuIds, NEW g, EnterGroup(v, g) \/ LeaveGroup(v) PROVE Idle
    BY <2>6 DEF Idle, EnterGroup, LeaveGroup, metrics
  <2>7. ASSUME BeginTick \/ ReadQuery \/ UNCHANGED recordVars PROVE Idle
    BY <2>7 DEF Idle, BeginTick, ReadQuery, recordVars, metrics, script
  <2> QED
    BY <2>1, <2>2, <2>3, <2>4, <2>5, <2>6, <2>7, IdleKeeps DEF RecordNext, RecordStep
<1> QED
  BY <1>1, <1>4, <1>5 DEF RInv

THEOREM RecordInvariant == RecordSpec => []RInv
BY RInit, RNext, PTL DEF RecordSpec

\* As long as no series was inserted over another, the totals that the progress task
\* reads never fall from one tick to the next: counters only grow, series are never
\* removed, and each query reads all of its series at once.
THEOREM TotalsNeverFall == RecordSpec => LiveNeverFalls
<1>1. ASSUME RInv, RInv', [RecordNext]_recordVars
      PROVE  [~raced' => \A q \in DOMAIN read : read'[q] >= read[q]]_recordVars
  <2>1. TInv /\ TInv'
    BY <1>1 DEF RInv
  <2>2. Grows
    BY <1>1, <2>1, StepGrows
  <2>3. UNCHANGED read \/ ReadQuery
    BY <1>1 DEF RecordNext, RecordStep, ScriptCall, EnterGroup, LeaveGroup, EndIteration,
         GetHandle, InsertSeries, ApplyTo, BeginTick, recordVars, live
  <2> QED
    BY <1>1, <2>1, <2>2, <2>3, ReadKeeps
<1> QED
  BY <1>1, RecordInvariant, PTL DEF RecordSpec, LiveNeverFalls
-----------------------------------------------------------------------------
(* The bag of the values that the calls have given to some series: what is *)
(* in it, weighed, is what they give to each, summed up.                   *)

Weigh(w, bag) == Sum([n \in DOMAIN bag |-> w[n] * bag[n]])

LEMMA GivenFacts ==
    ASSUME TInv, NEW P, IsFiniteSet(P)
    PROVE  /\ IsFiniteSet(Given(P))
           /\ \A x \in Given(P) : /\ x[1] \in DOMAIN log /\ x[2] \in P /\ x = <<x[1], x[2]>>
                                  /\ x[2] \in Reached(x[1]) /\ Counts(x[1], x[2])
                                  /\ ValueAt(x[1], x[2]) \in Int /\ log[x[1]] \in Nat \ {0}
           /\ \A e \in DOMAIN log, p \in P :
                 p \in Reached(e) /\ Counts(e, p) => <<e, p>> \in Given(P)
<1>1. IsFiniteSet(DOMAIN log) /\ \A e \in DOMAIN log : log[e] \in Nat \ {0} /\ IsEntry(e)
  BY DEF TInv, LogOK, IsBag
<1>2. PICK L : L = DOMAIN log
  OBVIOUS
<1>3. IsFiniteSet(L \X P)
  <2>1. IsFiniteSet(L)
    BY <1>1, <1>2
  <2> QED
    BY <2>1, FS_Product
<1>4. IsFiniteSet(Given(P))
  <2>1. \A x \in Given(P) : x \in L \X P
    BY <1>2 DEF Given, BagToSet
  <2>2. Given(P) \in SUBSET (L \X P)
    BY <2>1
  <2> QED
    BY <1>3, <2>2, FS_Subset
<1>5. ASSUME NEW x \in Given(P)
      PROVE  /\ x[1] \in DOMAIN log /\ x[2] \in P /\ x = <<x[1], x[2]>>
             /\ x[2] \in Reached(x[1]) /\ Counts(x[1], x[2])
             /\ ValueAt(x[1], x[2]) \in Int /\ log[x[1]] \in Nat \ {0}
  <2>1. /\ x[1] \in DOMAIN log /\ x[2] \in P /\ x = <<x[1], x[2]>>
        /\ x[2] \in Reached(x[1]) /\ Counts(x[1], x[2])
    BY DEF Given, BagToSet
  <2> QED
    BY <1>1, <2>1, EntryFacts DEF TInv
<1>6. ASSUME NEW e \in DOMAIN log, NEW p \in P, p \in Reached(e), Counts(e, p)
      PROVE  <<e, p>> \in Given(P)
  BY <1>6 DEF Given, BagToSet
<1> QED
  BY <1>4, <1>5, <1>6

\* What the calls give to p, entry by entry or pair by pair.
LEMMA CreditOf ==
    ASSUME TInv, NEW P, IsFiniteSet(P), NEW w \in Weights, NEW p \in P,
           NEW X, X = {x \in Given(P) : x[2] = p},
           NEW f \in [X -> Int], \A x \in X : f[x] = w[ValueAt(x[1], x[2])] * log[x[1]]
    PROVE  Sum(f) = Credit(w, p)
<1> DEFINE E == {e \in DOMAIN log : p \in Reached(e) /\ Counts(e, p)}
           b == [x \in X |-> x[1]]
           g == GivenBy(w, p)
           h == Restrict(g, E)
<1>1. /\ IsFiniteSet(Given(P))
      /\ \A x \in Given(P) : /\ x[1] \in DOMAIN log /\ x[2] \in P /\ x = <<x[1], x[2]>>
                             /\ x[2] \in Reached(x[1]) /\ Counts(x[1], x[2])
      /\ \A e \in DOMAIN log, q \in P :
            q \in Reached(e) /\ Counts(e, q) => <<e, q>> \in Given(P)
  BY GivenFacts
<1>2. IsFiniteSet(X)
  BY <1>1, FS_Subset
<1>3. b \in [X -> E] /\ \A x \in X : b[x] = x[1]
  BY <1>1
<1>4. \A x, y \in X : b[x] = b[y] => x = y
  <2>1. ASSUME NEW x \in X, NEW y \in X, b[x] = b[y] PROVE x = y
    <3>1. x = <<x[1], p>> /\ y = <<y[1], p>>
      BY <1>1
    <3>2. x[1] = y[1]
      BY <1>3, <2>1
    <3> QED
      BY <3>1, <3>2, Zenon
  <2> QED
    BY <2>1
<1>5. \A e \in E : \E x \in X : b[x] = e
  <2>1. ASSUME NEW e \in E PROVE <<e, p>> \in X /\ b[<<e, p>>] = e
    <3>1. <<e, p>> \in Given(P) /\ <<e, p>>[2] = p /\ <<e, p>>[1] = e
      BY <1>1
    <3>2. <<e, p>> \in X
      BY <3>1
    <3> QED
      BY <3>1, <3>2
  <2> QED
    BY <2>1
<1>6. /\ IsFiniteSet(DOMAIN log) /\ g \in [DOMAIN log -> Int] /\ Credit(w, p) = Sum(g)
  BY BooksInt DEF Books
<1>7. \A e \in E : g[e] = w[ValueAt(e, p)] * log[e]
  BY DEF GivenBy, Share
<1>8. \A e \in DOMAIN log \ E : g[e] = 0
  <2>1. ASSUME NEW e \in DOMAIN log \ E PROVE g[e] = 0
    <3>1. Share(e, w, p) = 0 /\ log[e] \in Nat
      BY DEF Share, TInv, LogOK, IsBag
    <3> QED
      BY <3>1 DEF GivenBy
  <2> QED
    BY <2>1
<1>9. \A x \in X : x[2] = p /\ f[x] = w[ValueAt(b[x], p)] * log[b[x]]
  BY <1>3
<1> HIDE DEF b, g, E
<1>10. E \in SUBSET DOMAIN log
  BY DEF E
<1>11. h \in [E -> Int] /\ \A e \in E : h[e] = g[e]
  BY <1>6, <1>10 DEF Restrict
<1>12. Sum(g) = Sum(h)
  <2>1. Sum(g) = Sum(h) + Sum(Restrict(g, DOMAIN log \ E))
    BY <1>6, <1>10, SumSplit
  <2>2. Sum(Restrict(g, DOMAIN log \ E)) = 0
    <3>1. DOMAIN log \ E \in SUBSET DOMAIN log
      OBVIOUS
    <3>2. /\ IsFiniteSet(DOMAIN log \ E)
          /\ Restrict(g, DOMAIN log \ E) \in [DOMAIN log \ E -> Int]
      BY <1>6, <3>1, SumPart
    <3>3. \A e \in DOMAIN log \ E : Restrict(g, DOMAIN log \ E)[e] = 0
      BY <1>8 DEF Restrict
    <3> QED
      BY <3>2, <3>3, SumZero
  <2>3. Sum(h) \in Int
    BY <1>6, <1>10, SumPart
  <2> QED
    BY <2>1, <2>2, <2>3
<1> HIDE DEF h
<1>13. \A x \in X : f[x] = h[b[x]]
  BY <1>3, <1>7, <1>9, <1>11
<1>14. Sum(f) = Sum(h)
  BY <1>2, <1>3, <1>4, <1>5, <1>11, <1>13, SumRename
<1> QED
  BY <1>6, <1>12, <1>14

LEMMA BagWeighs ==
    ASSUME TInv, NEW P, IsFiniteSet(P), NEW w \in Weights
    PROVE  /\ [p \in P |-> Credit(w, p)] \in [P -> Int]
           /\ Weigh(w, Bag(P)) = Sum([p \in P |-> Credit(w, p)])
<1> DEFINE D == Given(P)
           a == [x \in D |-> ValueAt(x[1], x[2])]
           c == [x \in D |-> log[x[1]]]
           N == {a[x] : x \in D}
           f == [x \in D |-> w[a[x]] * c[x]]
           b == [x \in D |-> x[2]]
           G == [p \in P |-> Sum(Restrict(f, {x \in D : b[x] = p}))]
<1>1. /\ IsFiniteSet(D)
      /\ \A x \in D : x[2] \in P /\ ValueAt(x[1], x[2]) \in Int /\ log[x[1]] \in Nat \ {0}
  BY GivenFacts
<1>2. a \in [D -> Int] /\ c \in [D -> Int] /\ b \in [D -> P] /\ w \in [Int -> Int]
  BY <1>1 DEF Weights
<1>3. Bag(P) = [n \in N |-> Sum([x \in {y \in D : a[y] = n} |-> c[x]])]
  <2>1. N = {ValueAt(x[1], x[2]) : x \in D}
    OBVIOUS
  <2>2. \A n : {y \in D : a[y] = n} = {y \in D : ValueAt(y[1], y[2]) = n}
    OBVIOUS
  <2>3. \A n : [x \in {y \in D : a[y] = n} |-> c[x]]
                = [x \in {y \in D : ValueAt(y[1], y[2]) = n} |-> log[x[1]]]
    BY <2>2
  <2> QED
    BY <2>1, <2>3 DEF Bag
<1>4. DOMAIN Bag(P) = N /\ \A n \in N : Bag(P)[n] = Sum([x \in {y \in D : a[y] = n} |-> c[x]])
  BY <1>3
<1>5. Weigh(w, Bag(P)) = Sum([n \in N |-> w[n] * Sum([x \in {y \in D : a[y] = n} |-> c[x]])])
  BY <1>4 DEF Weigh
<1>6. f \in [D -> Int] /\ Weigh(w, Bag(P)) = Sum(f)
  <2>1. f = OneByOne(D, a, c, w)
    BY DEF OneByOne
  <2>2. Weigh(w, Bag(P)) = ByValue(D, a, c, w)
    BY <1>5 DEF ByValue
  <2> HIDE DEF D, a, c, f
  <2>3. PICK A, u, v : A = D /\ u = a /\ v = c
    OBVIOUS
  <2>4. IsFiniteSet(A) /\ u \in [A -> Int] /\ v \in [A -> Int] /\ w \in [Int -> Int]
    BY <1>1, <1>2, <2>3, Zenon
  <2>5. /\ OneByOne(A, u, v, w) \in [A -> Int]
        /\ ByValue(A, u, v, w) = Sum(OneByOne(A, u, v, w))
    BY <2>4, SumByValue
  <2> QED
    BY <2>1, <2>2, <2>3, <2>5, Zenon
<1>7. Sum(f) = Sum(G)
  <2> HIDE DEF D, a, c, b, f
  <2> QED
    BY <1>1, <1>2, <1>6, SumBy
<1>8. ASSUME NEW p \in P PROVE Sum(Restrict(f, {x \in D : b[x] = p})) = Credit(w, p)
  <2>1. PICK X : X = {x \in D : b[x] = p}
    OBVIOUS
  <2>2. X = {x \in Given(P) : x[2] = p} /\ X \in SUBSET D
    BY <2>1
  <2>3. \A x \in D : f[x] = w[ValueAt(x[1], x[2])] * log[x[1]]
    OBVIOUS
  <2> HIDE DEF D, a, c, b, f
  <2>4. Restrict(f, X) \in [X -> Int] /\ \A x \in X : Restrict(f, X)[x] = f[x]
    BY <1>6, <2>2 DEF Restrict
  <2>5. \A x \in X : Restrict(f, X)[x] = w[ValueAt(x[1], x[2])] * log[x[1]]
    BY <2>2, <2>3, <2>4
  <2>6. Sum(Restrict(f, X)) = Credit(w, p)
    BY <2>2, <2>4, <2>5, CreditOf
  <2> QED
    BY <2>1, <2>6
<1>9. G = [p \in P |-> Credit(w, p)]
  <2> HIDE DEF D, b, f
  <2> QED
    BY <1>8
<1>10. [p \in P |-> Credit(w, p)] \in [P -> Int]
  BY BooksInt DEF Books
<1> QED
  BY <1>6, <1>7, <1>9, <1>10

LEMMA BagIs ==
    ASSUME TInv, NEW P, IsFiniteSet(P)
    PROVE  IsBag(Bag(P)) /\ DOMAIN Bag(P) \subseteq Int
<1> DEFINE D == Given(P)
           N == {ValueAt(x[1], x[2]) : x \in D}
           At(n) == {y \in D : ValueAt(y[1], y[2]) = n}
           a == [x \in D |-> ValueAt(x[1], x[2])]
<1>1. /\ IsFiniteSet(D)
      /\ \A x \in D : ValueAt(x[1], x[2]) \in Int /\ log[x[1]] \in Nat \ {0}
  BY GivenFacts
<1>2. Bag(P) = [n \in N |-> Sum([x \in At(n) |-> log[x[1]]])]
  BY DEF Bag
<1>3. IsFiniteSet(N) /\ N \subseteq Int
  <2>1. N = {a[x] : x \in D}
    OBVIOUS
  <2>2. IsFiniteSet({a[x] : x \in D})
    <3> HIDE DEF D, a
    <3> QED
      BY <1>1, ImageFinite
  <2> QED
    BY <1>1, <2>1, <2>2
<1>4. ASSUME NEW n \in N PROVE Sum([x \in At(n) |-> log[x[1]]]) \in Nat \ {0}
  <2>1. PICK A : A = At(n)
    OBVIOUS
  <2>2. A # {} /\ A \subseteq D /\ IsFiniteSet(A)
    BY <1>1, <2>1, FS_Subset
  <2>3. [x \in A |-> log[x[1]]] \in [A -> Nat \ {0}]
    BY <1>1, <2>2
  <2>4. Sum([x \in A |-> log[x[1]]]) \in Nat \ {0}
    BY <2>2, <2>3, SumPositive
  <2> QED
    BY <2>1, <2>4
<1> HIDE DEF N, At
<1> QED
  BY <1>2, <1>3, <1>4 DEF IsBag
\* Bags of integers, by their weights.
LEMMA WeighPlain ==
    ASSUME NEW bag, DOMAIN bag \subseteq Int
    PROVE  Weigh(Plain, bag) = Plus(bag)
<1>1. \A n \in DOMAIN bag : Plain[n] = n
  BY DEF Plain
<1>2. [n \in DOMAIN bag |-> Plain[n] * bag[n]] = [n \in DOMAIN bag |-> n * bag[n]]
  BY <1>1
<1> QED
  BY <1>2 DEF Weigh, Plus

LEMMA WeighUnit ==
    ASSUME NEW bag, IsBag(bag), DOMAIN bag \subseteq Int
    PROVE  Weigh(Unit, bag) = Count(bag)
<1>1. \A n \in DOMAIN bag : Unit[n] = 1 /\ bag[n] \in Nat
  BY DEF Unit, IsBag
<1>2. \A n \in DOMAIN bag : Unit[n] * bag[n] = bag[n]
  BY <1>1
<1>3. [n \in DOMAIN bag |-> Unit[n] * bag[n]] = bag
  BY <1>2 DEF IsBag
<1> QED
  BY <1>3 DEF Weigh, Count

LEMMA WeighSingle ==
    ASSUME NEW bag, IsBag(bag), DOMAIN bag \subseteq Int, NEW m \in Int
    PROVE  Weigh(Single(m), bag) = Copies(m, bag)
<1> DEFINE f == [n \in DOMAIN bag |-> Single(m)[n] * bag[n]]
<1>1. \A n \in DOMAIN bag : bag[n] \in Nat /\ Single(m)[n] = IF n = m THEN 1 ELSE 0
  BY DEF Single, IsBag
<1>2. \A n \in DOMAIN bag : f[n] = IF n = m THEN bag[n] ELSE 0
  BY <1>1
<1>3. f \in [DOMAIN bag -> Int]
  BY <1>1, <1>2
<1>4. IsFiniteSet(DOMAIN bag)
  BY DEF IsBag
<1>5. Weigh(Single(m), bag) = Sum(f)
  BY DEF Weigh
<1> HIDE DEF f
<1>6. CASE m \in DOMAIN bag
  BY <1>2, <1>3, <1>4, <1>5, <1>6, SumOnly DEF Copies
<1>7. CASE m \notin DOMAIN bag
  BY <1>2, <1>3, <1>4, <1>5, <1>7, SumZero DEF Copies
<1> QED
  BY <1>6, <1>7

LEMMA SameBags ==
    ASSUME NEW a, NEW b, IsBag(a), IsBag(b), DOMAIN a \subseteq Int, DOMAIN b \subseteq Int,
           \A m \in Int : Copies(m, a) = Copies(m, b)
    PROVE  a = b
<1>1. \A m \in Int : m \in DOMAIN a <=> m \in DOMAIN b
  BY DEF IsBag, Copies
<1>2. DOMAIN a = DOMAIN b
  BY <1>1
<1>3. \A m \in DOMAIN a : a[m] = b[m]
  BY <1>2 DEF Copies
<1> QED
  BY <1>2, <1>3 DEF IsBag

\* What is in the bag of one series.
LEMMA BagOfOne ==
    ASSUME TInv, NEW p, NEW w \in Weights
    PROVE  Weigh(w, Bag({p})) = Credit(w, p)
<1>1. IsFiniteSet({p})
  BY FS_Singleton
<1>2. PICK c : c = Credit(w, p)
  OBVIOUS
<1>3. c \in Int
  BY <1>2, BooksInt DEF Books
<1>4. [q \in {p} |-> Credit(w, q)] = [q \in {p} |-> c]
  BY <1>2
<1>5. Sum([q \in {p} |-> c]) = c
  <2> DEFINE f == [q \in {p} |-> c]
  <2>1. f \in [{p} -> Int] /\ f[p] = c /\ p \in {p}
    BY <1>3
  <2> HIDE DEF f
  <2> QED
    BY <1>1, <2>1, SumOnly DEF f
<1>6. Weigh(w, Bag({p})) = Sum([q \in {p} |-> Credit(w, q)])
  BY <1>1, BagWeighs
<1> QED
  BY <1>2, <1>4, <1>5, <1>6, Zenon

-----------------------------------------------------------------------------

\* Raced or not, the progress task never reads more of a counter than the calls that
\* have begun give to it.
THEOREM TotalsNeverAhead == RecordSpec => []LiveNeverAhead
<1>1. ASSUME RInv PROVE LiveNeverAhead
  <2> SUFFICES ASSUME NEW q \in DOMAIN read PROVE read[q] <= Plus(Bag(Asked(q)))
    BY DEF LiveNeverAhead, Asked
  <2>1. q \in Scenarios \X ToSet(Queries) /\ read[q] <= Credited(q)
    BY <1>1 DEF RInv, ReadOK
  <2>2. PICK P : P = Asked(q)
    OBVIOUS
  <2>3. TInv /\ IsFiniteSet(P)
    BY <1>1, <2>1, <2>2, AskedAre DEF RInv, AskedOK
  <2>4. Weigh(Plain, Bag(P)) = Sum([p \in P |-> Credit(Plain, p)])
    BY <2>3, BagWeighs, WeightsAre
  <2>5. Weigh(Plain, Bag(P)) = Plus(Bag(P))
    <3>1. DOMAIN Bag(P) \subseteq Int
      BY <2>3, BagIs
    <3>2. PICK b : b = Bag(P)
      OBVIOUS
    <3>3. Weigh(Plain, b) = Plus(b)
      BY <3>1, <3>2, WeighPlain
    <3> QED
      BY <3>2, <3>3
  <2>6. Credited(q) = Sum([p \in P |-> Credit(Plain, p)])
    BY <2>2 DEF Credited
  <2> QED
    BY <2>1, <2>2, <2>4, <2>5, <2>6
<1> QED
  BY <1>1, RecordInvariant, PTL
\* Who has no updates left owes nothing.
LEMMA QuietBooks ==
    ASSUME TInv, Quiet, NEW w \in Weights, NEW p
    PROVE  Balance(w, p) = Credit(w, p)
<1>1. /\ IsFiniteSet(VuIds) /\ OwedBy(w, p) \in [VuIds -> Int] /\ Due(w, p) = Sum(OwedBy(w, p))
      /\ Credit(w, p) \in Int
  BY BooksInt DEF Books
<1>2. ASSUME NEW v \in VuIds PROVE OwedBy(w, p)[v] = 0
  <2>1. todo[v] = <<>>
    BY DEF Quiet
  <2>2. ~\E i \in DOMAIN todo[v] : Hits(todo[v][i], kinds[p[1]], p)
    BY <2>1
  <2>3. Owes(todo[v], kinds[p[1]], w, p) = 0
    BY <2>2 DEF Owes
  <2> QED
    BY <2>3 DEF OwedBy
<1>3. PICK f : f = OwedBy(w, p)
  OBVIOUS
<1>4. Sum(f) = 0
  BY <1>1, <1>2, <1>3, SumZero
<1> QED
  BY <1>1, <1>3, <1>4 DEF Balance

\* When nobody has updates left, and no series was inserted over another, the series
\* are those that the logged calls reach, and each has the values they give to it.
THEOREM SeriesAreExact == RecordSpec => []SeriesExact
<1>1. ASSUME RInv PROVE SeriesExact
  <2> SUFFICES ASSUME Quiet, ~raced
               PROVE  /\ DOMAIN values = UNION {Reached(e) : e \in BagToSet(log)}
                      /\ \A p \in DOMAIN values : values[p] = Made(kinds[p[1]], Bag({p}))
    BY DEF SeriesExact
  <2>1. TInv
    BY <1>1 DEF RInv
  <2>2. DOMAIN values = UNION {Reached(e) : e \in BagToSet(log)}
    <3>1. \A v \in VuIds : DOMAIN todo[v] = {}
      BY DEF Quiet
    <3>2. \A p \in DOMAIN values : \E e \in DOMAIN log : p \in Reached(e)
      BY <1>1 DEF RInv, ReachedOK
    <3>3. \A e \in DOMAIN log : \A p \in Reached(e) : p \in DOMAIN values
      BY <1>1, <3>1 DEF RInv, ReachedOK
    <3> QED
      BY <3>2, <3>3 DEF BagToSet
  <2>3. ASSUME NEW p \in DOMAIN values PROVE values[p] = Made(kinds[p[1]], Bag({p}))
    <3>1. Fits(p)
      BY <1>1 DEF RInv, ExactOK
    <3>2. PICK b : b = Bag({p})
      OBVIOUS
    <3>3. IsBag(b) /\ DOMAIN b \subseteq Int
      BY <2>1, <3>2, BagIs, FS_Singleton
    <3>4. \A w \in Weights : Weigh(w, b) = Balance(w, p)
      BY <2>1, <3>2, BagOfOne, QuietBooks
    <3>5. Plus(b) = Balance(Plain, p) /\ Count(b) = Balance(Unit, p)
      BY <3>3, <3>4, WeighPlain, WeighUnit, WeightsAre
    <3>6. \A m \in Int : Copies(m, b) = Balance(Single(m), p)
      BY <3>3, <3>4, WeighSingle, WeightsAre
    <3>7. p[1] \in DOMAIN kinds /\ IsValue(kinds[p[1]], values[p]) /\ kinds[p[1]] \in Kinds
      BY <2>1 DEF TInv, SeriesOK, IsSeries, KindsOK
    <3>8. CASE kinds[p[1]] \in {"Counter", "Gauge"}
      <4>1. Made(kinds[p[1]], b) = Plus(b)
        BY <3>8 DEF Made
      <4> QED
        BY <3>1, <3>2, <3>5, <3>8, <4>1 DEF Fits
    <3>9. CASE kinds[p[1]] = "Rate"
      <4>1. Made(kinds[p[1]], b) = [total |-> Count(b), hits |-> Plus(b)]
        BY <3>9 DEF Made
      <4>2. values[p] \in [total : Nat, hits : Int]
        BY <3>7, <3>9 DEF IsValue
      <4>3. values[p].total = Count(b) /\ values[p].hits = Plus(b)
        BY <3>1, <3>5, <3>9 DEF Fits
      <4>4. values[p] = [total |-> Count(b), hits |-> Plus(b)]
        BY <4>2, <4>3
      <4> QED
        BY <3>2, <4>1, <4>4
    <3>10. CASE kinds[p[1]] = "Histogram"
      <4>1. Made(kinds[p[1]], b) = b
        BY <3>10 DEF Made
      <4>2. IsBag(values[p]) /\ DOMAIN values[p] \subseteq Int
        BY <3>7, <3>10 DEF IsValue
      <4>3. \A m \in Int : Copies(m, values[p]) = Copies(m, b)
        BY <3>1, <3>6, <3>10 DEF Fits
      <4>4. PICK a : a = values[p]
        OBVIOUS
      <4>5. a = b
        BY <3>3, <4>2, <4>3, <4>4, SameBags
      <4> QED
        BY <3>2, <4>1, <4>4, <4>5
    <3> QED
      BY <3>7, <3>8, <3>9, <3>10 DEF Kinds
  <2> QED
    BY <2>2, <2>3
<1> QED
  BY <1>1, RecordInvariant, PTL
-----------------------------------------------------------------------------
(* The summary: which series of a metric a call goes to. *)

LEMMA RecordedAt ==
    ASSUME NEW e, IsEntry(e)
    PROVE  \A r \in Recorded(e) : ValueAt(e, <<r.metric, r.tags>>) = r.value
<1>1. PICK us : Faithful(us, e)
  BY EntryFaithful
<1>2. \A u \in ToSet(us) : ValueAt(e, KeyOf(u)) = u.value.n
  BY <1>1, FaithfulAt, Zenon
<1>3. \A u : /\ Rec(u).value = u.value.n
             /\ <<Rec(u).metric, Rec(u).tags>> = KeyOf(u)
  BY DEF Rec, KeyOf
<1> SUFFICES ASSUME NEW r \in Recorded(e)
             PROVE  ValueAt(e, <<r.metric, r.tags>>) = r.value
  OBVIOUS
<1>4. PICK u \in ToSet(us) : r = Rec(u)
  BY <1>1 DEF Faithful
<1> QED
  BY <1>2, <1>3, <1>4

\* The series of metric m with some tags of the runner's own.
Place(e, m, base) == <<m, GoesTags(e, base)>>

LEMMA PlaceOf ==
    ASSUME NEW e, IsEntry(e), NEW m, NEW base, NEW n, Goes(e, m, base, n) \in Recorded(e)
    PROVE  Place(e, m, base) \in Reached(e) /\ ValueAt(e, Place(e, m, base)) = n
<1>1. PICK r : r = Goes(e, m, base, n)
  OBVIOUS
<1>2. r.metric = m /\ r.value = n /\ r.tags = GoesTags(e, base)
  BY <1>1, GoesIs
<1>3. <<r.metric, r.tags>> = Place(e, m, base)
  BY <1>2 DEF Place
<1>4. r \in Recorded(e)
  BY <1>1
<1> QED
  BY <1>2, <1>3, <1>4, RecordedAt DEF Reached

\* The runner's own tags win.
LEMMA PlaceTags ==
    ASSUME NEW e, NEW m, NEW base
    PROVE  /\ Place(e, m, base)[1] = m
           /\ \A t \in base : t \in Place(e, m, base)[2]
           /\ \A t \in Place(e, m, base)[2] : t \in base \/ \A u \in base : u[1] # t[1]
           /\ Requested(e) => \A t \in Place(e, m, base)[2] : t \in base \/ t[1] \notin Reserved
<1>1. Place(e, m, base)[1] = m /\ Place(e, m, base)[2] = GoesTags(e, base)
  BY DEF Place
<1>2. \A t : t \in GoesTags(e, base) <=>
                \/ t \in base
                \/ /\ t \in IF Requested(e) THEN Others(Own(e), Reserved) ELSE Own(e)
                   /\ \A u \in base : u[1] # t[1]
  BY OverIn DEF GoesTags
<1> QED
  BY <1>1, <1>2 DEF Others

InTags(e)    == {<<"scenario", e.scenario>>}
ViaTags(e)   == InTags(e) \union {<<"protocol", e.call.op>>}
StatusOf(e)  == IF e.call.op = "check" THEN (IF e.call.passed THEN "pass" ELSE "fail")
                ELSE IF e.call.success THEN "success" ELSE "failure"
BaseTags(e)  == InTags(e) \union {<<"status", StatusOf(e)>>}
CheckTags(e) == BaseTags(e) \union {<<"name", e.call.name>>}
KindTags(e)  == ViaTags(e) \union {<<"error_kind", e.call.error>>}
LatencyOf(e) == IF e.call.latency < 1 THEN 1 ELSE e.call.latency

\* The series that a request goes to, with what it gives to the runner's totals.
LEMMA RequestPlaces ==
    ASSUME NEW e, IsEntry(e), Requested(e)
    PROVE  /\ \A p \in Reached(e) :
                 \/ p = Place(e, "requests_total", ViaTags(e))
                 \/ p = Place(e, "bytes_received_total", ViaTags(e))
                 \/ p = Place(e, "bytes_sent_total", ViaTags(e))
                 \/ p = Place(e, "request_latency", InTags(e))
                 \/ p = Place(e, "request_latency", ViaTags(e))
                 \/ ~e.call.ok /\ p = Place(e, "request_errors_total", ViaTags(e))
                 \/ ~e.call.ok /\ p = Place(e, "request_errors_by_kind_total", KindTags(e))
           /\ Place(e, "requests_total", ViaTags(e)) \in Reached(e)
           /\ ValueAt(e, Place(e, "requests_total", ViaTags(e))) = 1
           /\ Place(e, "request_latency", InTags(e)) \in Reached(e)
           /\ ValueAt(e, Place(e, "request_latency", InTags(e))) = LatencyOf(e)
           /\ ~e.call.ok => /\ Place(e, "request_errors_total", ViaTags(e)) \in Reached(e)
                            /\ ValueAt(e, Place(e, "request_errors_total", ViaTags(e))) = 1
<1> DEFINE c == e.call
           received == IF c.ok THEN c.received ELSE 0
           sent     == IF c.ok \/ c.op = "grpc" THEN c.sent ELSE 0
<1>1. Recorded(e) =
        {Goes(e, "requests_total", ViaTags(e), 1),
         Goes(e, "bytes_received_total", ViaTags(e), received),
         Goes(e, "bytes_sent_total", ViaTags(e), sent),
         Goes(e, "request_latency", InTags(e), LatencyOf(e)),
         Goes(e, "request_latency", ViaTags(e), LatencyOf(e))}
        \union (IF c.ok THEN {}
                ELSE {Goes(e, "request_errors_total", ViaTags(e), 1),
                      Goes(e, "request_errors_by_kind_total", KindTags(e), 1)})
  BY DEF Recorded, Requested, ViaTags, InTags, KindTags, LatencyOf
<1>2. \A m, base, n : /\ Goes(e, m, base, n).metric = m
                      /\ Goes(e, m, base, n).tags = GoesTags(e, base)
  BY GoesIs
<1> HIDE DEF received, sent, c
<1>3. ASSUME NEW p \in Reached(e)
      PROVE  \/ p = Place(e, "requests_total", ViaTags(e))
             \/ p = Place(e, "bytes_received_total", ViaTags(e))
             \/ p = Place(e, "bytes_sent_total", ViaTags(e))
             \/ p = Place(e, "request_latency", InTags(e))
             \/ p = Place(e, "request_latency", ViaTags(e))
             \/ ~e.call.ok /\ p = Place(e, "request_errors_total", ViaTags(e))
             \/ ~e.call.ok /\ p = Place(e, "request_errors_by_kind_total", KindTags(e))
  <2>1. PICK r \in Recorded(e) : p = <<r.metric, r.tags>>
    BY DEF Reached
  <2>2. \A m, base, n : r = Goes(e, m, base, n) => p = Place(e, m, base)
    BY <1>2, <2>1 DEF Place
  <2> QED
    BY <1>1, <2>1, <2>2 DEF c
<1>4. /\ Goes(e, "requests_total", ViaTags(e), 1) \in Recorded(e)
      /\ Goes(e, "request_latency", InTags(e), LatencyOf(e)) \in Recorded(e)
      /\ ~e.call.ok => Goes(e, "request_errors_total", ViaTags(e), 1) \in Recorded(e)
  BY <1>1 DEF c
<1>5. /\ Place(e, "requests_total", ViaTags(e)) \in Reached(e)
      /\ ValueAt(e, Place(e, "requests_total", ViaTags(e))) = 1
  BY <1>4, PlaceOf
<1>6. /\ Place(e, "request_latency", InTags(e)) \in Reached(e)
      /\ ValueAt(e, Place(e, "request_latency", InTags(e))) = LatencyOf(e)
  BY <1>4, PlaceOf
<1>7. ~e.call.ok => /\ Place(e, "request_errors_total", ViaTags(e)) \in Reached(e)
                    /\ ValueAt(e, Place(e, "request_errors_total", ViaTags(e))) = 1
  BY <1>4, PlaceOf
<1> QED
  BY <1>3, <1>5, <1>6, <1>7

LEMMA CheckPlaces ==
    ASSUME NEW e, IsEntry(e), e.call.op = "check"
    PROVE  /\ Reached(e) = {Place(e, "checks", CheckTags(e))}
           /\ ValueAt(e, Place(e, "checks", CheckTags(e))) = 1
<1>1. Recorded(e) = {Goes(e, "checks", CheckTags(e), 1)}
  BY DEF Recorded, CheckTags, BaseTags, InTags, StatusOf
<1>2. /\ Goes(e, "checks", CheckTags(e), 1).metric = "checks"
      /\ Goes(e, "checks", CheckTags(e), 1).tags = GoesTags(e, CheckTags(e))
  BY GoesIs
<1>3. Reached(e) = {Place(e, "checks", CheckTags(e))}
  BY <1>1, <1>2 DEF Reached, Place
<1> QED
  BY <1>1, <1>3, PlaceOf

LEMMA IterationPlaces ==
    ASSUME NEW e, IsEntry(e), e.call.op = "iteration"
    PROVE  /\ Reached(e) = {Place(e, "iterations_total", BaseTags(e)),
                            Place(e, "iteration_duration", BaseTags(e))}
           /\ ValueAt(e, Place(e, "iterations_total", BaseTags(e))) = 1
<1>1. Recorded(e) = {Goes(e, "iterations_total", BaseTags(e), 1),
                     Goes(e, "iteration_duration", BaseTags(e), 1)}
  BY DEF Recorded, BaseTags, InTags, StatusOf
<1>2. \A m : /\ Goes(e, m, BaseTags(e), 1).metric = m
             /\ Goes(e, m, BaseTags(e), 1).tags = GoesTags(e, BaseTags(e))
  BY GoesIs
<1>3. Reached(e) = {Place(e, "iterations_total", BaseTags(e)),
                    Place(e, "iteration_duration", BaseTags(e))}
  BY <1>1, <1>2 DEF Reached, Place
<1> QED
  BY <1>1, <1>3, PlaceOf

LEMMA AddPlaces ==
    ASSUME NEW e, e.call.op = "add"
    PROVE  \A p \in Reached(e) : p[1] = e.call.metric
<1> DEFINE base == Over(OfCall(e), {<<"scenario", e.scenario>>})
<1>1. Recorded(e) = {Goes(e, e.call.metric, base, e.call.value.n)}
  BY DEF Recorded
<1> HIDE DEF base
<1>2. Goes(e, e.call.metric, base, e.call.value.n).metric = e.call.metric
  BY GoesIs
<1> QED
  BY <1>1, <1>2 DEF Reached

\* Scripts leave the runner's own metrics alone, and no latency is beyond the range of
\* its histogram.
Ordinary(c) ==
    /\ c.op = "add" => c.metric \notin DOMAIN Builtin
    /\ c.op \in {"http", "grpc"} => c.latency <= HistogramMax /\ 1 <= HistogramMax
OrdinaryPlans == \A p \in Plans : \A c \in p.menu : Ordinary(c)
OrdinaryLog   == \A e \in DOMAIN log : Ordinary(e.call)

LEMMA OrdinaryStep ==
    ASSUME OrdinaryPlans, RInv, OrdinaryLog, [RecordNext]_recordVars
    PROVE  OrdinaryLog'
<1>0. plan \in Plans
  BY DEF RInv, TInv, PhasesOK
<1>1. ASSUME NEW v, NEW c, Ordinary(c), Logged(v, c) PROVE OrdinaryLog'
  <2>1. DOMAIN log' = DOMAIN log \union {Entry(v, c)}
    BY <1>1, BagMore DEF Logged
  <2>2. Entry(v, c).call = c
    BY DEF Entry
  <2> QED
    BY <1>1, <2>1, <2>2 DEF OrdinaryLog
<1>2. ASSUME NEW v, NEW c \in plan.menu, ScriptCall(v, c) PROVE OrdinaryLog'
  BY <1>0, <1>1, <1>2 DEF OrdinaryPlans, ScriptCall
<1>3. ASSUME NEW v, NEW success \in BOOLEAN, EndIteration(v, success) PROVE OrdinaryLog'
  <2>1. Ordinary([op |-> "iteration", success |-> success])
    BY DEF Ordinary
  <2> QED
    BY <1>1, <1>3, <2>1 DEF EndIteration
<1>4. ASSUME UNCHANGED log PROVE OrdinaryLog'
  BY <1>4 DEF OrdinaryLog
<1> QED
  BY <1>2, <1>3, <1>4 DEF RecordNext, RecordStep, EnterGroup, LeaveGroup, GetHandle, InsertSeries,
       ApplyTo, BeginTick, ReadQuery, recordVars, script

\* Of some functions with numbers: only the part that is not zero counts.
LEMMA SumCut ==
    ASSUME NEW D, IsFiniteSet(D), NEW f \in [D -> Int], NEW E \in SUBSET D,
           \A x \in D \ E : f[x] = 0
    PROVE  Sum(f) = Sum(Restrict(f, E))
<1>1. D \ E \in SUBSET D
  OBVIOUS
<1>2. Sum(f) = Sum(Restrict(f, E)) + Sum(Restrict(f, D \ E))
  BY SumSplit
<1>3. IsFiniteSet(D \ E) /\ Restrict(f, D \ E) \in [D \ E -> Int] /\ Sum(Restrict(f, E)) \in Int
  BY <1>1, SumPart
<1>4. \A x \in D \ E : Restrict(f, D \ E)[x] = 0
  BY DEF Restrict
<1>5. Sum(Restrict(f, D \ E)) = 0
  BY <1>3, <1>4, SumZero
<1> QED
  BY <1>2, <1>3, <1>5

\* If each of the calls in E gives one to one of the series in P, and the others give
\* nothing to them, then the series get the number of the calls.
LEMMA CallsCounted ==
    ASSUME TInv, NEW P, IsFiniteSet(P), NEW w \in Weights, NEW E \in SUBSET DOMAIN log,
           NEW b \in [E -> P],
           \A e \in DOMAIN log, p \in P :
              Share(e, w, p) = IF e \in E /\ b[e] = p THEN 1 ELSE 0
    PROVE  Sum([p \in P |-> Credit(w, p)]) = Sum(Restrict(log, E))
<1>1. PICK D, l : D = DOMAIN log /\ l = Restrict(log, E)
  OBVIOUS
<1>2. /\ IsFiniteSet(D) /\ E \in SUBSET D /\ IsFiniteSet(E) /\ l \in [E -> Int]
      /\ \A e \in E : l[e] = log[e]
      /\ \A e \in D : log[e] \in Nat
  <2>1. IsFiniteSet(D) /\ log \in [D -> Nat \ {0}]
    BY <1>1 DEF TInv, LogOK, IsBag
  <2>2. IsFiniteSet(E)
    BY <1>1, <2>1, FS_Subset
  <2> QED
    BY <1>1, <2>1, <2>2 DEF Restrict
<1>3. Sum(l) = Sum([p \in P |-> Sum(Restrict(l, {e \in E : b[e] = p}))])
  BY <1>2, SumBy
<1>4. ASSUME NEW p \in P PROVE Sum(Restrict(l, {e \in E : b[e] = p})) = Credit(w, p)
  <2>1. PICK F, g : F = {e \in E : b[e] = p} /\ g = GivenBy(w, p)
    OBVIOUS
  <2>2. g \in [D -> Int] /\ Credit(w, p) = Sum(g)
    BY <1>1, <2>1, BooksInt DEF Books
  <2>3. \A e \in D : g[e] = Share(e, w, p) * log[e]
    BY <1>1, <2>1 DEF GivenBy
  <2>4. \A e \in F : g[e] = log[e]
    BY <1>1, <1>2, <2>1, <2>3
  <2>5. \A e \in D \ F : g[e] = 0
    BY <1>1, <1>2, <2>1, <2>3
  <2>6. F \in SUBSET D /\ F \in SUBSET E
    BY <1>2, <2>1
  <2>7. Sum(g) = Sum(Restrict(g, F))
    BY <1>2, <2>2, <2>5, <2>6, SumCut
  <2>8. Restrict(g, F) = Restrict(l, F)
    BY <1>2, <2>4, <2>6 DEF Restrict
  <2> QED
    BY <2>1, <2>2, <2>7, <2>8
<1>5. [p \in P |-> Sum(Restrict(l, {e \in E : b[e] = p}))] = [p \in P |-> Credit(w, p)]
  BY <1>4
<1> QED
  BY <1>1, <1>3, <1>5, Zenon

LEMMA CallsCount ==
    ASSUME TInv, NEW P, IsFiniteSet(P), NEW w \in Weights, NEW E \in SUBSET DOMAIN log,
           \A e \in E : \E p \in P : Share(e, w, p) = 1 /\ \A q \in P : q # p => Share(e, w, q) = 0,
           \A e \in DOMAIN log \ E : \A p \in P : Share(e, w, p) = 0
    PROVE  Sum([p \in P |-> Credit(w, p)]) = Sum(Restrict(log, E))
<1> DEFINE Best(e, p) == p \in P /\ Share(e, w, p) = 1 /\ \A q \in P : q # p => Share(e, w, q) = 0
<1>1. PICK b : b = [e \in E |-> CHOOSE p : Best(e, p)]
  OBVIOUS
<1>2. \A e \in E : Best(e, b[e])
  <2>1. ASSUME NEW e \in E PROVE Best(e, b[e])
    <3>1. \E p : Best(e, p)
      OBVIOUS
    <3> HIDE DEF Best
    <3>2. Best(e, CHOOSE p : Best(e, p))
      BY <3>1
    <3> QED
      BY <1>1, <3>2
  <2> QED
    BY <2>1
<1>3. b \in [E -> P]
  BY <1>1, <1>2
<1>4. \A e \in DOMAIN log, p \in P : Share(e, w, p) = IF e \in E /\ b[e] = p THEN 1 ELSE 0
  BY <1>2
<1> QED
  BY <1>3, <1>4, CallsCounted
\* What a series tells of the calls that go to it.
LEMMA WhoGoesTo ==
    ASSUME NEW e, IsEntry(e), Ordinary(e.call), NEW p \in Reached(e)
    PROVE  /\ p[1] = "requests_total" => Requested(e) /\ p = Place(e, p[1], ViaTags(e))
           /\ p[1] = "request_errors_total" =>
                 Requested(e) /\ ~e.call.ok /\ p = Place(e, p[1], ViaTags(e))
           /\ p[1] = "request_latency" =>
                 Requested(e) /\ (p = Place(e, p[1], InTags(e)) \/ p = Place(e, p[1], ViaTags(e)))
           /\ p[1] = "iterations_total" =>
                 e.call.op = "iteration" /\ p = Place(e, p[1], BaseTags(e))
           /\ p[1] = "checks" => e.call.op = "check" /\ p = Place(e, p[1], CheckTags(e))
<1>1. \A m, base : Place(e, m, base)[1] = m
  BY DEF Place
<1>2. CASE Requested(e)
  BY <1>1, <1>2, RequestPlaces
<1>3. CASE e.call.op = "check"
  BY <1>1, <1>3, CheckPlaces
<1>4. CASE e.call.op = "iteration"
  BY <1>1, <1>4, IterationPlaces
<1>5. CASE e.call.op = "add"
  <2>1. p[1] \notin DOMAIN Builtin
    BY <1>5, AddPlaces DEF Ordinary
  <2>2. {"requests_total", "request_errors_total", "request_latency", "iterations_total", "checks"}
          \subseteq DOMAIN Builtin
    BY BuiltinIs DEF Counters, Histograms
  <2> QED
    BY <2>1, <2>2
<1>6. e.call.op \in {"http", "grpc", "check", "iteration", "add"}
  BY DEF IsEntry, IsCall, IsIteration, IsRequest, IsCheck, IsAdd
<1> QED
  BY <1>2, <1>3, <1>4, <1>5, <1>6 DEF Requested

\* The scenario of a series is that of the calls that go to it, and so are the protocol,
\* the status and the name of a check.
LEMMA ScenarioAt ==
    ASSUME NEW e, NEW m, NEW s, NEW base,
           base = InTags(e) \/ base = ViaTags(e) \/ base = BaseTags(e) \/ base = CheckTags(e)
    PROVE  <<"scenario", s>> \in Place(e, m, base)[2] <=> s = e.scenario
<1>1. <<"scenario", e.scenario>> \in base /\ \A t \in base : t[1] = "scenario" => t = <<"scenario", e.scenario>>
  BY DEF InTags, ViaTags, BaseTags, CheckTags
<1>2. <<"scenario", s>>[1] = "scenario" /\ <<"scenario", s>>[2] = s
      /\ <<"scenario", e.scenario>>[1] = "scenario" /\ <<"scenario", e.scenario>>[2] = e.scenario
  OBVIOUS
<1>3. ASSUME <<"scenario", s>> \in Place(e, m, base)[2] PROVE s = e.scenario
  <2>1. <<"scenario", s>> \in base
    BY <1>1, <1>2, <1>3, PlaceTags
  <2> QED
    BY <1>1, <1>2, <2>1
<1>4. ASSUME s = e.scenario PROVE <<"scenario", s>> \in Place(e, m, base)[2]
  BY <1>1, <1>4, PlaceTags
<1> QED
  BY <1>3, <1>4

LEMMA ProtocolAt ==
    ASSUME NEW e, NEW m, Requested(e)
    PROVE  /\ \A t \in Place(e, m, InTags(e))[2] : t[1] # "protocol"
           /\ \E t \in Place(e, m, ViaTags(e))[2] : t[1] = "protocol"
<1>1. \A t \in InTags(e) : t[1] # "protocol"
  BY DEF InTags
<1>2. "protocol" \in Reserved
  BY DEF Reserved
<1>3. \A t \in Place(e, m, InTags(e))[2] : t[1] # "protocol"
  BY <1>1, <1>2, PlaceTags
<1>4. <<"protocol", e.call.op>> \in ViaTags(e) /\ <<"protocol", e.call.op>>[1] = "protocol"
  BY DEF ViaTags
<1> QED
  BY <1>3, <1>4, PlaceTags

LEMMA CheckAt ==
    ASSUME NEW e, e.call.op = "check", e.call.passed \in BOOLEAN, NEW s
    PROVE  LET T == Place(e, "checks", CheckTags(e))[2]
           IN /\ Failed(s) \subseteq T <=> s = e.scenario /\ ~e.call.passed
              /\ \A n : <<"name", n>> \in T <=> n = e.call.name
              /\ \A t \in T : t[1] = "name" => t = <<"name", e.call.name>>
<1> DEFINE T == Place(e, "checks", CheckTags(e))[2]
<1>1. /\ CheckTags(e) = {<<"scenario", e.scenario>>, <<"status", StatusOf(e)>>, <<"name", e.call.name>>}
      /\ StatusOf(e) = IF e.call.passed THEN "pass" ELSE "fail"
  BY DEF CheckTags, BaseTags, InTags, StatusOf
<1>2. /\ \A t \in CheckTags(e) : t \in T
      /\ \A t \in T : t \in CheckTags(e) \/ \A u \in CheckTags(e) : u[1] # t[1]
  BY PlaceTags
<1>3. \A x : <<"scenario", x>> \in T <=> x = e.scenario
  BY ScenarioAt
<1> HIDE DEF T
<1>4. \A x : <<"status", x>> \in T <=> x = StatusOf(e)
  BY <1>1, <1>2
<1>5. \A t \in T : t[1] = "name" => t = <<"name", e.call.name>>
  BY <1>1, <1>2
<1>6. \A x : <<"name", x>> \in T <=> x = e.call.name
  BY <1>1, <1>2
<1>7. Failed(s) \subseteq T <=> <<"scenario", s>> \in T /\ <<"status", "fail">> \in T
  BY DEF Failed
<1>8. Failed(s) \subseteq T <=> s = e.scenario /\ ~e.call.passed
  BY <1>1, <1>3, <1>4, <1>7
<1> QED
  BY <1>5, <1>6, <1>8 DEF T
LEMMA CallsReach ==
    ASSUME TInv, NEW P, IsFiniteSet(P), NEW w \in Weights, NEW E \in SUBSET DOMAIN log,
           \A e \in E : \E p \in P : /\ p \in Reached(e) /\ Counts(e, p) /\ w[ValueAt(e, p)] = 1
                                     /\ \A q \in P : q \in Reached(e) => q = p,
           \A e \in DOMAIN log \ E : \A p \in P : p \notin Reached(e)
    PROVE  Sum([p \in P |-> Credit(w, p)]) = Sum(Restrict(log, E))
<1>1. ASSUME NEW e \in E
      PROVE  \E p \in P : Share(e, w, p) = 1 /\ \A q \in P : q # p => Share(e, w, q) = 0
  <2>1. PICK p \in P : /\ p \in Reached(e) /\ Counts(e, p) /\ w[ValueAt(e, p)] = 1
                       /\ \A q \in P : q \in Reached(e) => q = p
    OBVIOUS
  <2>2. Share(e, w, p) = 1
    BY <2>1 DEF Share
  <2>3. \A q \in P : q # p => Share(e, w, q) = 0
    BY <2>1 DEF Share
  <2> QED
    BY <2>2, <2>3
<1>2. \A e \in DOMAIN log \ E : \A p \in P : Share(e, w, p) = 0
  BY DEF Share
<1> QED
  BY <1>1, <1>2, CallsCount

\* All calls are done with, and no series was inserted over another.
AtRest == RInv /\ OrdinaryLog /\ Quiet /\ ~raced

LEMMA AtRestFacts ==
    ASSUME AtRest
    PROVE  /\ TInv /\ IsFiniteSet(DOMAIN values)
           /\ \A p \in DOMAIN values : p[1] \in DOMAIN kinds /\ IsValue(kinds[p[1]], values[p])
           /\ \A p \in DOMAIN values : \E e \in DOMAIN log : p \in Reached(e)
           /\ \A e \in DOMAIN log : /\ IsEntry(e) /\ Ordinary(e.call)
                                    /\ \A p \in Reached(e) : p \in DOMAIN values
           /\ \A p \in DOMAIN values : kinds[p[1]] = "Counter" => values[p] = Credit(Plain, p)
           /\ \A m \in DOMAIN Builtin : m \in DOMAIN kinds /\ kinds[m] = Builtin[m]
<1>1. TInv /\ Quiet /\ ~raced /\ OrdinaryLog
  BY DEF AtRest, RInv
<1>2. \A e \in DOMAIN log : \A p \in Reached(e) : p \in DOMAIN values
  <2>1. \A v \in VuIds : DOMAIN todo[v] = {}
    BY <1>1 DEF Quiet
  <2> QED
    BY <2>1 DEF AtRest, RInv, ReachedOK
<1>3. \A p \in DOMAIN values : \E e \in DOMAIN log : p \in Reached(e)
  BY DEF AtRest, RInv, ReachedOK
<1>4. ASSUME NEW p \in DOMAIN values, kinds[p[1]] = "Counter" PROVE values[p] = Credit(Plain, p)
  <2>1. values[p] = Balance(Plain, p)
    BY <1>4 DEF AtRest, RInv, ExactOK, Fits
  <2>2. Balance(Plain, p) = Credit(Plain, p)
    BY <1>1, QuietBooks, WeightsAre
  <2> QED
    BY <2>1, <2>2
<1>5. /\ IsFiniteSet(DOMAIN values)
      /\ \A p \in DOMAIN values : p[1] \in DOMAIN kinds /\ IsValue(kinds[p[1]], values[p])
      /\ \A m \in DOMAIN Builtin : m \in DOMAIN kinds /\ kinds[m] = Builtin[m]
  BY <1>1 DEF TInv, SeriesOK, IsSeries, KindsOK
<1>6. \A e \in DOMAIN log : IsEntry(e) /\ Ordinary(e.call)
  BY <1>1 DEF TInv, LogOK, OrdinaryLog
<1> QED
  BY <1>1, <1>2, <1>3, <1>4, <1>5, <1>6

\* What is read of some series of a counter that each call of E, and no other, goes to once.
LEMMA CounterCounts ==
    ASSUME AtRest, NEW P, NEW m \in Counters, NEW E \in SUBSET DOMAIN log,
           \A p \in P : p \in DOMAIN values /\ p[1] = m,
           \A e \in E : \E p \in P : /\ p \in Reached(e) /\ ValueAt(e, p) = 1
                                     /\ \A q \in P : q \in Reached(e) => q = p,
           \A e \in DOMAIN log \ E : \A p \in P : p \notin Reached(e),
           \A e \in E : e.call.op # "add"
    PROVE  Sum(Restrict(values, P)) = Sum(Restrict(log, E))
<1>1. TInv /\ IsFiniteSet(P)
  <2>1. IsFiniteSet(DOMAIN values) /\ P \subseteq DOMAIN values
    BY AtRestFacts
  <2>2. PICK D : D = DOMAIN values
    OBVIOUS
  <2> QED
    BY <2>1, <2>2, AtRestFacts, FS_Subset
<1>2. kinds[m] = "Counter"
  BY AtRestFacts, BuiltinIs
<1>3. \A p \in P : values[p] = Credit(Plain, p)
  BY <1>2, AtRestFacts
<1>4. Restrict(values, P) = [p \in P |-> Credit(Plain, p)]
  BY <1>3 DEF Restrict
<1>5. Plain \in Weights /\ Plain[1] = 1
  BY WeightsAre DEF Plain
<1>6. \A e \in E : \A p \in P : Counts(e, p)
  BY <1>2 DEF Counts
<1>7. \A e \in E : \E p \in P : /\ p \in Reached(e) /\ Counts(e, p) /\ Plain[ValueAt(e, p)] = 1
                                /\ \A q \in P : q \in Reached(e) => q = p
  BY <1>5, <1>6
<1>8. Sum([p \in P |-> Credit(Plain, p)]) = Sum(Restrict(log, E))
  BY <1>1, <1>5, <1>7, CallsReach
<1> QED
  BY <1>4, <1>8

\* The same, with the series that each call goes to.
LEMMA PlacesCount ==
    ASSUME AtRest, NEW m \in Counters, NEW P, NEW E \in SUBSET DOMAIN log, NEW at,
           \A p \in P : p \in DOMAIN values /\ p[1] = m,
           \A e \in DOMAIN log : \A p \in Reached(e) : p[1] = m => p = at[e],
           \A e \in E : /\ e.call.op # "add"
                        /\ at[e] \in Reached(e) /\ at[e] \in P /\ ValueAt(e, at[e]) = 1,
           \A e \in DOMAIN log \ E : at[e] \notin P \/ at[e] \notin Reached(e)
    PROVE  Sum(Restrict(values, P)) = Sum(Restrict(log, E))
<1>1. \A e \in E : \E p \in P : /\ p \in Reached(e) /\ ValueAt(e, p) = 1
                                /\ \A q \in P : q \in Reached(e) => q = p
  OBVIOUS
<1>2. \A e \in DOMAIN log \ E : \A p \in P : p \notin Reached(e)
  OBVIOUS
<1> QED
  BY <1>1, <1>2, CounterCounts

\* The requests and the failed requests of a scenario.
LEMMA RequestTotals ==
    ASSUME AtRest, NEW s
    PROVE  LET requests == {e \in BagToSet(log) : Requested(e)}
           IN /\ Total(s, "requests_total") = Number(s, requests)
              /\ Total(s, "request_errors_total") = Number(s, {e \in requests : ~e.call.ok})
<1> DEFINE requests == {e \in BagToSet(log) : Requested(e)}
           all   == {e \in requests : e.scenario = s}
           bad   == {e \in {x \in requests : ~x.call.ok} : e.scenario = s}
           P(m)  == Selected(m, {<<"scenario", s>>})
           at(m) == [e \in DOMAIN log |-> Place(e, m, ViaTags(e))]
<1>1. /\ all = {e \in DOMAIN log : Requested(e) /\ e.scenario = s}
      /\ bad = {e \in DOMAIN log : Requested(e) /\ ~e.call.ok /\ e.scenario = s}
  BY DEF BagToSet
<1>2. \A m : \A p : p \in P(m) <=> p \in DOMAIN values /\ p[1] = m /\ <<"scenario", s>> \in p[2]
  BY DEF Selected
<1>3. /\ Total(s, "requests_total") = Sum(Restrict(values, P("requests_total")))
      /\ Total(s, "request_errors_total") = Sum(Restrict(values, P("request_errors_total")))
      /\ Number(s, requests) = Sum(Restrict(log, all))
      /\ Number(s, {e \in requests : ~e.call.ok}) = Sum(Restrict(log, bad))
  BY DEF Total, Where, Scope, Number
<1>4. ASSUME NEW m, NEW e \in DOMAIN log
      PROVE  /\ at(m)[e] = Place(e, m, ViaTags(e)) /\ at(m)[e][1] = m
             /\ <<"scenario", s>> \in at(m)[e][2] <=> s = e.scenario
  BY PlaceTags, ScenarioAt
<1> HIDE DEF P, all, bad, requests, at
<1>5. Sum(Restrict(values, P("requests_total"))) = Sum(Restrict(log, all))
  <2>1. PICK m, Q, E, a : m = "requests_total" /\ Q = P(m) /\ E = all /\ a = at(m)
    OBVIOUS
  <2>2. m \in Counters /\ E \in SUBSET DOMAIN log /\ \A p \in Q : p \in DOMAIN values /\ p[1] = m
    BY <1>1, <1>2, <2>1 DEF Counters
  <2>3. \A e \in DOMAIN log : \A p \in Reached(e) : p[1] = m => Requested(e) /\ p = a[e]
    BY <1>4, <2>1, AtRestFacts, WhoGoesTo
  <2>4. \A e \in DOMAIN log : /\ Requested(e) => a[e] \in Reached(e) /\ ValueAt(e, a[e]) = 1
                              /\ a[e] \in Reached(e) => a[e] \in Q <=> s = e.scenario
    BY <1>2, <1>4, <2>1, AtRestFacts, RequestPlaces
  <2>5. \A e \in E : /\ e.call.op # "add"
                     /\ a[e] \in Reached(e) /\ a[e] \in Q /\ ValueAt(e, a[e]) = 1
    BY <1>1, <2>1, <2>4 DEF Requested
  <2>6. \A e \in DOMAIN log \ E : a[e] \notin Q \/ a[e] \notin Reached(e)
    BY <1>1, <2>1, <2>2, <2>3, <2>4
  <2>7. Sum(Restrict(values, Q)) = Sum(Restrict(log, E))
    BY <2>2, <2>3, <2>5, <2>6, PlacesCount
  <2> QED
    BY <2>1, <2>7, Zenon
<1>6. Sum(Restrict(values, P("request_errors_total"))) = Sum(Restrict(log, bad))
  <2>1. PICK m, Q, E, a : m = "request_errors_total" /\ Q = P(m) /\ E = bad /\ a = at(m)
    OBVIOUS
  <2>2. m \in Counters /\ E \in SUBSET DOMAIN log /\ \A p \in Q : p \in DOMAIN values /\ p[1] = m
    BY <1>1, <1>2, <2>1 DEF Counters
  <2>3. \A e \in DOMAIN log : \A p \in Reached(e) :
           p[1] = m => Requested(e) /\ ~e.call.ok /\ p = a[e]
    BY <1>4, <2>1, AtRestFacts, WhoGoesTo
  <2>4. \A e \in DOMAIN log :
           /\ Requested(e) /\ ~e.call.ok => a[e] \in Reached(e) /\ ValueAt(e, a[e]) = 1
           /\ a[e] \in Reached(e) => a[e] \in Q <=> s = e.scenario
    BY <1>2, <1>4, <2>1, AtRestFacts, RequestPlaces
  <2>5. \A e \in E : /\ e.call.op # "add"
                     /\ a[e] \in Reached(e) /\ a[e] \in Q /\ ValueAt(e, a[e]) = 1
    BY <1>1, <2>1, <2>4 DEF Requested
  <2>6. \A e \in DOMAIN log \ E : a[e] \notin Q \/ a[e] \notin Reached(e)
    BY <1>1, <2>1, <2>2, <2>3, <2>4
  <2>7. Sum(Restrict(values, Q)) = Sum(Restrict(log, E))
    BY <2>2, <2>3, <2>5, <2>6, PlacesCount
  <2> QED
    BY <2>1, <2>7, Zenon
<1> QED
  BY <1>3, <1>5, <1>6 DEF requests

LEMMA IterationTotals ==
    ASSUME AtRest, NEW s
    PROVE  Total(s, "iterations_total") = Number(s, {e \in BagToSet(log) : e.call.op = "iteration"})
<1> DEFINE m == "iterations_total"
           E == {e \in {x \in BagToSet(log) : x.call.op = "iteration"} : e.scenario = s}
           P == Selected(m, {<<"scenario", s>>})
           a == [e \in DOMAIN log |-> Place(e, m, BaseTags(e))]
<1>1. E = {e \in DOMAIN log : e.call.op = "iteration" /\ e.scenario = s}
  BY DEF BagToSet
<1>2. \A p : p \in P <=> p \in DOMAIN values /\ p[1] = m /\ <<"scenario", s>> \in p[2]
  BY DEF Selected
<1>3. /\ Total(s, m) = Sum(Restrict(values, P))
      /\ Number(s, {e \in BagToSet(log) : e.call.op = "iteration"}) = Sum(Restrict(log, E))
  BY DEF Total, Where, Scope, Number
<1>4. ASSUME NEW e \in DOMAIN log
      PROVE  /\ a[e] = Place(e, m, BaseTags(e)) /\ a[e][1] = m
             /\ <<"scenario", s>> \in a[e][2] <=> s = e.scenario
  BY PlaceTags, ScenarioAt
<1> HIDE DEF P, E, a
<1>5. PICK Q, F, b : Q = P /\ F = E /\ b = a
  OBVIOUS
<1>6. m \in Counters /\ F \in SUBSET DOMAIN log /\ \A p \in Q : p \in DOMAIN values /\ p[1] = m
  BY <1>1, <1>2, <1>5 DEF Counters
<1>7. \A e \in DOMAIN log : \A p \in Reached(e) : p[1] = m => e.call.op = "iteration" /\ p = b[e]
  BY <1>4, <1>5, AtRestFacts, WhoGoesTo
<1>8. \A e \in DOMAIN log :
         /\ e.call.op = "iteration" => b[e] \in Reached(e) /\ ValueAt(e, b[e]) = 1
         /\ b[e] \in Reached(e) => b[e] \in Q <=> s = e.scenario
  BY <1>2, <1>4, <1>5, AtRestFacts, IterationPlaces
<1>9. \A e \in F : /\ e.call.op # "add"
                   /\ b[e] \in Reached(e) /\ b[e] \in Q /\ ValueAt(e, b[e]) = 1
  BY <1>1, <1>5, <1>8
<1>10. \A e \in DOMAIN log \ F : b[e] \notin Q \/ b[e] \notin Reached(e)
  BY <1>1, <1>5, <1>6, <1>7, <1>8
<1>11. Sum(Restrict(values, Q)) = Sum(Restrict(log, F))
  BY <1>6, <1>7, <1>9, <1>10, PlacesCount
<1> QED
  BY <1>3, <1>5, <1>11, Zenon
\* The failed checks of a scenario that have all of the names O, and their series.
Failing(s) == {e \in BagToSet(log) : e.call.op = "check" /\ ~e.call.passed /\ e.scenario = s}
NamedCalls(s, O)  == {e \in Failing(s) : \A n \in O : e.call.name = n}
NamedSeries(s, O) == {p \in Selected("checks", Failed(s)) : \A n \in O : <<"name", n>> \in p[2]}

LEMMA CheckSums ==
    ASSUME AtRest, NEW s, NEW O
    PROVE  Sum(Restrict(values, NamedSeries(s, O))) = Sum(Restrict(log, NamedCalls(s, O)))
<1>0. PICK P, E : P = NamedSeries(s, O) /\ E = NamedCalls(s, O)
  OBVIOUS
<1> DEFINE a == [e \in DOMAIN log |-> Place(e, "checks", CheckTags(e))]
<1>1. \A p : p \in P <=> /\ p \in DOMAIN values /\ p[1] = "checks" /\ Failed(s) \subseteq p[2]
                         /\ \A n \in O : <<"name", n>> \in p[2]
  BY <1>0 DEF Selected, NamedSeries
<1>2. \A e : e \in E <=> /\ e \in DOMAIN log /\ e.call.op = "check" /\ ~e.call.passed
                         /\ e.scenario = s /\ \A n \in O : e.call.name = n
  BY <1>0 DEF Failing, BagToSet, NamedCalls
<1>3. \A e \in DOMAIN log : a[e] = Place(e, "checks", CheckTags(e)) /\ a[e][1] = "checks"
  BY PlaceTags
<1> HIDE DEF a
<1>4. ASSUME NEW e \in DOMAIN log, e.call.op = "check"
      PROVE  /\ a[e] \in Reached(e) /\ ValueAt(e, a[e]) = 1
             /\ a[e] \in P <=> e \in E
  <2>1. IsEntry(e) /\ \A p \in Reached(e) : p \in DOMAIN values
    BY AtRestFacts
  <2>2. a[e] \in Reached(e) /\ ValueAt(e, a[e]) = 1
    BY <1>3, <1>4, <2>1, CheckPlaces
  <2>3. e.call.passed \in BOOLEAN
    BY <1>4, <2>1 DEF IsEntry, IsCall, IsIteration, IsRequest, IsCheck, IsAdd
  <2>4. /\ Failed(s) \subseteq a[e][2] <=> s = e.scenario /\ ~e.call.passed
        /\ \A n : <<"name", n>> \in a[e][2] <=> n = e.call.name
    BY <1>3, <1>4, <2>3, CheckAt
  <2>5. (\A n \in O : <<"name", n>> \in a[e][2]) <=> \A n \in O : e.call.name = n
    BY <2>4
  <2>6. /\ a[e] \in P <=> Failed(s) \subseteq a[e][2] /\ \A n \in O : <<"name", n>> \in a[e][2]
        /\ e \in E <=> ~e.call.passed /\ e.scenario = s /\ \A n \in O : e.call.name = n
    <3>1. a[e] \in DOMAIN values /\ a[e][1] = "checks"
      BY <1>3, <2>1, <2>2
    <3> QED
      BY <1>1, <1>2, <1>4, <3>1
  <2> QED
    BY <2>2, <2>4, <2>5, <2>6
<1>5. PICK b : b = a
  OBVIOUS
<1>6. /\ "checks" \in Counters /\ E \in SUBSET DOMAIN log
      /\ \A p \in P : p \in DOMAIN values /\ p[1] = "checks"
  BY <1>1, <1>2 DEF Counters
<1>7. \A e \in DOMAIN log : \A p \in Reached(e) : p[1] = "checks" => e.call.op = "check" /\ p = b[e]
  BY <1>3, <1>5, AtRestFacts, WhoGoesTo
<1>8. \A e \in E : /\ e.call.op # "add"
                   /\ b[e] \in Reached(e) /\ b[e] \in P /\ ValueAt(e, b[e]) = 1
  BY <1>2, <1>4, <1>5
<1>9. \A e \in DOMAIN log \ E : b[e] \notin P \/ b[e] \notin Reached(e)
  BY <1>3, <1>4, <1>5, <1>7
<1>10. Sum(Restrict(values, P)) = Sum(Restrict(log, E))
  BY <1>6, <1>7, <1>8, <1>9, PlacesCount
<1> QED
  BY <1>0, <1>10

LEMMA CheckTotals ==
    ASSUME AtRest, NEW s
    PROVE  LET bad == {e \in BagToSet(log) : e.call.op = "check" /\ ~e.call.passed}
           IN /\ Total(s, "checks") = Number(s, bad)
              /\ \A n \in DOMAIN ChecksFailed(s) :
                    ChecksFailed(s)[n] = Number(s, {e \in bad : e.call.name = n})
              /\ Total(s, "checks") > 0 <=> DOMAIN ChecksFailed(s) # {}
<1> DEFINE bad   == {e \in BagToSet(log) : e.call.op = "check" /\ ~e.call.passed}
           S     == Selected("checks", Failed(s))
           found == {p \in S : values[p] # 0}
           names == {t[2] : t \in {u \in UNION {p[2] : p \in found} : u[1] = "name"}}
<1>1. /\ Total(s, "checks") = Sum(Restrict(values, S))
      /\ Number(s, bad) = Sum(Restrict(log, {e \in bad : e.scenario = s}))
      /\ DOMAIN ChecksFailed(s) = names
      /\ \A n \in names :
            ChecksFailed(s)[n] = Sum(Restrict(values, {p \in found : <<"name", n>> \in p[2]}))
  BY DEF Total, Where, Scope, Number, ChecksFailed
<1>2. /\ {e \in bad : e.scenario = s} = Failing(s)
      /\ \A n : {e \in {x \in bad : x.call.name = n} : e.scenario = s}
                   = {e \in Failing(s) : e.call.name = n}
  BY DEF Failing
<1>3. PICK Q : Q = S
  OBVIOUS
<1>4. /\ IsFiniteSet(Q)
      /\ \A p \in Q : p \in DOMAIN values /\ p[1] = "checks" /\ values[p] \in Nat
  <2>1. PICK D : D = DOMAIN values
    OBVIOUS
  <2>2. IsFiniteSet(D) /\ Q \in SUBSET D
    BY <1>3, <2>1, AtRestFacts DEF Selected
  <2>3. IsFiniteSet(Q)
    BY <2>2, FS_Subset
  <2>4. "checks" \in Counters
    BY DEF Counters
  <2>5. kinds["checks"] = "Counter"
    BY <2>4, AtRestFacts, BuiltinIs
  <2>6. \A p \in Q : p \in DOMAIN values /\ p[1] = "checks"
    BY <1>3 DEF Selected
  <2> QED
    BY <2>3, <2>5, <2>6, AtRestFacts DEF IsValue
<1>5. Total(s, "checks") = Number(s, bad)
  <2>1. NamedSeries(s, {}) = S /\ NamedCalls(s, {}) = Failing(s)
    BY DEF NamedSeries, NamedCalls
  <2>2. Sum(Restrict(values, NamedSeries(s, {}))) = Sum(Restrict(log, NamedCalls(s, {})))
    BY CheckSums
  <2> QED
    BY <1>1, <1>2, <2>1, <2>2, Zenon
<1>6. ASSUME NEW n \in names
      PROVE  ChecksFailed(s)[n] = Number(s, {e \in bad : e.call.name = n})
  <2>1. PICK P, F, E : /\ P = {p \in Q : <<"name", n>> \in p[2]}
                       /\ F = {p \in found : <<"name", n>> \in p[2]}
                       /\ E = {e \in Failing(s) : e.call.name = n}
    OBVIOUS
  <2>2. P = NamedSeries(s, {n})
    BY <1>3, <2>1 DEF NamedSeries
  <2>3. E = NamedCalls(s, {n})
    BY <2>1 DEF NamedCalls
  <2>4. Sum(Restrict(values, P)) = Sum(Restrict(log, E))
    BY <2>2, <2>3, CheckSums
  <2>5. PICK f : f = Restrict(values, P)
    OBVIOUS
  <2>6. P \in SUBSET Q /\ IsFiniteSet(P)
    BY <1>4, <2>1, FS_Subset
  <2>7. f \in [P -> Int] /\ \A p \in P : f[p] = values[p]
    BY <1>4, <2>5, <2>6 DEF Restrict
  <2>8. F \in SUBSET P /\ \A p \in P \ F : f[p] = 0
    BY <1>3, <2>1, <2>7
  <2>9. Sum(f) = Sum(Restrict(f, F))
    BY <2>6, <2>7, <2>8, SumCut
  <2>10. Restrict(f, F) = Restrict(values, F)
    BY <2>7, <2>8 DEF Restrict
  <2>11. Number(s, {e \in bad : e.call.name = n}) = Sum(Restrict(log, E))
    BY <1>2, <2>1 DEF Number
  <2> QED
    BY <1>1, <2>1, <2>4, <2>5, <2>9, <2>10, <2>11
<1>7. names # {} <=> found # {}
  <2>1. ASSUME NEW p \in found PROVE names # {}
    <3>1. p \in DOMAIN values /\ p[1] = "checks" /\ p \in found
      BY <1>3, <1>4
    <3>2. PICK e \in DOMAIN log : p \in Reached(e)
      BY <3>1, AtRestFacts
    <3>3. IsEntry(e) /\ Ordinary(e.call)
      BY AtRestFacts
    <3>4. e.call.op = "check" /\ p = Place(e, "checks", CheckTags(e))
      BY <3>1, <3>2, <3>3, WhoGoesTo
    <3>5. PICK t : t = <<"name", e.call.name>>
      OBVIOUS
    <3>6. t \in CheckTags(e) /\ t[1] = "name"
      BY <3>5 DEF CheckTags
    <3>7. t \in p[2]
      BY <3>4, <3>6, PlaceTags
    <3>8. t \in UNION {q[2] : q \in found}
      BY <3>1, <3>7
    <3> QED
      BY <3>6, <3>8
  <2> QED
    BY <2>1
<1>8. Total(s, "checks") > 0 <=> found # {}
  <2>1. PICK f : f = Restrict(values, Q)
    OBVIOUS
  <2>2. f \in [Q -> Nat] /\ f \in [Q -> Int] /\ \A p \in Q : f[p] = values[p]
    BY <1>4, <2>1 DEF Restrict
  <2>3. Total(s, "checks") = Sum(f)
    BY <1>1, <1>3, <2>1
  <2>4. ASSUME found = {} PROVE Sum(f) = 0
    <3>1. \A p \in Q : f[p] = 0
      BY <1>3, <2>2, <2>4
    <3> QED
      BY <1>4, <2>2, <3>1, SumZero
  <2>5. ASSUME NEW p \in found PROVE Sum(f) > 0
    <3>1. p \in Q /\ f[p] \in Nat /\ f[p] # 0
      BY <1>3, <2>2, <2>5
    <3> QED
      BY <1>4, <2>2, <3>1, SumOfSome
  <2> QED
    BY <2>3, <2>4, <2>5
<1> QED
  BY <1>1, <1>5, <1>6, <1>7, <1>8

\* The merged histograms of some series have the values of the calls that went to them.
LEMMA MergedIs ==
    ASSUME RInv, Quiet, ~raced, NEW P, IsFiniteSet(P),
           \A p \in P : p \in DOMAIN values /\ kinds[p[1]] = "Histogram"
    PROVE  Merged(Restrict(values, P)) = Bag(P)
<1>1. PICK F, V, M : /\ F = Restrict(values, P)
                     /\ V = UNION {DOMAIN F[p] : p \in P}
                     /\ M = Merged(F)
  OBVIOUS
<1>2. DOMAIN F = P /\ \A p \in P : F[p] = values[p]
  BY <1>1 DEF Restrict
<1>3. DOMAIN M = V /\ \A v \in V : M[v] = Sum([p \in P |-> Copies(v, F[p])])
  <2>1. M = [v \in V |-> Sum([p \in P |-> Copies(v, F[p])])]
    BY <1>1, <1>2 DEF Merged
  <2> QED
    BY <2>1
<1>4. \A p \in P : IsBag(F[p]) /\ DOMAIN F[p] \subseteq Int
  BY <1>2 DEF RInv, TInv, SeriesOK, IsValue
<1>5. \A v : [p \in P |-> Copies(v, F[p])] \in [P -> Nat]
  BY <1>4 DEF Copies, IsBag
<1>6. IsFiniteSet(V) /\ V \subseteq Int
  <2>1. PICK g : g = [p \in P |-> DOMAIN F[p]]
    OBVIOUS
  <2>2. {DOMAIN F[p] : p \in P} = {g[p] : p \in P}
    BY <2>1
  <2>3. IsFiniteSet({g[p] : p \in P})
    BY ImageFinite
  <2>4. \A T \in {g[p] : p \in P} : IsFiniteSet(T)
    BY <1>4, <2>1 DEF IsBag
  <2>5. IsFiniteSet(UNION {g[p] : p \in P})
    BY <2>3, <2>4, FS_UNION
  <2> QED
    BY <1>1, <1>4, <2>2, <2>5
<1>7. IsBag(M)
  <2>1. ASSUME NEW v \in V PROVE Sum([p \in P |-> Copies(v, F[p])]) \in Nat \ {0}
    <3>1. PICK p \in P : v \in DOMAIN F[p]
      BY <1>1
    <3>2. PICK f : f = [q \in P |-> Copies(v, F[q])]
      OBVIOUS
    <3>3. f \in [P -> Nat] /\ f[p] # 0
      BY <1>4, <1>5, <3>1, <3>2 DEF Copies, IsBag
    <3> QED
      BY <3>2, <3>3, SumOfSome
  <2>2. M = [v \in V |-> Sum([p \in P |-> Copies(v, F[p])])]
    BY <1>1, <1>2 DEF Merged
  <2>3. M \in [V -> Nat \ {0}]
    BY <2>1, <2>2
  <2> QED
    BY <1>3, <1>6, <2>3 DEF IsBag
<1>8. ASSUME NEW m \in Int PROVE Copies(m, M) = Sum([p \in P |-> Copies(m, F[p])])
  <2>1. CASE m \in V
    BY <1>3, <2>1 DEF Copies
  <2>2. CASE m \notin V
    <3>1. PICK f : f = [p \in P |-> Copies(m, F[p])]
      OBVIOUS
    <3>2. \A p \in P : m \notin DOMAIN F[p]
      BY <1>1, <2>2
    <3>3. f \in [P -> Int] /\ \A p \in P : f[p] = 0
      BY <3>1, <3>2 DEF Copies
    <3>4. Sum(f) = 0
      BY <3>3, SumZero
    <3> QED
      BY <1>3, <2>2, <3>1, <3>4 DEF Copies
  <2> QED
    BY <2>1, <2>2
<1>9. PICK B : B = Bag(P)
  OBVIOUS
<1>10. TInv /\ IsBag(B) /\ DOMAIN B \subseteq Int
  BY <1>9, BagIs DEF RInv
<1>11. ASSUME NEW m \in Int PROVE Copies(m, M) = Copies(m, B)
  <2>1. Single(m) \in Weights
    BY WeightsAre
  <2>2. \A p \in P : Copies(m, F[p]) = Credit(Single(m), p)
    <3>1. \A p \in P : Copies(m, F[p]) = Balance(Single(m), p)
      BY <1>2 DEF RInv, ExactOK, Fits
    <3> QED
      BY <1>10, <2>1, <3>1, QuietBooks
  <2>3. [p \in P |-> Copies(m, F[p])] = [p \in P |-> Credit(Single(m), p)]
    BY <2>2
  <2>4. Weigh(Single(m), B) = Sum([p \in P |-> Credit(Single(m), p)])
    BY <1>9, <1>10, <2>1, BagWeighs
  <2>5. Weigh(Single(m), B) = Copies(m, B)
    BY <1>10, WeighSingle
  <2> QED
    BY <1>8, <2>3, <2>4, <2>5
<1>12. M = B
  BY <1>3, <1>6, <1>7, <1>10, <1>11, SameBags
<1> QED
  BY <1>1, <1>9, <1>12

\* The latency of a scenario has each of its requests once.
LEMMA LatencyCounts ==
    ASSUME AtRest, NEW s
    PROVE  Count(Latency(s)) = Number(s, {e \in BagToSet(log) : Requested(e)})
<1> DEFINE m == "request_latency"
           S == {p \in Selected(m, {<<"scenario", s>>}) : \A t \in p[2] : t[1] # "protocol"}
           C == {e \in {x \in BagToSet(log) : Requested(x)} : e.scenario = s}
<1>1. \A p : p \in S <=> /\ p \in DOMAIN values /\ p[1] = m /\ <<"scenario", s>> \in p[2]
                         /\ \A t \in p[2] : t[1] # "protocol"
  BY DEF Selected
<1>2. C = {e \in DOMAIN log : Requested(e) /\ e.scenario = s}
  BY DEF BagToSet
<1>3. /\ Latency(s) = Merged(Restrict(values, S))
      /\ Number(s, {e \in BagToSet(log) : Requested(e)}) = Sum(Restrict(log, C))
  BY DEF Latency, Number
<1> HIDE DEF S, C
<1>4. PICK P, E : P = S /\ E = C
  OBVIOUS
<1>5. kinds[m] = "Histogram" /\ TInv /\ RInv /\ Quiet /\ ~raced
  BY AtRestFacts, BuiltinIs DEF Histograms, AtRest
<1>6. IsFiniteSet(P) /\ \A p \in P : p \in DOMAIN values /\ p[1] = m
  <2>1. PICK D : D = DOMAIN values
    OBVIOUS
  <2>2. IsFiniteSet(D) /\ P \in SUBSET D
    BY <1>1, <1>4, <2>1, AtRestFacts
  <2> QED
    BY <1>1, <1>4, <2>2, FS_Subset
<1>7. Latency(s) = Bag(P)
  BY <1>3, <1>4, <1>5, <1>6, MergedIs
<1>8. Count(Bag(P)) = Sum([p \in P |-> Credit(Unit, p)])
  <2>1. PICK b : b = Bag(P)
    OBVIOUS
  <2>2. IsBag(b) /\ DOMAIN b \subseteq Int
    BY <1>5, <1>6, <2>1, BagIs
  <2>3. Weigh(Unit, b) = Count(b)
    BY <2>2, WeighUnit
  <2> QED
    BY <1>5, <1>6, <2>1, <2>3, BagWeighs, WeightsAre
<1>9. ASSUME NEW e \in E
      PROVE  \E p \in P : /\ p \in Reached(e) /\ Counts(e, p) /\ Unit[ValueAt(e, p)] = 1
                          /\ \A q \in P : q \in Reached(e) => q = p
  <2>1. /\ e \in DOMAIN log /\ IsEntry(e) /\ Ordinary(e.call) /\ Requested(e) /\ e.scenario = s
        /\ \A q \in Reached(e) : q \in DOMAIN values
    BY <1>2, <1>4, AtRestFacts
  <2>2. PICK p : p = Place(e, m, InTags(e))
    OBVIOUS
  <2>3. p \in Reached(e) /\ ValueAt(e, p) = LatencyOf(e) /\ p[1] = m
    BY <2>1, <2>2, RequestPlaces, PlaceTags
  <2>4. p \in P
    BY <1>1, <1>4, <2>1, <2>2, <2>3, ScenarioAt, ProtocolAt
  <2>5. Counts(e, p) /\ Unit[ValueAt(e, p)] = 1
    <3>1. e.call.op # "add" /\ LatencyOf(e) <= HistogramMax
      BY <2>1 DEF Ordinary, Requested, LatencyOf
    <3>2. ValueAt(e, p) \in Int
      BY <1>5, <2>1, <2>3, EntryFacts DEF TInv
    <3> QED
      BY <2>3, <3>1, <3>2 DEF Counts, Unit
  <2>6. ASSUME NEW q \in P, q \in Reached(e) PROVE q = p
    <3>1. q[1] = m /\ \A t \in q[2] : t[1] # "protocol"
      BY <1>1, <1>4
    <3>2. q = Place(e, m, InTags(e)) \/ q = Place(e, m, ViaTags(e))
      BY <2>1, <2>6, <3>1, WhoGoesTo
    <3> QED
      BY <2>1, <2>2, <3>1, <3>2, ProtocolAt
  <2> QED
    BY <2>3, <2>4, <2>5, <2>6
<1>10. ASSUME NEW e \in DOMAIN log \ E, NEW p \in P, p \in Reached(e) PROVE FALSE
  <2>1. IsEntry(e) /\ Ordinary(e.call)
    BY AtRestFacts
  <2>2. p[1] = m /\ <<"scenario", s>> \in p[2]
    BY <1>1, <1>4
  <2>3. Requested(e) /\ (p = Place(e, m, InTags(e)) \/ p = Place(e, m, ViaTags(e)))
    BY <1>10, <2>1, <2>2, WhoGoesTo
  <2>4. s = e.scenario
    BY <2>2, <2>3, ScenarioAt
  <2> QED
    BY <1>2, <1>4, <2>3, <2>4
<1>11. E \in SUBSET DOMAIN log /\ Unit \in Weights
  BY <1>2, <1>4, WeightsAre
<1>12. Sum([p \in P |-> Credit(Unit, p)]) = Sum(Restrict(log, E))
  BY <1>5, <1>6, <1>9, <1>10, <1>11, CallsReach
<1> QED
  BY <1>3, <1>4, <1>7, <1>8, <1>12

\* If scripts leave the runner's own metrics alone and no latency is beyond the range of
\* the histogram, then a scenario's summary has each of its requests, errors, iterations
\* and failed checks once, as long as no series was inserted over another.
THEOREM SummaryIsExact == ASSUME OrdinaryPlans PROVE RecordSpec => []SummaryExact
<1>1. RecordInit => OrdinaryLog
  BY DEF RecordInit, OrdinaryLog, EmptyBag, SetToBag
<1>2. RInv /\ OrdinaryLog /\ [RecordNext]_recordVars => OrdinaryLog'
  BY OrdinaryStep
<1>3. ASSUME RInv, OrdinaryLog PROVE SummaryExact
  <2> SUFFICES ASSUME AtRest PROVE SummaryExact
    BY <1>3 DEF AtRest, SummaryExact
  <2> QED
    BY RequestTotals, IterationTotals, CheckTotals, LatencyCounts, Zenon DEF SummaryExact
<1> QED
  BY <1>1, <1>2, <1>3, RecordInvariant, PTL DEF RecordSpec
-----------------------------------------------------------------------------
(* Verdicts: what Evaluate makes of the series is what the documentation says of the
   values that were recorded. *)

LEMMA Extremes ==
    ASSUME NEW S, IsFiniteSet(S), S \subseteq Int, S # {}
    PROVE  /\ Min(S) \in S
           /\ Max(S) \in S /\ \A y \in S : y <= Max(S)
<1> DEFINE Bounded(T) == \E lo, hi \in T : \A y \in T : lo <= y /\ y <= hi
           C == {T \in SUBSET S : T = {} \/ Bounded(T)}
<1>1. {} \in C
  OBVIOUS
<1>2. ASSUME NEW T \in SUBSET S, NEW x \in S, T \in C, x \notin T PROVE T \union {x} \in C
  <2>1. x \in Int /\ \A y \in T : y \in Int
    OBVIOUS
  <2>2. CASE T = {}
    BY <2>1, <2>2
  <2>3. CASE T # {}
    <3>1. PICK lo \in T, hi \in T : \A y \in T : lo <= y /\ y <= hi
      BY <1>2, <2>3
    <3>2. PICK a \in T \union {x} : a <= lo /\ a <= x /\ a \in Int
      BY <2>1, <3>1
    <3>3. PICK b \in T \union {x} : hi <= b /\ x <= b /\ b \in Int
      BY <2>1, <3>1
    <3>4. \A y \in T \union {x} : a <= y /\ y <= b
      BY <2>1, <3>1, <3>2, <3>3
    <3>5. Bounded(T \union {x})
      BY <3>4
    <3> QED
      BY <3>5
  <2> QED
    BY <2>2, <2>3
<1>3. \A T \in SUBSET S, x \in S : T \in C /\ x \notin T => T \union {x} \in C
  BY <1>2
<1> HIDE DEF C
<1>4. SUBSET S \subseteq C
  BY <1>1, <1>3, SetInduction
<1>5. Bounded(S)
  BY <1>4 DEF C
<1>6. PICK lo \in S, hi \in S : \A y \in S : lo <= y /\ y <= hi
  BY <1>5
<1>7. Min(S) \in S
  BY <1>6 DEF Min
<1>8. Max(S) \in S /\ \A y \in S : y <= Max(S)
  BY <1>6 DEF Max
<1> QED
  BY <1>7, <1>8

\* value_at_quantile is a value of the histogram: the largest one has all at or below it.
LEMMA QuantileIs ==
    ASSUME NEW h, IsBag(h), DOMAIN h \subseteq Int, DOMAIN h # {}, NEW p \in Percentiles
    PROVE  Quantile(h, p) \in Int
<1>1. PICK D, m, c : D = DOMAIN h /\ m = Max(D) /\ c = Sum(h)
  OBVIOUS
<1>2. IsFiniteSet(D) /\ h \in [D -> Int] /\ h \in [D -> Nat]
  BY <1>1 DEF IsBag
<1>3. m \in D /\ m \in Int /\ \A y \in D : y <= m
  BY <1>1, <1>2, Extremes
<1>4. {w \in D : w <= m} = D
  BY <1>3
<1>5. Restrict(h, D) = h
  BY <1>2, RestrictIs
<1>6. AtMost(h, m) = c
  BY <1>1, <1>4, <1>5 DEF AtMost
<1>7. c \in Nat
  BY <1>1, <1>2, SumNat
<1>8. 100 * c >= p * c
  BY <1>7 DEF Percentiles
<1>9. PICK V : V = {v \in D : 100 * AtMost(h, v) >= p * c}
  OBVIOUS
<1>10. V # {} /\ V \subseteq D /\ V \subseteq Int
  BY <1>1, <1>3, <1>6, <1>8, <1>9
<1>11. IsFiniteSet(V)
  BY <1>2, <1>10, FS_Subset
<1>12. Min(V) \in Int
  BY <1>10, <1>11, Extremes
<1>13. Quantile(h, p) = Min(V)
  BY <1>1, <1>9 DEF Quantile, Count
<1> QED
  BY <1>12, <1>13

\* An observed value is a fraction, or there is none.
IsFraction(o) == \E n, d \in Int : o = <<n, d>>
IsObserved(o) == o = Nothing \/ IsFraction(o)

LEMMA HistogramObserved ==
    ASSUME NEW h, IsBag(h), DOMAIN h \subseteq Int, NEW e
    PROVE  IsObserved(OfHistogram(e, h))
<1>1. PICK D : D = DOMAIN h
  OBVIOUS
<1>2. IsFiniteSet(D) /\ h \in [D -> Int]
  BY <1>1 DEF IsBag
<1>3. Count(h) \in Int
  BY <1>2, SumInt DEF Count
<1>4. CASE e.agg = "count"
  BY <1>3, <1>4 DEF OfHistogram, IsObserved, IsFraction
<1>5. CASE e.agg # "count" /\ Count(h) = 0
  BY <1>5 DEF OfHistogram, IsObserved
<1>6. CASE e.agg # "count" /\ Count(h) # 0
  <2>1. D # {}
    <3>1. D = {} => Sum(h) = 0
      BY <1>1, SumEmpty
    <3> QED
      BY <1>6, <3>1 DEF Count
  <2>2. IsFraction(Mean(h))
    <3>1. PICK f : f = [v \in D |-> v * h[v]]
      OBVIOUS
    <3>2. \A v \in D : v \in Int /\ h[v] \in Int
      BY <1>1, <1>2
    <3>3. f \in [D -> Int]
      BY <3>1, <3>2
    <3>4. Sum(f) \in Int
      BY <1>2, <3>3, SumInt
    <3>5. Mean(h) = <<Sum(f), Count(h)>>
      BY <1>1, <3>1 DEF Mean
    <3> QED
      BY <1>3, <3>4, <3>5 DEF IsFraction
  <2>3. Min(D) \in Int /\ Max(D) \in Int
    BY <1>1, <1>2, <2>1, Extremes
  <2>4. \A p \in Percentiles : Quantile(h, p) \in Int
    BY <1>1, <2>1, QuantileIs
  <2>5. \/ OfHistogram(e, h) = Mean(h)
        \/ OfHistogram(e, h) = <<Min(D), 1>>
        \/ OfHistogram(e, h) = <<Max(D), 1>>
        \/ e.p \in Percentiles /\ OfHistogram(e, h) = <<Quantile(h, e.p), 1>>
        \/ OfHistogram(e, h) = Nothing
    BY <1>1, <1>6 DEF OfHistogram
  <2>6. \A n \in Int : IsFraction(<<n, 1>>)
    BY DEF IsFraction
  <2> QED
    BY <2>2, <2>3, <2>4, <2>5, <2>6 DEF IsObserved
<1> QED
  BY <1>4, <1>5, <1>6

\* compare: the expression holds.
LEMMA CompareIs ==
    ASSUME NEW o, IsFraction(o), NEW e, e.op \in Ops, e.value \in Int
    PROVE  Compare(o, e.op, e.value) <=> Holds(e, o)
<1>1. PICK n \in Int, d \in Int : o = <<n, d>>
  BY DEF IsFraction
<1>2. PICK v, op : v = e.value * d /\ op = e.op
  OBVIOUS
<1>3. o[1] = n /\ o[2] = d /\ v \in Int
  BY <1>1, <1>2
<1>4. Compare(o, e.op, e.value) <=>
        CASE op = "<"  -> n < v
          [] op = "<=" -> n <= v
          [] op = ">"  -> n > v
          [] op = ">=" -> n >= v
          [] op = "==" -> n = v
  BY <1>2, <1>3, Zenon DEF Compare
<1>5. Holds(e, o) <=>
        op \in (IF n - v < 0 THEN {"<", "<="} ELSE IF n - v = 0 THEN {"<=", ">=", "=="}
                ELSE {">", ">="})
  BY <1>2, <1>3, Zenon DEF Holds
<1>6. op \in Ops
  BY <1>2
<1>7. /\ op = "<"  => (Compare(o, e.op, e.value) <=> n < v)
      /\ op = "<=" => (Compare(o, e.op, e.value) <=> n <= v)
      /\ op = ">"  => (Compare(o, e.op, e.value) <=> n > v)
      /\ op = ">=" => (Compare(o, e.op, e.value) <=> n >= v)
      /\ op = "==" => (Compare(o, e.op, e.value) <=> n = v)
  BY <1>4
<1>8. /\ op = "<"  => (Holds(e, o) <=> n < v)
      /\ op = "<=" => (Holds(e, o) <=> n <= v)
      /\ op = ">"  => (Holds(e, o) <=> n > v)
      /\ op = ">=" => (Holds(e, o) <=> n >= v)
      /\ op = "==" => (Holds(e, o) <=> n = v)
  <2>1. CASE n < v
    BY <1>3, <1>5, <2>1
  <2>2. CASE n = v
    BY <1>3, <1>5, <2>2
  <2>3. CASE n > v
    BY <1>3, <1>5, <2>3
  <2> QED
    BY <1>3, <2>1, <2>2, <2>3
<1> QED
  BY <1>6, <1>7, <1>8 DEF Ops
\* What series have is what their calls gave.
LEMMA SumOfBooks ==
    ASSUME TInv, Quiet, NEW P, IsFiniteSet(P), NEW w \in Weights,
           NEW f, f = [p \in P |-> f[p]], \A p \in P : f[p] = Balance(w, p)
    PROVE  Sum(f) = Weigh(w, Bag(P))
<1>1. \A p \in P : f[p] = Credit(w, p)
  BY QuietBooks
<1>2. f = [p \in P |-> Credit(w, p)]
  BY <1>1
<1> QED
  BY <1>2, BagWeighs

\* observed_value is about the values that were recorded.
LEMMA ObservedIs ==
    ASSUME RInv, Quiet, ~raced, NEW m \in DOMAIN kinds, NEW e,
           NEW P, IsFiniteSet(P), \A p \in P : p \in DOMAIN values /\ p[1] = m
    PROVE  /\ Observed(kinds[m], e, Restrict(values, P)) = OfBag(kinds[m], e, Bag(P))
           /\ IsObserved(OfBag(kinds[m], e, Bag(P)))
<1>1. TInv /\ kinds[m] \in Kinds /\ \A p \in P : Fits(p) /\ IsValue(kinds[m], values[p])
  BY DEF RInv, TInv, KindsOK, ExactOK, SeriesOK
<1>2. PICK k, B, F : k = kinds[m] /\ B = Bag(P) /\ F = Restrict(values, P)
  OBVIOUS
<1>3. DOMAIN F = P /\ (\A p \in P : F[p] = values[p]) /\ F = [p \in P |-> F[p]]
  BY <1>2 DEF Restrict
<1>4. IsBag(B) /\ DOMAIN B \subseteq Int
  BY <1>1, <1>2, BagIs
<1>5. Plus(B) = Weigh(Plain, B) /\ Count(B) = Weigh(Unit, B)
  BY <1>4, WeighPlain, WeighUnit
<1>6. Plus(B) \in Int /\ Count(B) \in Int
  <2>1. \A w \in Weights : Weigh(w, B) \in Int
    <3>1. ASSUME NEW w \in Weights PROVE Weigh(w, B) \in Int
      <4>1. PICK g : g = [p \in P |-> Credit(w, p)]
        OBVIOUS
      <4>2. g \in [P -> Int] /\ Weigh(w, B) = Sum(g)
        BY <1>1, <1>2, <4>1, BagWeighs
      <4> QED
        BY <4>2, SumInt
    <3> QED
      BY <3>1
  <2> QED
    BY <1>5, <2>1, WeightsAre
<1>7. CASE k = "Histogram"
  <2>1. \A p \in P : p \in DOMAIN values /\ kinds[p[1]] = "Histogram"
    BY <1>2, <1>7
  <2>2. Merged(F) = B
    BY <1>2, <2>1, MergedIs
  <2>3. Observed(k, e, F) = OfHistogram(e, B) /\ OfBag(k, e, B) = OfHistogram(e, B)
    BY <1>7, <2>2 DEF Observed, OfBag
  <2>4. IsObserved(OfHistogram(e, B))
    BY <1>4, HistogramObserved
  <2> QED
    BY <1>2, <2>3, <2>4
<1>8. CASE k = "Rate"
  <2>1. PICK a, b : a = [p \in P |-> F[p].total] /\ b = [p \in P |-> F[p].hits]
    OBVIOUS
  <2>2. \A p \in P : a[p] = Balance(Unit, p) /\ b[p] = Balance(Plain, p)
    BY <1>1, <1>2, <1>3, <1>8, <2>1 DEF Fits
  <2>3. a = [p \in P |-> a[p]] /\ b = [p \in P |-> b[p]]
    BY <2>1
  <2>4. Sum(a) = Weigh(Unit, B) /\ Sum(b) = Weigh(Plain, B)
    BY <1>1, <1>2, <2>2, <2>3, SumOfBooks, WeightsAre
  <2>5. Sum(a) = Count(B) /\ Sum(b) = Plus(B)
    BY <1>5, <2>4
  <2>6. OfRate(e, F) =
          CASE e.agg = "count" -> <<Sum(a), 1>>
            [] e.agg = "rate" /\ Sum(a) > 0 -> <<Sum(b), Sum(a)>>
            [] OTHER -> Nothing
    BY <1>3, <2>1, Zenon DEF OfRate
  <2>7. Observed(k, e, F) = OfRate(e, F)
    BY <1>8 DEF Observed
  <2>8. OfBag(k, e, B) =
          CASE e.agg = "count" -> <<Count(B), 1>>
            [] e.agg = "rate" /\ Count(B) > 0 -> <<Plus(B), Count(B)>>
            [] OTHER -> Nothing
    BY <1>8 DEF OfBag
  <2>9. Observed(k, e, F) = OfBag(k, e, B)
    BY <2>5, <2>6, <2>7, <2>8, Zenon
  <2>10. IsObserved(OfBag(k, e, B))
    BY <1>6, <2>8 DEF IsObserved, IsFraction
  <2> QED
    BY <1>2, <2>9, <2>10
<1>9. CASE k = "Counter"
  <2>1. \A p \in P : F[p] = Balance(Plain, p)
    BY <1>1, <1>2, <1>3, <1>9 DEF Fits
  <2>2. Sum(F) = Plus(B)
    BY <1>1, <1>2, <1>3, <1>5, <2>1, SumOfBooks, WeightsAre
  <2>3. Observed(k, e, F) = IF e.agg = "count" THEN <<Sum(F), 1>> ELSE Nothing
    BY <1>9 DEF Observed, OfCounter
  <2>4. OfBag(k, e, B) = IF e.agg = "count" THEN <<Plus(B), 1>> ELSE Nothing
    BY <1>9 DEF OfBag
  <2>5. IsObserved(OfBag(k, e, B))
    BY <1>6, <2>4 DEF IsObserved, IsFraction
  <2> QED
    BY <1>2, <2>2, <2>3, <2>4, <2>5
<1>10. CASE k = "Gauge"
  <2>1. Observed(k, e, F) = Nothing /\ OfBag(k, e, B) = Nothing
    BY <1>10 DEF Observed, OfBag
  <2> QED
    BY <1>2, <2>1 DEF IsObserved
<1> QED
  BY <1>1, <1>2, <1>7, <1>8, <1>9, <1>10 DEF Kinds
LEMMA KeyTags ==
    ASSUME NEW v, NEW tags, tags = [i \in DOMAIN TagKeys |-> <<TagKeys[i], v>>]
    PROVE  IsTags(tags)
<1>1. DOMAIN TagKeys = 1 .. 4 /\ \A i, j \in 1 .. 4 : TagKeys[i] = TagKeys[j] => i = j
  BY DEF TagKeys
<1>2. DOMAIN tags = 1 .. 4 /\ \A i \in 1 .. 4 : tags[i][1] = TagKeys[i] /\ tags[i] \in ToSet(tags)
  BY <1>1 DEF ToSet
<1>3. tags \in Seq(ToSet(tags))
  <2>1. PICK S : S = ToSet(tags)
    OBVIOUS
  <2>2. tags \in [1 .. 4 -> S]
    BY <1>1, <1>2, <2>1
  <2>3. tags \in Seq(S)
    BY <2>2
  <2> QED
    BY <2>1, <2>3
<1> QED
  BY <1>1, <1>2, <1>3 DEF IsTags

LEMMA IdsAtEndAre ==
    ASSUME IsIds(ids)
    PROVE  IsIds(IdsAtEnd)
<1>1. PICK s, tags : s = ids /\ tags = [i \in DOMAIN TagKeys |-> <<TagKeys[i], "">>]
  BY Zenon
<1>2. IsTags(tags)
  BY <1>1, KeyTags, Zenon
<1>3. IsIds(InternKeys(s, tags))
  BY <1>1, <1>2, InternFacts, Zenon
<1> QED
  BY <1>1, <1>3, Zenon DEF IdsAtEnd

\* One expression of a threshold: Evaluate calls it violated exactly if it does not hold
\* of the values recorded in the series with all tags of the selector.
LEMMA VerdictIs ==
    ASSUME RInv, Quiet, ~raced, NEW set \in ThresholdSets, Aligned(set.tags), NEW e \in set.exprs,
           NEW result, result = Evaluate(IdsAtEnd, kinds, values, set),
           NEW P, P = Selected(set.metric, ToSet(set.tags))
    PROVE  /\ result.ok = (set.metric \in DOMAIN kinds => Parses(e))
           /\ result.ok =>
                (e \in result.violated) =
                    (P = {} \/ LET o == OfBag(kinds[set.metric], e, Bag(P))
                               IN o = Nothing \/ ~Holds(e, o))
<1>1. PICK raw \in Keys, y \in Exprs :
         /\ ParseKey(raw) # Refused
         /\ set = [metric |-> ParseKey(raw).metric, tags |-> ParseKey(raw).tags, exprs |-> {y}]
  BY DEF ThresholdSets
<1>2. IsTags(set.tags) /\ set.exprs = {e} /\ e.value \in Int
  BY <1>1, ParseKeyIs, ThresholdAssumption
<1>3. PICK m, sel, K : m = set.metric /\ sel = set.tags /\ K = IdsAtEnd
  OBVIOUS
<1>4. IsIds(K) /\ InOrder(sel, InternKeys(K, sel))
  BY <1>3, IdsAtEndAre DEF RInv, TInv, Aligned, InOrder
<1>5. \A p \in DOMAIN values : p[1] \in DOMAIN kinds /\ IsTagSet(p[2])
  BY DEF RInv, TInv, SeriesOK, IsSeries
<1>6. P = {p \in DOMAIN values : p[1] = m /\ Matches(K, sel, p[2])}
  <2>1. \A p \in DOMAIN values : Matches(K, sel, p[2]) <=> ToSet(sel) \subseteq p[2]
    BY <1>2, <1>3, <1>4, <1>5, MatchesIs
  <2> QED
    BY <1>3, <2>1 DEF Selected
<1>7. IsFiniteSet(P) /\ \A p \in P : p \in DOMAIN values /\ p[1] = m
  <2>1. PICK D : D = DOMAIN values
    OBVIOUS
  <2>2. IsFiniteSet(D) /\ P \subseteq D
    BY <1>6, <2>1 DEF RInv, TInv, SeriesOK
  <2> QED
    BY <1>6, <2>2, FS_Subset
<1> DEFINE F == Restrict(values, P)
           observed(x) == IF DOMAIN F = {} THEN Nothing ELSE Observed(kinds[m], x, F)
           passed(x) == observed(x) # Nothing /\ Compare(observed(x), x.op, x.value)
<1>8. result = IF m \notin DOMAIN kinds THEN [ok |-> TRUE, violated |-> set.exprs]
               ELSE IF \E x \in set.exprs : ~Parses(x) THEN Refused
               ELSE [ok |-> TRUE, violated |-> {x \in set.exprs : ~passed(x)}]
  BY <1>3, <1>6, Zenon DEF Evaluate
<1>9. DOMAIN F = P
  BY DEF Restrict
<1>10. CASE m \notin DOMAIN kinds
  <2>1. P = {}
    BY <1>5, <1>7, <1>10
  <2>2. result.ok = TRUE /\ result.violated = set.exprs
    BY <1>8, <1>10
  <2> QED
    BY <1>3, <1>10, <2>1, <2>2
<1>11. CASE m \in DOMAIN kinds /\ ~Parses(e)
  <2>1. result.ok = FALSE
    BY <1>2, <1>8, <1>11 DEF Refused
  <2> QED
    BY <1>3, <1>11, <2>1
<1>12. CASE m \in DOMAIN kinds /\ Parses(e)
  <2>1. result = [ok |-> TRUE, violated |-> {x \in set.exprs : ~passed(x)}]
    BY <1>2, <1>8, <1>12, Zenon
  <2>2. result.ok = TRUE /\ (e \in result.violated <=> ~passed(e))
    <3> HIDE DEF passed
    <3> QED
      BY <2>1
  <2>3. PICK o : o = OfBag(kinds[m], e, Bag(P))
    OBVIOUS
  <2>4. Observed(kinds[m], e, F) = o /\ IsObserved(o)
    BY <1>7, <1>12, <2>3, ObservedIs
  <2>5. e.op \in Ops
    BY <1>12 DEF Parses
  <2>6. CASE P = {}
    <3>1. ~passed(e)
      BY <1>9, <2>6, Zenon
    <3> QED
      BY <1>3, <1>12, <2>2, <2>6, <3>1
  <2>7. CASE P # {}
    <3>1. passed(e) <=> o # Nothing /\ Compare(o, e.op, e.value)
      BY <1>9, <2>4, <2>7, Zenon
    <3>2. o # Nothing => (Compare(o, e.op, e.value) <=> Holds(e, o))
      BY <1>2, <2>4, <2>5, CompareIs DEF IsObserved
    <3>3. e \in result.violated <=> (o = Nothing \/ ~Holds(e, o))
      BY <2>2, <3>1, <3>2
    <3>4. result.ok = (set.metric \in DOMAIN kinds => Parses(e))
      BY <1>3, <1>12, <2>2
    <3>5. (e \in result.violated) = (P = {} \/ o = Nothing \/ ~Holds(e, o))
      BY <2>7, <3>3
    <3> QED
      BY <1>3, <2>3, <3>4, <3>5, Zenon
  <2> QED
    BY <2>6, <2>7
<1> QED
  BY <1>10, <1>11, <1>12

\* As long as no series was inserted over another, a threshold that parses is violated
\* exactly if the values recorded in the series with all its tags do not satisfy it, or
\* there is no such series; provided the keys of its selector were interned in the
\* order of their names.
THEOREM VerdictsAreRight == RecordSpec => []VerdictsAgree
<1>1. RInv => VerdictsAgree
  BY VerdictIs, Zenon DEF VerdictsAgree
<1> QED
  BY <1>1, RecordInvariant, PTL
=============================================================================
