-------------------------- MODULE ExecutorsProofs ---------------------------
(***************************************************************************)
(* Proofs about the constant-vus and ramping-vus executors and the options *)
(* they run from: for any VUs, limits, stages and times, and any input.    *)
(***************************************************************************)
EXTENDS Executors, FiniteSetTheorems, NaturalsInduction, WellFoundedInduction, TLAPS

-----------------------------------------------------------------------------
(* The gate of a constant-vus scenario. *)

\* What the fetch_adds handed out so far.
GrantedByCounter ==
    Total # None => granted = IF counter <= Total THEN counter ELSE Total

\* A VU is sent away for want of iterations only when they are used up.
StoppedAfterAll ==
    \A v \in Vus : pc[v] = "stopped" /\ duration = None => counter > Total

\* Before the runner opens the gate nothing happens; the deadline follows.
DeadlineSet ==
    /\ opened = None => deadline = None /\ \A v \in Vus : pc[v] = "await_start"
    /\ opened # None => deadline = IF duration = None THEN None ELSE opened + duration

\* A VU that passed the deadline's check read the clock in time.
ReadInTime ==
    \A v \in Vus : pc[v] \in {"count", "run"} /\ duration # None => read[v] < deadline

IInv == TypeOK /\ GrantedByCounter /\ StoppedAfterAll /\ DeadlineSet /\ ReadInTime

LEMMA TotalType == TypeOK => Total \in Nat \union {None}
BY DEF TypeOK, Total

LEMMA TotalGiven == TypeOK /\ duration = None => Total \in Nat /\ Total # None
BY GateAssumption DEF TypeOK, Total

-----------------------------------------------------------------------------

LEMMA InvInit == Init => IInv
<1> SUFFICES ASSUME Init PROVE IInv
  OBVIOUS
<1>1. TypeOK
  BY GateAssumption DEF Init, TypeOK, States
<1>2. GrantedByCounter
  BY <1>1, TotalType DEF Init, GrantedByCounter
<1> QED
  BY <1>1, <1>2 DEF Init, IInv, StoppedAfterAll, DeadlineSet, ReadInTime

LEMMA InvStep == IInv /\ [Next]_vars => IInv'
<1> SUFFICES ASSUME IInv, [Next]_vars PROVE IInv'
  OBVIOUS
<1> USE GateAssumption DEF IInv, TypeOK, GrantedByCounter, StoppedAfterAll, DeadlineSet,
        ReadInTime, States, gate, vus, Goto
<1>1. CASE Tick
  BY <1>1 DEF Tick, Total
<1>2. CASE Open
  BY <1>2 DEF Open, StartAt, Total
<1>3. ASSUME NEW v \in Vus, Begin(v) PROVE IInv'
  BY <1>3 DEF Begin, Total
<1>4. ASSUME NEW v \in Vus, ReadClock(v) PROVE IInv'
  BY <1>4 DEF ReadClock, Total
<1>5. ASSUME NEW v \in Vus, CheckDeadline(v) PROVE IInv'
  BY <1>5 DEF CheckDeadline, StartAt, Total
<1>6. ASSUME NEW v \in Vus, Count(v) PROVE IInv'
  <2> DEFINE grant == Total = None \/ counter < Total
  <2>1. /\ counter' = IF Total # None THEN counter + 1 ELSE counter
        /\ pc' = [pc EXCEPT ![v] = IF grant THEN "run" ELSE "stopped"]
        /\ granted' = IF grant /\ Total # None THEN granted + 1 ELSE granted
        /\ pc[v] = "count"
        /\ UNCHANGED <<iterations, duration, deadline, now, opened, read>>
    BY <1>6 DEF Count
  <2>2. Total' = Total /\ Total \in Nat \union {None}
    BY <2>1, TotalType DEF Total
  <2>3. TypeOK'
    BY <2>1, <2>2
  <2>4. GrantedByCounter'
    BY <2>1, <2>2
  <2>5. StoppedAfterAll'
    <3> SUFFICES ASSUME NEW w \in Vus, pc'[w] = "stopped", duration' = None
                 PROVE  counter' > Total'
      OBVIOUS
    <3>1. Total \in Nat /\ Total # None
      BY <2>1, TotalGiven
    <3>2. CASE w = v
      BY <2>1, <2>2, <3>1, <3>2
    <3>3. CASE w # v
      <4>1. pc[w] = "stopped" /\ duration = None
        BY <2>1, <3>3
      <4> QED
        BY <2>1, <2>2, <3>1, <4>1
    <3> QED
      BY <3>2, <3>3
  <2>6. DeadlineSet' /\ ReadInTime'
    BY <2>1
  <2> QED
    BY <2>3, <2>4, <2>5, <2>6
<1>7. ASSUME NEW v \in Vus, RunOne(v) PROVE IInv'
  BY <1>7 DEF RunOne, Total
<1>8. CASE UNCHANGED vars
  BY <1>8 DEF vars, Total
<1> QED
  BY <1>1, <1>2, <1>3, <1>4, <1>5, <1>6, <1>7, <1>8 DEF Next, VuStep

\* The gate's inductive invariant holds throughout.
THEOREM GateInvariant == Spec => []IInv
BY InvInit, InvStep, PTL DEF Spec

LEMMA Consequences == IInv => GrantsBounded /\ NoneLost /\ OnTime
<1> SUFFICES ASSUME IInv PROVE GrantsBounded /\ NoneLost /\ OnTime
  OBVIOUS
<1> USE GateAssumption DEF IInv, TypeOK
<1>1. GrantsBounded
  BY TotalType DEF GrantsBounded, GrantedByCounter
<1>2. NoneLost
  BY TotalGiven DEF NoneLost, StoppedAfterAll, GrantedByCounter
<1>3. OnTime
  BY DEF OnTime, ReadInTime, DeadlineSet
<1> QED
  BY <1>1, <1>2, <1>3

\* next() never hands out more iterations than the scenario has.
THEOREM NeverTooMany == Spec => []GrantsBounded
BY GateInvariant, Consequences, PTL

\* Without a duration, all iterations have been handed out when a VU is sent
\* away.
THEOREM NeverTooFew == Spec => []NoneLost
BY GateInvariant, Consequences, PTL

\* No iteration starts on a reading of the clock past the deadline.
THEOREM NeverLate == Spec => []OnTime
BY GateInvariant, Consequences, PTL

\* next() hands out exactly the iterations that the options allow, in time.
THEOREM ExactGrants == Spec => []GrantsExact
BY GateInvariant, Consequences, PTL DEF GrantsExact
-----------------------------------------------------------------------------
(* The counter, which every VU that is sent away has pushed up once.         *)

Stopped == {v \in Vus : pc[v] = "stopped"}

CounterInv == Total # None => counter <= Total + Cardinality(Stopped)

LEMMA StoppedFinite == IsFiniteSet(Stopped) /\ Cardinality(Stopped) \in Nat
                       /\ Cardinality(Stopped) <= Cardinality(Vus) /\ Cardinality(Vus) \in Nat
<1>1. Stopped \subseteq Vus /\ IsFiniteSet(Vus)
  BY GateAssumption DEF Stopped
<1> QED
  BY <1>1, FS_Subset, FS_CardinalityType

LEMMA CounterStep == IInv /\ CounterInv /\ [Next]_vars => CounterInv'
<1> SUFFICES ASSUME IInv, CounterInv, [Next]_vars PROVE CounterInv'
  OBVIOUS
<1> DEFINE old == Cardinality(Stopped)
           new == Cardinality(Stopped')
<1>1. TypeOK /\ None \notin Int
  BY GateAssumption DEF IInv
<1>2. Total \in Nat \union {None} /\ counter \in Nat
  BY <1>1, TotalType DEF TypeOK
<1>3. IsFiniteSet(Stopped) /\ old \in Nat
  BY StoppedFinite
<1>4. IsFiniteSet(Stopped') /\ new \in Nat
  <2>1. Stopped' \subseteq Vus
    BY DEF Stopped
  <2> QED
    BY <2>1, GateAssumption, FS_Subset, FS_CardinalityType
<1>5. Total' = Total
  BY DEF Next, Tick, Open, VuStep, Begin, ReadClock, CheckDeadline, Count, RunOne, vars, gate, Total
<1>6. Stopped \subseteq Stopped'
  BY <1>1 DEF Stopped, TypeOK, States, Next, Tick, Open, VuStep, Begin, ReadClock, CheckDeadline,
              Count, RunOne, vars, vus, Goto
<1>7. old <= new
  BY <1>4, <1>6, FS_Subset
<1>8. CASE counter' = counter
  <2> HIDE DEF old, new
  <2>1. Total # None => counter' <= Total + new
    BY <1>2, <1>3, <1>4, <1>7, <1>8 DEF CounterInv, old
  <2> QED
    BY <1>5, <2>1 DEF CounterInv, new
<1>9. CASE counter' # counter
  <2>1. PICK v \in Vus : Count(v)
    BY <1>9 DEF Next, Tick, Open, VuStep, Begin, ReadClock, CheckDeadline, RunOne, vars, gate
  <2>2. Total # None /\ counter' = counter + 1 /\ pc[v] = "count" /\ Total \in Nat
        /\ pc' = [pc EXCEPT ![v] = IF counter < Total THEN "run" ELSE "stopped"]
    BY <1>2, <1>9, <2>1 DEF Count, Goto
  <2>3. CASE counter < Total
    <3> HIDE DEF old, new
    <3>1. counter' <= Total + new
      BY <1>2, <1>4, <2>2, <2>3
    <3> QED
      BY <1>5, <3>1 DEF CounterInv, new
  <2>4. CASE ~(counter < Total)
    <3>1. v \notin Stopped /\ Stopped \union {v} \subseteq Stopped'
      BY <1>1, <1>6, <2>2, <2>4 DEF Stopped, TypeOK
    <3>2. Cardinality(Stopped \union {v}) = old + 1 /\ IsFiniteSet(Stopped \union {v})
      BY <1>3, <3>1, FS_AddElement
    <3>3. old + 1 <= new
      BY <1>4, <3>1, <3>2, FS_Subset
    <3> HIDE DEF old, new
    <3>4. counter' <= Total + new
      BY <1>2, <1>3, <1>4, <2>2, <3>3 DEF CounterInv, old
    <3> QED
      BY <1>5, <3>4 DEF CounterInv, new
  <2> QED
    BY <2>3, <2>4
<1> QED
  BY <1>8, <1>9

LEMMA CounterBound == IInv /\ CounterInv => CounterBounded
<1> SUFFICES ASSUME IInv, CounterInv, Total # None PROVE counter <= Total + Cardinality(Vus)
  BY DEF CounterBounded
<1>1. Total \in Nat /\ counter \in Nat
  BY TotalType DEF IInv, TypeOK
<1> QED
  BY <1>1, StoppedFinite DEF CounterInv

\* The gate's counter runs past the limit by at most one per VU: it cannot wrap.
THEOREM CounterNeverWraps == Spec => []CounterBounded
<1>1. Init => CounterInv
  <2> SUFFICES ASSUME Init, Total # None PROVE counter <= Total + Cardinality(Stopped)
    BY DEF CounterInv
  <2>1. Total \in Nat /\ counter = 0
    BY InvInit, TotalType DEF Init, IInv
  <2> QED
    BY <2>1, StoppedFinite
<1> QED
  BY <1>1, InvInit, InvStep, CounterStep, CounterBound, PTL DEF Spec

-----------------------------------------------------------------------------
(* Induction over the natural numbers, stated for sets of them.              *)

LEMMA Minimal ==
    ASSUME NEW rel, IsWellFoundedOn(rel, Nat), NEW S \in SUBSET Nat, S # {}
    PROVE  \E n \in S : \A m \in S : ~(<<m, n>> \in rel)
BY WFMin

LEMMA LeastIn ==
    ASSUME NEW rel, IsWellFoundedOn(rel, Nat), \A m, n \in Nat : m < n => <<m, n>> \in rel,
           NEW S \in SUBSET Nat, S # {}
    PROVE  \E n \in S : \A m \in S : n <= m
<1>1. S \subseteq Nat
  OBVIOUS
<1>2. PICK n \in S : \A m \in S : ~(<<m, n>> \in rel)
  BY Minimal, Zenon
<1>3. \A m \in S : ~(m < n)
  BY <1>1, <1>2, Zenon
<1>4. \A m \in S : n <= m
  BY <1>1, <1>3
<1> QED
  BY <1>4

\* A set of natural numbers that is not empty has a least member.
LEMMA LeastNumber ==
    ASSUME NEW S \in SUBSET Nat, S # {}
    PROVE  \E n \in S : \A m \in S : n <= m
<1>1. IsWellFoundedOn(OpToRel(<, Nat), Nat)
  BY NatLessThanWellFounded
<1>2. \A m, n \in Nat : m < n => <<m, n>> \in OpToRel(<, Nat)
  BY DEF OpToRel
<1> QED
  BY <1>1, <1>2, LeastIn, Zenon

\* A set with 0 and, with every member, the next number has all numbers.
LEMMA Induction ==
    ASSUME NEW S \in SUBSET Nat, 0 \in S, \A n \in S : n + 1 \in S
    PROVE  S = Nat
<1> SUFFICES ASSUME Nat \ S # {} PROVE FALSE
  OBVIOUS
<1>1. PICK n \in Nat \ S : \A m \in Nat \ S : n <= m
  BY LeastNumber
<1>2. n - 1 \in Nat /\ n - 1 \notin Nat \ S
  BY <1>1
<1>3. (n - 1) + 1 \in S
  BY <1>2
<1> QED
  BY <1>1, <1>3

-----------------------------------------------------------------------------
(* Arithmetic of the interpolation. *)

LEMMA DivFacts ==
    ASSUME NEW x \in Nat, NEW y \in Nat, y > 0
    PROVE  x \div y \in Nat /\ y * (x \div y) <= x /\ x < y * (x \div y) + y
OBVIOUS

LEMMA TimesMonotone ==
    ASSUME NEW a \in Int, NEW b \in Int, NEW c \in Nat, a <= b
    PROVE  a * c <= b * c /\ a * c \in Int /\ b * c \in Int
OBVIOUS

\* A quotient is below k if the dividend is below k times the divisor, and only then.
LEMMA DivBelow ==
    ASSUME NEW x \in Nat, NEW y \in Nat, y > 0, NEW k \in Nat
    PROVE  x \div y < k <=> x < k * y
<1> DEFINE q == x \div y
<1>1. q \in Nat /\ y * q <= x /\ x < y * q + y
  BY DivFacts
<1> HIDE DEF q
<1>2. ASSUME k <= q PROVE k * y <= x
  <2>1. k * y <= q * y
    BY <1>1, <1>2, TimesMonotone
  <2> QED
    BY <1>1, <2>1
<1>3. ASSUME q + 1 <= k PROVE x < k * y
  <2>1. (q + 1) * y <= k * y
    BY <1>1, <1>3, TimesMonotone
  <2>2. (q + 1) * y = y * q + y
    BY <1>1
  <2> QED
    BY <1>1, <2>1, <2>2
<1>4. k * y \in Nat
  OBVIOUS
<1>5. q < k <=> x < k * y
  BY <1>1, <1>2, <1>3, <1>4
<1> QED
  BY <1>5 DEF q

LEMMA DivMonotone ==
    ASSUME NEW x \in Nat, NEW z \in Nat, NEW y \in Nat, y > 0, x <= z
    PROVE  x \div y <= z \div y
<1>1. x \div y \in Nat /\ z \div y \in Nat /\ z < y * (z \div y) + y
  BY DivFacts
<1>2. (z \div y + 1) * y = y * (z \div y) + y
  BY <1>1
<1>3. x < (z \div y + 1) * y
  BY <1>1, <1>2
<1>4. x \div y < z \div y + 1
  BY <1>1, <1>3, DivBelow
<1> QED
  BY <1>1, <1>4

\* What the interpolation adds to the start of a stage, n ticks of d into it.
Share(delta, n, d) == TruncDiv(delta * n, d)

LEMMA ShareUp ==
    ASSUME NEW delta \in Nat, NEW d \in Nat, d > 0, NEW n \in 0..d
    PROVE  Share(delta, n, d) = (delta * n) \div d /\ Share(delta, n, d) \in 0..delta
<1>1. delta * n \in Nat /\ delta * d \in Nat /\ delta * n >= 0
  OBVIOUS
<1>2. Share(delta, n, d) = (delta * n) \div d
  BY <1>1 DEF Share, TruncDiv
<1>3. (delta * n) \div d \in Nat
  BY <1>1, DivFacts
<1>4. n * delta <= d * delta
  BY TimesMonotone
<1>5. delta * n < (delta + 1) * d
  <2>1. n * delta = delta * n /\ d * delta = delta * d /\ (delta + 1) * d = delta * d + d
    OBVIOUS
  <2> QED
    BY <1>1, <1>4, <2>1
<1>6. (delta * n) \div d < delta + 1
  BY <1>1, <1>5, DivBelow
<1> QED
  BY <1>2, <1>3, <1>6

LEMMA ShareDown ==
    ASSUME NEW delta \in Nat, NEW d \in Nat, d > 0, NEW n \in 0..d
    PROVE  Share(-delta, n, d) = -Share(delta, n, d)
<1>1. (-delta) * n = -(delta * n) /\ delta * n \in Nat
  OBVIOUS
<1>2. CASE delta * n = 0
  <2>1. 0 \div d = 0
    OBVIOUS
  <2> QED
    BY <1>1, <1>2, <2>1 DEF Share, TruncDiv
<1>3. CASE delta * n > 0
  BY <1>1, <1>3 DEF Share, TruncDiv
<1> QED
  BY <1>1, <1>2, <1>3

LEMMA ShareMonotone ==
    ASSUME NEW delta \in Nat, NEW d \in Nat, d > 0, NEW n \in 0..d, NEW m \in 0..d, n <= m
    PROVE  Share(delta, n, d) <= Share(delta, m, d)
<1>1. delta * n \in Nat /\ delta * m \in Nat
  OBVIOUS
<1>2. n * delta <= m * delta
  BY TimesMonotone
<1>3. delta * n <= delta * m
  BY <1>1, <1>2
<1>4. (delta * n) \div d <= (delta * m) \div d
  BY <1>1, <1>3, DivMonotone
<1> QED
  BY <1>4, ShareUp

-----------------------------------------------------------------------------
(* Stages. *)

StageLists == Seq([duration : Nat, target : Nat])
Schedules  == [start : Nat, stages : StageLists]

LEMMA MemberOf == ASSUME NEW T, NEW q \in Seq(T), NEW i \in 1..Len(q) PROVE q[i] \in T
OBVIOUS

LEMMA StageTypes ==
    ASSUME NEW stages \in StageLists
    PROVE  /\ Len(stages) \in Nat /\ DOMAIN stages = 1..Len(stages)
           /\ \A i \in 1..Len(stages) : stages[i].duration \in Nat /\ stages[i].target \in Nat
<1>1. Len(stages) \in Nat /\ DOMAIN stages = 1..Len(stages)
  BY DEF StageLists
<1>2. ASSUME NEW i \in 1..Len(stages) PROVE stages[i] \in [duration : Nat, target : Nat]
  BY MemberOf DEF StageLists
<1> QED
  BY <1>1, <1>2

\* One stage more.
AddStage(stages, ends, i) == IF i = 0 THEN 0 ELSE ends[i - 1] + stages[i].duration

LEMMA SumExists ==
    ASSUME NEW stages, NEW n \in Nat
    PROVE  \E g : g = [i \in 0..n |-> AddStage(stages, g, i)]
<1> DEFINE S == {k \in Nat : \E g : g = [i \in 0..k |-> AddStage(stages, g, i)]}
<1>1. 0 \in S
  <2>1. [i \in 0..0 |-> 0] = [i \in 0..0 |-> AddStage(stages, [j \in 0..0 |-> 0], i)]
    BY DEF AddStage
  <2> QED
    BY <2>1
<1>2. ASSUME NEW k \in S PROVE k + 1 \in S
  <2>1. PICK g : g = [i \in 0..k |-> AddStage(stages, g, i)]
    OBVIOUS
  <2> DEFINE h == [i \in 0..k + 1 |-> IF i <= k THEN g[i] ELSE AddStage(stages, g, i)]
  <2>2. ASSUME NEW i \in 0..k + 1 PROVE h[i] = AddStage(stages, h, i)
    <3>1. h[i] = AddStage(stages, g, i)
      BY <2>1
    <3>2. i = 0 \/ h[i - 1] = g[i - 1]
      OBVIOUS
    <3> HIDE DEF h
    <3> QED
      BY <3>1, <3>2 DEF AddStage
  <2>3. h = [i \in 0..k + 1 |-> h[i]]
    OBVIOUS
  <2> HIDE DEF h
  <2>4. h = [i \in 0..k + 1 |-> AddStage(stages, h, i)]
    BY <2>2, <2>3
  <2>5. k + 1 \in Nat
    OBVIOUS
  <2> QED
    BY <2>4, <2>5
<1>3. S \in SUBSET Nat
  OBVIOUS
<1>4. S = Nat
  <2> HIDE DEF S
  <2> QED
    BY <1>1, <1>2, <1>3, Induction
<1> QED
  BY <1>4

\* Sums of durations are sums.
LEMMA SumFacts ==
    ASSUME NEW stages \in StageLists, NEW g, g = [i \in 0..Len(stages) |-> AddStage(stages, g, i)]
    PROVE  /\ g[0] = 0
           /\ \A i \in 1..Len(stages) : g[i] = g[i - 1] + stages[i].duration
           /\ \A i \in 0..Len(stages) : g[i] \in Nat
<1> DEFINE n == Len(stages)
           S == {k \in Nat : k <= n => g[k] \in Nat}
<1>1. n \in Nat /\ \A i \in 1..n : stages[i].duration \in Nat
  BY StageTypes
<1>2. \A i \in 0..n : g[i] = AddStage(stages, g, i)
  OBVIOUS
<1>3. g[0] = 0
  BY <1>1, <1>2 DEF AddStage
<1>4. \A i \in 1..n : g[i] = g[i - 1] + stages[i].duration
  BY <1>1, <1>2 DEF AddStage
<1>5. 0 \in S
  BY <1>3
<1>6. ASSUME NEW k \in S PROVE k + 1 \in S
  <2>1. k + 1 \in Nat /\ (k + 1) - 1 = k /\ (k + 1 <= n => k + 1 \in 1..n /\ k <= n)
    BY <1>1
  <2>2. k + 1 <= n => g[k + 1] = g[k] + stages[k + 1].duration
    BY <1>4, <2>1
  <2> QED
    BY <1>1, <2>1, <2>2
<1>7. S = Nat
  <2>1. S \in SUBSET Nat
    OBVIOUS
  <2> HIDE DEF S
  <2> QED
    BY <1>5, <1>6, <2>1, Induction
<1>8. ASSUME NEW i \in 0..n PROVE g[i] \in Nat
  <2>1. i \in S /\ i <= n
    <3>1. i \in Nat /\ i <= n
      BY <1>1
    <3> HIDE DEF S
    <3> QED
      BY <1>7, <3>1
  <2> QED
    BY <2>1
<1> QED
  BY <1>3, <1>4, <1>8

LEMMA EndsFacts ==
    ASSUME NEW s \in Schedules
    PROVE  /\ Len(s.stages) \in Nat /\ Ends(s)[0] = 0
           /\ \A i \in 1..Len(s.stages) : Ends(s)[i] = Ends(s)[i - 1] + s.stages[i].duration
           /\ \A i \in 0..Len(s.stages) : Ends(s)[i] \in Nat
<1>1. s.stages \in StageLists /\ Len(s.stages) \in Nat
  BY DEF Schedules, StageLists
<1>2. \E g : g = [i \in 0..Len(s.stages) |-> AddStage(s.stages, g, i)]
  BY <1>1, SumExists
<1>3. Ends(s) = [i \in 0..Len(s.stages) |-> AddStage(s.stages, Ends(s), i)]
  BY <1>2 DEF Ends, AddStage
<1> QED
  BY <1>1, <1>3, SumFacts

LEMMA EndsMonotone ==
    ASSUME NEW s \in Schedules, NEW i \in 0..Len(s.stages), NEW j \in 0..Len(s.stages), i <= j
    PROVE  Ends(s)[i] <= Ends(s)[j]
<1> DEFINE n == Len(s.stages)
           e == Ends(s)
           S == {k \in Nat : i + k <= n => e[i] <= e[i + k]}
<1>1. n \in Nat /\ \A k \in 0..n : e[k] \in Nat
  BY EndsFacts
<1>2. \A k \in 1..n : e[k] >= e[k - 1]
  <2> SUFFICES ASSUME NEW k \in 1..n PROVE e[k] >= e[k - 1]
    OBVIOUS
  <2>1. e[k] = e[k - 1] + s.stages[k].duration /\ s.stages[k].duration \in Nat /\ e[k - 1] \in Nat
    <3>1. s.stages \in StageLists /\ k - 1 \in 0..n
      BY <1>1 DEF Schedules
    <3> QED
      BY <1>1, <3>1, EndsFacts, StageTypes
  <2> QED
    BY <2>1
<1> HIDE DEF e
<1>3. 0 \in S
  BY <1>1
<1>4. ASSUME NEW k \in S PROVE k + 1 \in S
  <2>1. k \in Nat /\ k + 1 \in Nat
    OBVIOUS
  <2>2. ASSUME i + (k + 1) <= n PROVE e[i] <= e[i + (k + 1)]
    <3>1. i + (k + 1) \in 1..n /\ (i + (k + 1)) - 1 = i + k /\ i + k \in 0..n
      BY <1>1, <2>1, <2>2
    <3>2. e[i] <= e[i + k]
      BY <3>1
    <3>3. e[i + (k + 1)] >= e[i + k]
      BY <1>2, <3>1
    <3> QED
      BY <1>1, <3>1, <3>2, <3>3
  <2> QED
    BY <2>1, <2>2
<1>5. S = Nat
  <2>1. S \in SUBSET Nat
    OBVIOUS
  <2> HIDE DEF S
  <2> QED
    BY <1>3, <1>4, <2>1, Induction
<1>6. j - i \in S /\ i + (j - i) = j /\ j <= n
  <2>1. j - i \in Nat
    BY <1>1
  <2>2. j - i \in S
    <3> HIDE DEF S
    <3> QED
      BY <1>5, <2>1
  <2> QED
    BY <1>1, <2>2
<1>7. e[i] <= e[j]
  BY <1>6
<1> QED
  BY <1>7 DEF e

-----------------------------------------------------------------------------
(* Targets. *)

LEMMA StageFacts ==
    ASSUME NEW s \in Schedules, NEW i \in 1..Len(s.stages)
    PROVE  /\ StartTarget(s, i) \in Nat /\ s.stages[i].target \in Nat
           /\ s.stages[i].duration \in Nat
           /\ Ends(s)[i - 1] \in Nat /\ Ends(s)[i] \in Nat
           /\ Ends(s)[i] = Ends(s)[i - 1] + s.stages[i].duration
           /\ Ends(s)[i] <= TotalDuration(s) /\ TotalDuration(s) \in Nat
<1>1. s.stages \in StageLists /\ Len(s.stages) \in Nat /\ s.start \in Nat
  BY EndsFacts DEF Schedules
<1>2. i - 1 \in 0..Len(s.stages) /\ i \in 0..Len(s.stages) /\ Len(s.stages) \in 0..Len(s.stages)
      /\ (i # 1 => i - 1 \in 1..Len(s.stages))
  BY <1>1
<1>3. StartTarget(s, i) \in Nat
  BY <1>1, <1>2, StageTypes DEF StartTarget
<1>4. Ends(s)[i] <= Ends(s)[Len(s.stages)]
  BY <1>1, <1>2, EndsMonotone
<1> QED
  BY <1>1, <1>2, <1>3, <1>4, EndsFacts, StageTypes DEF TotalDuration

\* The search finds a stage that the time falls into.
InStage(s, t, i) ==
    /\ i \in 1..Len(s.stages) /\ t \in Nat
    /\ Ends(s)[i - 1] <= t /\ t <= Ends(s)[i]

LEMMA SearchFacts ==
    ASSUME NEW s \in Schedules, NEW t \in Nat, NEW i \in StagesAt(s, t)
    PROVE  InStage(s, t, i)
<1>1. i \in 1..Len(s.stages) /\ (Ends(s)[i] = t \/ (Ends(s)[i - 1] <= t /\ t < Ends(s)[i]))
  BY DEF StagesAt
<1>2. Ends(s)[i - 1] \in Nat /\ Ends(s)[i] \in Nat /\ s.stages[i].duration \in Nat
      /\ Ends(s)[i] = Ends(s)[i - 1] + s.stages[i].duration
  BY <1>1, StageFacts
<1> QED
  BY <1>1, <1>2 DEF InStage

LEMMA OffsetFacts ==
    ASSUME NEW s \in Schedules, NEW t, NEW i, InStage(s, t, i)
    PROVE  t - Ends(s)[i - 1] \in 0..s.stages[i].duration
<1>1. i \in 1..Len(s.stages) /\ t \in Nat /\ Ends(s)[i - 1] <= t /\ t <= Ends(s)[i]
  BY DEF InStage
<1>2. Ends(s)[i - 1] \in Nat /\ Ends(s)[i] \in Nat /\ s.stages[i].duration \in Nat
      /\ Ends(s)[i] = Ends(s)[i - 1] + s.stages[i].duration
  BY <1>1, StageFacts
<1> QED
  BY <1>1, <1>2

\* The interpolation is the start and a share of the way up, or down.
LEMMA InterpolateForm ==
    ASSUME NEW s \in Schedules, NEW t, NEW i, InStage(s, t, i), s.stages[i].duration > 0
    PROVE  LET a == StartTarget(s, i)
               b == s.stages[i].target
               d == s.stages[i].duration
               n == t - Ends(s)[i - 1]
           IN /\ a \in Nat /\ b \in Nat /\ d \in Nat /\ n \in 0..d
              /\ a <= b => /\ Interpolate(s, t, i) = a + Share(b - a, n, d)
                           /\ Share(b - a, n, d) \in 0..(b - a)
              /\ b <= a => /\ Interpolate(s, t, i) = a - Share(a - b, n, d)
                           /\ Share(a - b, n, d) \in 0..(a - b)
<1> DEFINE a == StartTarget(s, i)
           b == s.stages[i].target
           d == s.stages[i].duration
           n == t - Ends(s)[i - 1]
<1>1. a \in Nat /\ b \in Nat /\ d \in Nat /\ d > 0
  BY StageFacts DEF InStage
<1>2. n \in 0..d
  BY StageFacts DEF InStage
<1>3. Interpolate(s, t, i) = AtLeast(a + Share(b - a, n, d), 0)
  BY <1>1 DEF Interpolate, Share
<1> HIDE DEF a, b, d, n
<1>4. ASSUME a <= b
      PROVE  Interpolate(s, t, i) = a + Share(b - a, n, d) /\ Share(b - a, n, d) \in 0..(b - a)
  <2>1. b - a \in Nat
    BY <1>1, <1>4
  <2>2. Share(b - a, n, d) \in 0..(b - a)
    BY <1>1, <1>2, <2>1, ShareUp
  <2> QED
    BY <1>1, <1>3, <2>1, <2>2 DEF AtLeast
<1>5. ASSUME b <= a
      PROVE  Interpolate(s, t, i) = a - Share(a - b, n, d) /\ Share(a - b, n, d) \in 0..(a - b)
  <2>1. a - b \in Nat /\ b - a = -(a - b)
    BY <1>1, <1>5
  <2>2. Share(a - b, n, d) \in 0..(a - b)
    BY <1>1, <1>2, <2>1, ShareUp
  <2>3. Share(b - a, n, d) = -Share(a - b, n, d)
    BY <1>1, <1>2, <2>1, ShareDown
  <2> QED
    BY <1>1, <1>3, <2>1, <2>2, <2>3 DEF AtLeast
<1> QED
  BY <1>1, <1>2, <1>4, <1>5 DEF a, b, d, n

\* The target lies between the ends of its stage.
LEMMA InterpolateBetween ==
    ASSUME NEW s \in Schedules, NEW t, NEW i, InStage(s, t, i)
    PROVE  LET a == StartTarget(s, i)
               b == s.stages[i].target
           IN /\ Interpolate(s, t, i) \in Nat /\ a \in Nat /\ b \in Nat
              /\ a <= b => a <= Interpolate(s, t, i) /\ Interpolate(s, t, i) <= b
              /\ b <= a => b <= Interpolate(s, t, i) /\ Interpolate(s, t, i) <= a
              /\ s.stages[i].duration = 0 => Interpolate(s, t, i) = b
<1>1. /\ StartTarget(s, i) \in Nat /\ s.stages[i].target \in Nat /\ s.stages[i].duration \in Nat
  BY StageFacts DEF InStage
<1>2. CASE s.stages[i].duration = 0
  BY <1>1, <1>2 DEF Interpolate
<1>3. CASE s.stages[i].duration > 0
  BY <1>1, <1>3, InterpolateForm
<1> QED
  BY <1>1, <1>2, <1>3

\* A target that falls only falls.
LEMMA InterpolateFalls ==
    ASSUME NEW s \in Schedules, NEW t, NEW u, NEW i, InStage(s, t, i), InStage(s, u, i),
           s.stages[i].target <= StartTarget(s, i), t <= u
    PROVE  Interpolate(s, u, i) <= Interpolate(s, t, i)
<1> DEFINE a == StartTarget(s, i)
           b == s.stages[i].target
           d == s.stages[i].duration
           n == t - Ends(s)[i - 1]
           m == u - Ends(s)[i - 1]
<1>1. d \in Nat
  BY StageFacts DEF InStage
<1>2. CASE d = 0
  BY <1>2, InterpolateBetween DEF InStage
<1>3. CASE d > 0
  <2>1. a \in Nat /\ b \in Nat /\ d \in Nat /\ n \in 0..d /\ m \in 0..d /\ b <= a
    BY <1>3, InterpolateForm
  <2>2. /\ Interpolate(s, t, i) = a - Share(a - b, n, d) /\ Share(a - b, n, d) \in 0..(a - b)
        /\ Interpolate(s, u, i) = a - Share(a - b, m, d) /\ Share(a - b, m, d) \in 0..(a - b)
    BY <1>3, InterpolateForm
  <2>3. n <= m
    BY StageFacts DEF InStage
  <2> HIDE DEF a, b, d, n, m
  <2>4. Share(a - b, n, d) <= Share(a - b, m, d)
    BY <1>3, <2>1, <2>3, ShareMonotone
  <2> QED
    BY <2>1, <2>2, <2>4
<1> QED
  BY <1>1, <1>2, <1>3

\* A target that rises reaches v no sooner than next_recheck_in works out.
LEMMA InterpolateRises ==
    ASSUME NEW s \in Schedules, NEW t, NEW i, InStage(s, t, i), NEW v \in Nat,
           StartTarget(s, i) < v, StartTarget(s, i) < s.stages[i].target,
           t - Ends(s)[i - 1] <
              ((v - StartTarget(s, i)) * s.stages[i].duration) \div (s.stages[i].target - StartTarget(s, i))
    PROVE  Interpolate(s, t, i) < v
<1> DEFINE a == StartTarget(s, i)
           b == s.stages[i].target
           d == s.stages[i].duration
           n == t - Ends(s)[i - 1]
           q == ((v - a) * d) \div (b - a)
<1>1. a \in Nat /\ b \in Nat /\ d \in Nat /\ n \in 0..d
  <2>1. a \in Nat /\ b \in Nat /\ d \in Nat
    BY StageFacts DEF InStage
  <2>2. n \in 0..d
    BY OffsetFacts
  <2> QED
    BY <2>1, <2>2
<1>2. v - a \in Nat /\ v - a > 0 /\ b - a \in Nat /\ b - a > 0 /\ n < q
  BY <1>1
<1>3. (v - a) * d \in Nat
  BY <1>1, <1>2
<1>4. q \in Nat /\ (b - a) * q <= (v - a) * d
  BY <1>2, <1>3, DivFacts
<1>5. n * (b - a) < (v - a) * d
  <2>1. (n + 1) * (b - a) <= q * (b - a)
    BY <1>1, <1>2, <1>4, TimesMonotone
  <2>2. (n + 1) * (b - a) = n * (b - a) + (b - a) /\ q * (b - a) = (b - a) * q
        /\ n * (b - a) \in Nat
    BY <1>1, <1>2, <1>4
  <2> HIDE DEF a, b, d, n, q
  <2> QED
    BY <1>1, <1>2, <1>3, <1>4, <2>1, <2>2
<1>6. d > 0
  <2>1. CASE d = 0
    BY <1>1, <1>2, <1>5, <2>1
  <2> QED
    BY <1>1, <2>1
<1>7. Interpolate(s, t, i) = a + Share(b - a, n, d) /\ Share(b - a, n, d) = ((b - a) * n) \div d
  <2>1. Interpolate(s, t, i) = a + Share(b - a, n, d)
    BY <1>1, <1>2, <1>6, InterpolateForm
  <2> HIDE DEF a, b, d, n, q
  <2> QED
    BY <1>1, <1>2, <1>6, <2>1, ShareUp
<1>8. ((b - a) * n) \div d < v - a
  <2>1. (b - a) * n = n * (b - a) /\ (b - a) * n \in Nat
    BY <1>1, <1>2
  <2> HIDE DEF a, b, d, n
  <2> QED
    BY <1>1, <1>2, <1>5, <1>6, <2>1, DivBelow
<1>9. ((b - a) * n) \div d \in Nat
  BY <1>1, <1>2, <1>6, DivFacts
<1> HIDE DEF a, b, d, n, q
<1> QED
  BY <1>1, <1>2, <1>7, <1>8, <1>9

\* The target is between the ends of the stage that the search finds, but for the very
\* start, where it is the start of the schedule whichever empty stage is found.
LEMMA TargetBetween ==
    ASSUME NEW s \in Schedules, NEW t \in 0..TotalDuration(s), NEW i \in StagesAt(s, t)
    PROVE  LET index == IF IsDone(s, t) THEN Len(s.stages) ELSE i
               a == StartTarget(s, index)
               b == s.stages[index].target
               x == TargetAt(s, t, i)
           IN /\ InStage(s, t, index) /\ x \in Nat
              /\ \/ t = 0 /\ x = s.start
                 \/ a <= x /\ x <= b
                 \/ b <= x /\ x <= a
<1> DEFINE n == Len(s.stages)
<1>1. InStage(s, t, i) /\ i \in 1..n /\ n \in Nat /\ n \in 1..n
  <2>1. n \in Nat /\ TotalDuration(s) \in Nat
    BY EndsFacts DEF TotalDuration
  <2>2. InStage(s, t, i)
    BY <2>1, SearchFacts
  <2> QED
    BY <2>1, <2>2 DEF InStage
<1>2. s.start \in Nat /\ s.stages # <<>>
  BY <1>1 DEF Schedules
<1>3. CASE IsDone(s, t)
  <2>1. t = TotalDuration(s) /\ TotalDuration(s) = Ends(s)[n] /\ Ends(s)[n] \in Nat
    BY <1>1, <1>3, StageFacts DEF IsDone, TotalDuration
  <2>2. InStage(s, t, n)
    BY <1>1, <2>1, StageFacts DEF InStage
  <2>3. StartTarget(s, n) \in Nat /\ s.stages[n].target \in Nat
    BY <1>1, StageFacts
  <2>4. t = 0 => TargetAt(s, t, i) = s.start
    BY <1>2, <1>3 DEF TargetAt
  <2>5. t # 0 => TargetAt(s, t, i) = s.stages[n].target
    BY <1>2, <1>3 DEF TargetAt
  <2> QED
    BY <1>2, <1>3, <2>2, <2>3, <2>4, <2>5
<1>4. CASE ~IsDone(s, t)
  <2>1. t = 0 => TargetAt(s, t, i) = s.start
    BY <1>2, <1>4 DEF TargetAt
  <2>2. t # 0 => TargetAt(s, t, i) = Interpolate(s, t, i)
    BY <1>2, <1>4 DEF TargetAt
  <2> QED
    BY <1>1, <1>2, <1>4, <2>1, <2>2, InterpolateBetween
<1> QED
  BY <1>3, <1>4

\* Within a stage the search finds that stage.
LEMMA SearchWithin ==
    ASSUME NEW s \in Schedules, NEW i \in 1..Len(s.stages), NEW t \in Nat,
           Ends(s)[i - 1] < t, t < Ends(s)[i], NEW j \in StagesAt(s, t)
    PROVE  j = i
<1> DEFINE n == Len(s.stages)
<1>1. n \in Nat /\ j \in 1..n /\ i - 1 \in 0..n /\ i \in 0..n /\ j \in 0..n /\ j - 1 \in 0..n
  BY EndsFacts DEF StagesAt
<1>2. \A k \in 0..n : Ends(s)[k] \in Nat
  BY EndsFacts
<1>3. ASSUME j < i PROVE FALSE
  <2>1. j <= i - 1
    BY <1>1, <1>3
  <2>2. Ends(s)[j] <= Ends(s)[i - 1]
    BY <1>1, <2>1, EndsMonotone
  <2>3. Ends(s)[j] >= t
    BY <1>1, <1>2, SearchFacts DEF InStage
  <2> QED
    BY <1>1, <1>2, <2>2, <2>3
<1>4. ASSUME i < j PROVE FALSE
  <2>1. i <= j - 1
    BY <1>1, <1>4
  <2>2. Ends(s)[i] <= Ends(s)[j - 1]
    BY <1>1, <2>1, EndsMonotone
  <2>3. Ends(s)[j - 1] <= t
    BY SearchFacts DEF InStage
  <2> QED
    BY <1>1, <1>2, <2>2, <2>3
<1> QED
  BY <1>1, <1>3, <1>4

\* Before the end of the stage that was found, target_at interpolates in it: at the very
\* start that stage is the first.
LEMMA TargetInterpolates ==
    ASSUME NEW s \in Schedules, NEW t \in Nat, NEW i \in StagesAt(s, t), t < Ends(s)[i]
    PROVE  TargetAt(s, t, i) = Interpolate(s, t, i) /\ ~IsDone(s, t) /\ InStage(s, t, i)
<1>1. InStage(s, t, i)
  BY SearchFacts
<1>2. i \in 1..Len(s.stages) /\ Len(s.stages) \in Nat
  BY <1>1, EndsFacts DEF InStage
<1>3. s.stages # <<>> /\ s.start \in Nat
  BY <1>2 DEF Schedules
<1>4. ~IsDone(s, t)
  BY <1>2, StageFacts DEF IsDone
<1>5. CASE t # 0
  BY <1>1, <1>3, <1>4, <1>5 DEF TargetAt
<1>6. CASE t = 0
  <2>1. \A k \in 1..Len(s.stages) : Ends(s)[k] # 0
    <3>1. Ends(s)[i] # t
      BY <1>2, StageFacts
    <3> QED
      BY <1>6, <3>1 DEF StagesAt
  <2>2. Ends(s)[i - 1] = 0
    BY <1>1, <1>2, <1>6, StageFacts DEF InStage
  <2>3. i = 1
    BY <1>2, <2>1, <2>2
  <2>4. StartTarget(s, i) = s.start
    BY <2>3 DEF StartTarget
  <2>5. s.stages[i].duration > 0 /\ t - Ends(s)[i - 1] = 0
    BY <1>2, <1>6, <2>2, StageFacts
  <2>6. \A delta \in Nat : Share(delta, 0, s.stages[i].duration) = 0
    <3> SUFFICES ASSUME NEW delta \in Nat PROVE Share(delta, 0, s.stages[i].duration) = 0
      OBVIOUS
    <3>1. delta * 0 = 0 /\ s.stages[i].duration \in Nat
      BY <1>2, StageFacts
    <3>2. 0 \div s.stages[i].duration = 0
      BY <2>5, <3>1
    <3> QED
      BY <3>1, <3>2 DEF Share, TruncDiv
  <2>7. Interpolate(s, t, i) = s.start
    <3>1. s.stages[i].target \in Nat
      BY <1>2, StageFacts
    <3>2. CASE s.start <= s.stages[i].target
      <4>1. s.stages[i].target - s.start \in Nat
        BY <1>3, <3>1, <3>2
      <4>2. Interpolate(s, t, i) = s.start + Share(s.stages[i].target - s.start, 0, s.stages[i].duration)
        BY <1>1, <2>4, <2>5, <3>2, InterpolateForm
      <4> QED
        BY <1>3, <2>6, <4>1, <4>2
    <3>3. CASE s.stages[i].target <= s.start
      <4>1. s.start - s.stages[i].target \in Nat
        BY <1>3, <3>1, <3>3
      <4>2. Interpolate(s, t, i) = s.start - Share(s.start - s.stages[i].target, 0, s.stages[i].duration)
        BY <1>1, <2>4, <2>5, <3>3, InterpolateForm
      <4> QED
        BY <1>3, <2>6, <4>1, <4>2
    <3> QED
      BY <1>3, <3>1, <3>2, <3>3
  <2> QED
    BY <1>1, <1>4, <1>6, <2>7 DEF TargetAt
<1> QED
  BY <1>5, <1>6

\* A VU that sleeps as long as next_recheck_in says is not due before it wakes up, but
\* for the shortest sleep.
LEMMA RecheckInTime ==
    ASSUME NEW s \in Schedules, NEW v \in Nat, NEW t \in Nat, ~IsDone(s, t),
           NEW i \in StagesAt(s, t), v > TargetAt(s, t, i),
           NEW u \in (t + Ms)..(t + AtLeast(NextRecheckIn(s, t, v, i), Ms) - 1),
           NEW j \in StagesAt(s, u)
    PROVE  TargetAt(s, u, j) < v
<1> DEFINE a == StartTarget(s, i)
           b == s.stages[i].target
           wait == NextRecheckIn(s, t, v, i)
<1>1. Ms \in Nat /\ Ms > 0 /\ DefaultSleep \in Nat
  BY ScheduleAssumption
<1>2. InStage(s, t, i) /\ i \in 1..Len(s.stages) /\ s.stages # <<>>
  BY SearchFacts, EndsFacts DEF InStage, Schedules
<1>3. /\ a \in Nat /\ b \in Nat /\ Ends(s)[i] \in Nat /\ Ends(s)[i - 1] \in Nat
      /\ s.stages[i].duration \in Nat /\ Ends(s)[i] = Ends(s)[i - 1] + s.stages[i].duration
  BY <1>2, StageFacts
<1>4. TargetAt(s, t, i) \in Nat
  <2>1. t \in 0..TotalDuration(s)
    BY <1>2, StageFacts DEF IsDone
  <2> QED
    BY <2>1, TargetBetween
<1>5. s.stages # <<>> /\ ~IsDone(s, t) /\ ~(v <= TargetAt(s, t, i))
  BY <1>2, <1>4
<1>6. b <= a \/ v > b => wait = AtMost(Ends(s)[i] - t, DefaultSleep)
  BY <1>5 DEF NextRecheckIn
<1>7. ~(b <= a \/ v > b) /\ v <= a => wait = 0
  BY <1>5 DEF NextRecheckIn
<1>8. ~(b <= a \/ v > b) /\ ~(v <= a) => wait = TargetWait(s, t, v, i)
  BY <1>5 DEF NextRecheckIn
<1>u. u \in (t + Ms)..(t + AtLeast(wait, Ms) - 1)
  OBVIOUS
<1> HIDE DEF wait
<1> DEFINE d == s.stages[i].duration
           q == ((v - a) * d) \div (b - a)
<1>9. ASSUME ~(b <= a \/ v > b), ~(v <= a)
      PROVE  /\ q \in Nat /\ q <= d
             /\ wait \in Int /\ wait <= DefaultSleep /\ (wait > 0 => wait <= q - (t - Ends(s)[i - 1]))
  <2>1. v - a \in Nat /\ b - a \in Nat /\ b - a > 0 /\ v - a <= b - a /\ d \in Nat
    BY <1>3, <1>9
  <2>2. (v - a) * d \in Nat /\ (v - a) * d <= (b - a) * d /\ (b - a) * d \in Nat
    <3> HIDE DEF a, b, d
    <3>1. (v - a) * d <= (b - a) * d
      BY <2>1, TimesMonotone
    <3>2. (v - a) * d \in Nat /\ (b - a) * d \in Nat
      BY <2>1
    <3> QED
      BY <3>1, <3>2
  <2>3. q \in Nat
    BY <2>1, <2>2, DivFacts
  <2>4. (b - a) * d < (d + 1) * (b - a)
    <3> HIDE DEF a, b, d
    <3>1. (d + 1) * (b - a) = (b - a) * d + (b - a)
      BY <2>1
    <3> QED
      BY <2>1, <2>2, <3>1
  <2>5. (v - a) * d < (d + 1) * (b - a) /\ d + 1 \in Nat /\ (d + 1) * (b - a) \in Int
    <3> HIDE DEF a, b, d
    <3> QED
      BY <2>1, <2>2, <2>4
  <2>6. q < d + 1
    <3> HIDE DEF a, b, d
    <3> QED
      BY <2>1, <2>2, <2>5, DivBelow DEF q
  <2>7. wait = AtMost(AtLeast(q - (t - Ends(s)[i - 1]), 0), DefaultSleep)
    BY <1>8, <1>9 DEF TargetWait
  <2>8. q <= d
    BY <2>1, <2>3, <2>6
  <2> HIDE DEF q
  <2> QED
    BY <1>1, <1>3, <2>3, <2>7, <2>8 DEF AtMost, AtLeast
<1> HIDE DEF q
<1>10. wait \in Int
  BY <1>1, <1>3, <1>6, <1>7, <1>9 DEF AtMost
<1>11. u \in Nat /\ u > t /\ u < t + wait /\ wait > 0
  <2>1. CASE wait >= Ms
    BY <1>1, <1>10, <1>u, <2>1 DEF AtLeast
  <2>2. CASE ~(wait >= Ms)
    BY <1>1, <1>10, <1>u, <2>2 DEF AtLeast
  <2> QED
    BY <2>1, <2>2
<1>12. /\ Ends(s)[i - 1] <= t /\ t < Ends(s)[i] /\ u < Ends(s)[i]
       /\ ~(b <= a \/ v > b) => ~(v <= a)
  <2>1. Ends(s)[i - 1] <= t
    BY <1>2 DEF InStage
  <2>2. CASE b <= a \/ v > b
    BY <1>1, <1>3, <1>6, <1>11, <2>1, <2>2 DEF AtMost
  <2>3. CASE ~(b <= a \/ v > b)
    BY <1>3, <1>7, <1>9, <1>11, <2>1, <2>3
  <2> QED
    BY <2>2, <2>3
<1>13. j = i /\ InStage(s, u, i)
  <2>1. j = i
    <3>1. Ends(s)[i - 1] < u /\ u \in Nat
      BY <1>3, <1>11, <1>12
    <3> QED
      BY <1>2, <1>12, <3>1, SearchWithin
  <2> QED
    BY <1>2, <1>3, <1>11, <1>12, <2>1 DEF InStage
<1>14. TargetAt(s, u, j) = Interpolate(s, u, i) /\ TargetAt(s, t, i) = Interpolate(s, t, i)
  BY <1>11, <1>12, <1>13, TargetInterpolates
<1>15. Interpolate(s, u, i) \in Nat
  BY <1>13, InterpolateBetween
<1>16. CASE b <= a
  BY <1>2, <1>4, <1>11, <1>13, <1>14, <1>15, <1>16, InterpolateFalls
<1>17. CASE a < b /\ v > b
  <2>1. Interpolate(s, u, i) <= b
    BY <1>3, <1>13, <1>17, InterpolateBetween
  <2> QED
    BY <1>3, <1>14, <1>15, <1>17, <2>1
<1>18. CASE a < b /\ ~(v > b)
  <2>1. a < v /\ q \in Nat /\ wait <= q - (t - Ends(s)[i - 1])
    BY <1>3, <1>9, <1>11, <1>12, <1>18
  <2>2. u - Ends(s)[i - 1] < q
    BY <1>3, <1>10, <1>11, <2>1
  <2> QED
    BY <1>13, <1>14, <1>18, <2>1, <2>2, InterpolateRises DEF q
<1> QED
  BY <1>3, <1>16, <1>17, <1>18

-----------------------------------------------------------------------------
(* What scenarios_from_options works out from the stages. *)

LEMMA TotalIsTotal ==
    ASSUME NEW s \in Schedules
    PROVE  StagesTotal(s.stages) = TotalDuration(s) /\ TotalDuration(s) \in Nat
<1>1. StagesTotal(s.stages) = TotalDuration(s)
  BY DEF StagesTotal, TotalDuration, Ends
<1>2. TotalDuration(s) \in Nat
  BY EndsFacts DEF TotalDuration
<1> QED
  BY <1>1, <1>2

LEMMA MaxExists ==
    ASSUME NEW stages \in StageLists, NEW start \in Nat
    PROVE  \E m \in Nat : /\ m = start \/ \E i \in 1..Len(stages) : m = stages[i].target
                          /\ start <= m
                          /\ \A i \in 1..Len(stages) : stages[i].target <= m
<1> DEFINE n == Len(stages)
           IsMax(m, k) == /\ m = start \/ \E i \in 1..n : m = stages[i].target
                          /\ start <= m
                          /\ \A i \in 1..n : i <= k => stages[i].target <= m
           S == {k \in Nat : \E m \in Nat : IsMax(m, k)}
<1>1. n \in Nat /\ \A i \in 1..n : stages[i].target \in Nat
  BY StageTypes
<1>2. 0 \in S
  <2>1. IsMax(start, 0)
    BY <1>1
  <2> QED
    BY <2>1
<1>3. ASSUME NEW k \in S PROVE k + 1 \in S
  <2>1. PICK m \in Nat : IsMax(m, k)
    OBVIOUS
  <2>2. k \in Nat /\ k + 1 \in Nat
    OBVIOUS
  <2>3. CASE k + 1 <= n /\ stages[k + 1].target > m
    <3>1. k + 1 \in 1..n
      BY <1>1, <2>2, <2>3
    <3>2. stages[k + 1].target \in Nat
      BY <1>1, <3>1
    <3>3. IsMax(stages[k + 1].target, k + 1)
      BY <1>1, <2>1, <2>2, <2>3, <3>1, <3>2
    <3> QED
      BY <2>2, <3>2, <3>3
  <2>4. CASE ~(k + 1 <= n /\ stages[k + 1].target > m)
    <3>1. IsMax(m, k + 1)
      <4>1. ASSUME NEW i \in 1..n, i <= k + 1 PROVE stages[i].target <= m
        <5>1. CASE i <= k
          BY <2>1, <5>1
        <5>2. CASE i = k + 1
          BY <1>1, <2>2, <2>4, <5>2
        <5> QED
          BY <2>2, <4>1, <5>1, <5>2
      <4> QED
        BY <2>1, <4>1
    <3> QED
      BY <2>2, <3>1
  <2> QED
    BY <2>3, <2>4
<1>4. S = Nat
  <2>1. S \in SUBSET Nat
    OBVIOUS
  <2> HIDE DEF S
  <2> QED
    BY <1>2, <1>3, <2>1, Induction
<1>5. PICK m \in Nat : IsMax(m, n)
  BY <1>1, <1>4
<1> QED
  BY <1>1, <1>5

\* StagesMax is the largest of the start and the targets.
LEMMA MaxFacts ==
    ASSUME NEW s \in Schedules
    PROVE  /\ StagesMax(s.start, s.stages) \in Nat
           /\ s.start <= StagesMax(s.start, s.stages)
           /\ \A i \in 1..Len(s.stages) : s.stages[i].target <= StagesMax(s.start, s.stages)
<1> DEFINE targets == {s.start} \union {s.stages[i].target : i \in DOMAIN s.stages}
           IsMax(m) == \A n \in targets : n <= m
<1>1. s.stages \in StageLists /\ s.start \in Nat /\ DOMAIN s.stages = 1..Len(s.stages)
  BY DEF Schedules, StageLists
<1>2. \A n \in targets : n \in Nat
  BY <1>1, StageTypes
<1>3. PICK m \in Nat : /\ m = s.start \/ \E i \in 1..Len(s.stages) : m = s.stages[i].target
                       /\ s.start <= m
                       /\ \A i \in 1..Len(s.stages) : s.stages[i].target <= m
  BY <1>1, MaxExists
<1>4. m \in targets /\ IsMax(m)
  BY <1>1, <1>3
<1>5. StagesMax(s.start, s.stages) = CHOOSE k \in targets : IsMax(k)
  BY DEF StagesMax
<1>6. StagesMax(s.start, s.stages) \in targets /\ IsMax(StagesMax(s.start, s.stages))
  <2> HIDE DEF targets, IsMax
  <2> QED
    BY <1>4, <1>5
<1> QED
  BY <1>1, <1>2, <1>6

\* The schedule asks for no more VUs than are spawned for it.
LEMMA TargetAtMost ==
    ASSUME NEW s \in Schedules, NEW t \in 0..TotalDuration(s), NEW i \in StagesAt(s, t)
    PROVE  TargetAt(s, t, i) \in Nat /\ TargetAt(s, t, i) <= StagesMax(s.start, s.stages)
<1> DEFINE index == IF IsDone(s, t) THEN Len(s.stages) ELSE i
           top == StagesMax(s.start, s.stages)
           x == TargetAt(s, t, i)
<1>1. /\ InStage(s, t, index) /\ x \in Nat
      /\ \/ t = 0 /\ x = s.start
         \/ StartTarget(s, index) <= x /\ x <= s.stages[index].target
         \/ s.stages[index].target <= x /\ x <= StartTarget(s, index)
  BY TargetBetween
<1> HIDE DEF index, x
<1>2. index \in 1..Len(s.stages) /\ Len(s.stages) \in Nat
  BY <1>1, EndsFacts DEF InStage
<1>3. StartTarget(s, index) \in Nat /\ s.stages[index].target \in Nat
  BY <1>2, StageFacts
<1>4. top \in Nat /\ s.start <= top /\ s.stages[index].target <= top
  BY <1>2, MaxFacts
<1>5. StartTarget(s, index) <= top
  <2>1. CASE index = 1
    BY <1>4, <2>1 DEF StartTarget
  <2>2. CASE index # 1
    BY <1>2, <2>2, MaxFacts DEF StartTarget
  <2> QED
    BY <2>1, <2>2
<1>6. s.start \in Nat
  BY DEF Schedules
<1> QED
  BY <1>1, <1>3, <1>4, <1>5, <1>6 DEF x

\* The progress line's stage adds up.
LEMMA SnapshotFacts ==
    ASSUME NEW s \in Schedules, NEW t \in Nat, NEW i \in StagesAt(s, AtMost(t, TotalDuration(s)))
    PROVE  LET at == AtMost(t, TotalDuration(s))
               x  == SnapshotAt(s, t, i)
           IN /\ x.stage_elapsed >= 0 /\ x.stage_remaining >= 0
              /\ x.stage_elapsed + x.stage_remaining = s.stages[x.index].duration
              /\ Ends(s)[x.index - 1] + x.stage_elapsed = at
              /\ \/ at = 0 /\ x.current_target = s.start
                 \/ x.start_target <= x.current_target /\ x.current_target <= x.end_target
                 \/ x.end_target <= x.current_target /\ x.current_target <= x.start_target
<1> DEFINE at == AtMost(t, TotalDuration(s))
           index == IF IsDone(s, at) THEN Len(s.stages) ELSE i
           x == SnapshotAt(s, t, i)
<1>1. at \in 0..TotalDuration(s)
  BY TotalIsTotal DEF AtMost
<1>2. /\ InStage(s, at, index)
      /\ \/ at = 0 /\ TargetAt(s, at, i) = s.start
         \/ StartTarget(s, index) <= TargetAt(s, at, i) /\ TargetAt(s, at, i) <= s.stages[index].target
         \/ s.stages[index].target <= TargetAt(s, at, i) /\ TargetAt(s, at, i) <= StartTarget(s, index)
  BY <1>1, TargetBetween
<1>3. /\ x.index = index
      /\ x.stage_elapsed = at - Ends(s)[index - 1]
      /\ x.stage_remaining = s.stages[index].duration - (at - Ends(s)[index - 1])
      /\ x.start_target = StartTarget(s, index)
      /\ x.end_target = s.stages[index].target
      /\ x.current_target = TargetAt(s, at, i)
  BY DEF SnapshotAt
<1> HIDE DEF at, index, x
<1>4. /\ s.stages[index].duration \in Nat /\ at \in Nat /\ Ends(s)[index - 1] \in Nat
      /\ Ends(s)[index - 1] <= at /\ at <= Ends(s)[index - 1] + s.stages[index].duration
  BY <1>2, StageFacts DEF InStage
<1>5. /\ x.stage_elapsed >= 0 /\ x.stage_remaining >= 0
      /\ x.stage_elapsed + x.stage_remaining = s.stages[x.index].duration
      /\ Ends(s)[x.index - 1] + x.stage_elapsed = at
  BY <1>3, <1>4
<1> QED
  BY <1>2, <1>3, <1>5 DEF at, x

-----------------------------------------------------------------------------
(* Scenarios. *)

\* Collect has every result, or the first refusal.
LEMMA CollectFacts ==
    ASSUME NEW results, DOMAIN results \subseteq Nat, ~IsRefused(Collect(results))
    PROVE  /\ Collect(results).all = results
           /\ \A i \in DOMAIN results : ~IsRefused(results[i])
<1> DEFINE bad == {i \in DOMAIN results : IsRefused(results[i])}
<1>1. ASSUME bad # {} PROVE FALSE
  <2>1. PICK i \in bad : \A j \in bad : i <= j
    BY <1>1, LeastNumber
  <2>2. i \in DOMAIN results /\ IsRefused(results[i])
        /\ \A j \in DOMAIN results : IsRefused(results[j]) => i <= j
    BY <2>1
  <2>3. IsRefused(FirstRefused(results))
    BY <2>2 DEF FirstRefused
  <2>4. Collect(results) = FirstRefused(results)
    BY <2>2 DEF Collect
  <2> QED
    BY <2>3, <2>4
<1>2. \A i \in DOMAIN results : ~IsRefused(results[i])
  BY <1>1
<1>3. Collect(results) = [all |-> results]
  BY <1>2 DEF Collect
<1> QED
  BY <1>2, <1>3

LEMMA RefusedIsRefused == \A e : IsRefused(Refused(e))
BY DEF IsRefused, Refused

\* The fields of ScenarioOptions that hold numbers.
IsScenario(s) ==
    /\ {s.vus, s.iterations, s.duration, s.start_vus, s.start_rate, s.time_unit,
        s.pre_allocated_vus, s.max_vus} \subseteq Counts
    /\ s.stages \in StageLists

IsTop(o) == {o.vus, o.iterations, o.duration} \subseteq Counts

\* What a scenario is once it is accepted.
Accepted(r) ==
    /\ Ready(r) /\ r.iterations \in Counts /\ r.duration \in Counts
    /\ r.executor.kind \in {"constant", "ramping", "arrival"}
    /\ r.executor.kind = "ramping" => r.executor.start_vus \in Nat /\ r.executor.stages \in StageLists
    /\ r.executor.kind = "arrival" => r.executor.start_rate \in Nat /\ r.executor.stages \in StageLists

\* What a scenario consists of: nothing is left open, and each executor has its own fields.
Named(r) ==
    /\ r = [name |-> r.name, exec |-> r.exec, tags |-> r.tags, executor |-> r.executor,
            iterations |-> r.iterations, duration |-> r.duration]
    /\ r.exec # None

IsConstant(r) ==
    \E n \in Nat \ {0} : /\ r.executor = [kind |-> "constant", vus |-> n]
                         /\ r.iterations \in Counts \ {0} /\ r.duration \in Counts

Staged(r, stages) ==
    /\ stages \in StageLists /\ stages # <<>> /\ StagesTotal(stages) # 0
    /\ r.iterations = None /\ r.duration = StagesTotal(stages)

IsRamping(r) ==
    \E start \in Nat, stages \in StageLists :
        /\ r.executor = [kind |-> "ramping", start_vus |-> start, stages |-> stages]
        /\ StagesMax(start, stages) # 0
        /\ Staged(r, stages)

IsArrival(r) ==
    \E rate \in Nat, unit, pre, max \in Nat \ {0}, stages \in StageLists :
        /\ r.executor = [kind |-> "arrival", start_rate |-> rate, time_unit |-> unit,
                         pre_allocated_vus |-> pre, max_vus |-> max, stages |-> stages]
        /\ ~(max < pre)
        /\ Staged(r, stages)

Whole(r) == Named(r) /\ (IsConstant(r) \/ IsRamping(r) \/ IsArrival(r))

LEMMA ScenarioFields ==
    ASSUME NEW s, NEW executor, NEW its, NEW d
    PROVE  LET r == Scenario(s, executor, its, d) IN
           /\ Named(r) /\ r.name = s.name
           /\ r.executor = executor /\ r.iterations = its /\ r.duration = d
<1>1. Or(s.exec, "Default") # None
  BY InputsAssumption DEF Or
<1> QED
  BY <1>1 DEF Scenario, Named

LEMMA OrType == \A a, b \in Counts : Or(a, b) \in Counts /\ (b # None => Or(a, b) \in Nat)
                                     /\ (a # None => Or(a, b) = a)
BY GateAssumption DEF Or, Counts

LEMMA OrDefault == \A a \in Counts, b \in Nat : Or(a, b) \in Nat
BY DEF Or, Counts

LEMMA ConstantAccepted ==
    ASSUME NEW s, NEW opts, NEW cfg, IsScenario(s), IsTop(opts), IsTop(cfg),
           ~IsRefused(ConstantVus(s, opts, cfg))
    PROVE  LET r == ConstantVus(s, opts, cfg) IN
           /\ Accepted(r) /\ Whole(r) /\ r.name = s.name
           /\ cfg.vus # None => r.executor = [kind |-> "constant", vus |-> cfg.vus]
           /\ cfg.iterations # None => r.iterations = cfg.iterations
           /\ cfg.duration # None => r.duration = cfg.duration
<1> DEFINE n == Or(Or(Or(cfg.vus, s.vus), opts.vus), 1)
           its == Or(Or(cfg.iterations, s.iterations), opts.iterations)
           d == Or(Or(cfg.duration, s.duration), opts.duration)
           r == ConstantVus(s, opts, cfg)
<1>1. /\ {cfg.vus, s.vus, opts.vus, 1, cfg.iterations, s.iterations, opts.iterations} \subseteq Counts
      /\ {cfg.duration, s.duration, opts.duration} \subseteq Counts /\ 1 # None
  BY GateAssumption DEF IsScenario, IsTop, Counts
<1>2. n \in Nat /\ (cfg.vus # None => n = cfg.vus)
  BY <1>1, OrType
<1>3. its \in Counts /\ (cfg.iterations # None => its = cfg.iterations)
  BY <1>1, OrType
<1>4. d \in Counts /\ (cfg.duration # None => d = cfg.duration)
  BY <1>1, OrType
<1>5. n # 0 /\ its # 0 /\ r = Scenario(s, [kind |-> "constant", vus |-> n], its, d)
  <2>1. r = IF n = 0 THEN Refused("InvalidVus") ELSE IF its = 0 THEN Refused("InvalidIterations")
            ELSE Scenario(s, [kind |-> "constant", vus |-> n], its, d)
    BY DEF ConstantVus
  <2> HIDE DEF n, its, d, r
  <2>2. ~IsRefused(r)
    BY DEF r
  <2> QED
    BY <2>1, <2>2, RefusedIsRefused
<1> HIDE DEF n, its, d, r
<1>6. r.executor = [kind |-> "constant", vus |-> n] /\ r.iterations = its /\ r.duration = d
  BY <1>5 DEF Scenario
<1>7. Accepted(r)
  BY <1>2, <1>3, <1>4, <1>5, <1>6 DEF Accepted, Ready
<1>8. Whole(r) /\ r.name = s.name
  BY <1>2, <1>3, <1>4, <1>5, ScenarioFields DEF Whole, IsConstant
<1> QED
  BY <1>2, <1>3, <1>4, <1>6, <1>7, <1>8 DEF r

LEMMA ScheduleFields ==
    ASSUME NEW start \in Nat, NEW stages \in StageLists
    PROVE  /\ StagesTotal(stages) \in Nat /\ StagesMax(start, stages) \in Nat
           /\ [start |-> start, stages |-> stages] \in Schedules
<1> DEFINE s == [start |-> start, stages |-> stages]
<1>1. s \in Schedules /\ s.start = start /\ s.stages = stages
  BY DEF Schedules
<1> HIDE DEF s
<1>2. StagesTotal(s.stages) \in Nat /\ StagesMax(s.start, s.stages) \in Nat
  BY <1>1, TotalIsTotal, MaxFacts
<1> QED
  BY <1>1, <1>2 DEF s

LEMMA RampingAccepted ==
    ASSUME NEW s, NEW opts, IsScenario(s), ~IsRefused(RampingVusScenario(s, opts))
    PROVE  LET r == RampingVusScenario(s, opts) IN Accepted(r) /\ Whole(r) /\ r.name = s.name
<1> DEFINE start == Or(s.start_vus, 0)
           total == StagesTotal(s.stages)
           top == StagesMax(start, s.stages)
           r == RampingVusScenario(s, opts)
           executor == [kind |-> "ramping", start_vus |-> start, stages |-> s.stages]
<1>1. s.stages \in StageLists /\ start \in Nat
  BY OrDefault DEF IsScenario
<1>2. total \in Nat /\ top \in Nat
  BY <1>1, ScheduleFields
<1>3. r = IF s.iterations # None \/ opts.iterations # None THEN Refused("InvalidIterations")
          ELSE IF s.stages = <<>> THEN Refused("InvalidStages")
          ELSE IF top = 0 THEN Refused("InvalidVus")
          ELSE IF total = 0 THEN Refused("InvalidStages")
          ELSE Scenario(s, executor, None, total)
  BY DEF RampingVusScenario
<1>4. ~IsRefused(r)
  OBVIOUS
<1> HIDE DEF start, total, top, r
<1>5. s.stages # <<>> /\ top # 0 /\ total # 0 /\ r = Scenario(s, executor, None, total)
  BY <1>3, <1>4, RefusedIsRefused
<1>6. /\ r.executor = executor /\ r.iterations = None /\ r.duration = total
      /\ executor.kind = "ramping" /\ executor.start_vus = start /\ executor.stages = s.stages
  BY <1>5 DEF Scenario
<1> HIDE DEF executor
<1>7. r.executor.kind = "ramping" /\ r.executor.start_vus = start /\ r.executor.stages = s.stages
  BY <1>6
<1>8. StagesTotal(r.executor.stages) = total /\ StagesMax(r.executor.start_vus, r.executor.stages) = top
  BY <1>7 DEF total, top
<1>9. Ready(r)
  BY <1>2, <1>5, <1>6, <1>7, <1>8 DEF Ready
<1>10. Accepted(r)
  BY <1>1, <1>2, <1>6, <1>7, <1>9 DEF Accepted, Counts
<1>11. Named(r) /\ r.name = s.name
  BY <1>5, ScenarioFields
<1>12. Staged(r, s.stages)
  BY <1>1, <1>5, <1>6 DEF Staged, total
<1>13. IsRamping(r)
  BY <1>1, <1>5, <1>6, <1>12 DEF IsRamping, executor, top
<1> QED
  BY <1>10, <1>11, <1>13 DEF r, Whole

LEMMA ArrivalAccepted ==
    ASSUME NEW s, NEW opts, IsScenario(s), ~IsRefused(ArrivalScenario(s, opts, 1))
    PROVE  LET r == ArrivalScenario(s, opts, 1) IN Accepted(r) /\ Whole(r) /\ r.name = s.name
<1> DEFINE rate == Or(s.start_rate, 0)
           unit == Or(s.time_unit, 1)
           pre == Or(s.pre_allocated_vus, 1)
           max == Or(s.max_vus, pre)
           total == StagesTotal(s.stages)
           r == ArrivalScenario(s, opts, 1)
           executor == [kind |-> "arrival", start_rate |-> rate, time_unit |-> unit,
                        pre_allocated_vus |-> pre, max_vus |-> max, stages |-> s.stages]
<1>1. s.stages \in StageLists /\ rate \in Nat /\ unit \in Nat /\ pre \in Nat
  BY OrDefault DEF IsScenario
<1>2. max \in Nat
  <2> HIDE DEF pre
  <2> QED
    BY <1>1, OrDefault DEF IsScenario
<1>3. total \in Nat
  BY <1>1, ScheduleFields
<1>4. r = IF s.iterations # None \/ opts.iterations # None THEN Refused("InvalidIterations")
          ELSE IF s.stages = <<>> THEN Refused("InvalidStages")
          ELSE IF unit = 0 THEN Refused("InvalidTimeUnit")
          ELSE IF pre = 0 THEN Refused("InvalidPreAllocatedVus")
          ELSE IF max < pre THEN Refused("InvalidMaxVus")
          ELSE IF total = 0 THEN Refused("InvalidStages")
          ELSE Scenario(s, executor, None, total)
  BY DEF ArrivalScenario
<1>5. ~IsRefused(r)
  OBVIOUS
<1> HIDE DEF rate, unit, pre, max, total, r
<1>6. /\ s.stages # <<>> /\ unit # 0 /\ pre # 0 /\ ~(max < pre) /\ total # 0
      /\ r = Scenario(s, executor, None, total)
  BY <1>4, <1>5, RefusedIsRefused
<1>7. r.executor = executor /\ r.iterations = None /\ r.duration = total
  BY <1>6 DEF Scenario
<1>8. /\ r.executor.kind = "arrival" /\ r.executor.start_rate = rate /\ r.executor.time_unit = unit
      /\ r.executor.pre_allocated_vus = pre /\ r.executor.max_vus = max
      /\ r.executor.stages = s.stages
  BY <1>7
<1> HIDE DEF executor
<1>9. StagesTotal(r.executor.stages) = total
  BY <1>8 DEF total
<1>10. Ready(r)
  BY <1>1, <1>2, <1>3, <1>6, <1>8, <1>9 DEF Ready
<1>11. Accepted(r)
  BY <1>1, <1>3, <1>7, <1>8, <1>10 DEF Accepted, Counts
<1>12. Named(r) /\ r.name = s.name
  BY <1>6, ScenarioFields
<1>13. Staged(r, s.stages)
  BY <1>1, <1>6, <1>7 DEF Staged, total
<1>14. IsArrival(r)
  <2>1. unit \in Nat \ {0} /\ pre \in Nat \ {0} /\ max \in Nat \ {0}
    BY <1>1, <1>2, <1>6
  <2> QED
    BY <1>1, <1>6, <1>7, <1>13, <2>1 DEF IsArrival, executor
<1> QED
  BY <1>11, <1>12, <1>14 DEF r, Whole

\* The flags of the command line.
Obeys(r, cfg) ==
    /\ cfg.vus # None => r.executor = [kind |-> "constant", vus |-> cfg.vus]
    /\ cfg.iterations # None => r.iterations = cfg.iterations
    /\ cfg.duration # None => r.duration = cfg.duration

LEMMA DefaultAccepted ==
    ASSUME NEW opts, NEW cfg, IsTop(opts), IsTop(cfg), ~IsRefused(DefaultScenario(opts, cfg))
    PROVE  LET r == DefaultScenario(opts, cfg) IN
           Accepted(r) /\ Whole(r) /\ r.name # None /\ Obeys(r, cfg)
<1> DEFINE n == Or(Or(cfg.vus, opts.vus), 1)
           d == Or(cfg.duration, opts.duration)
           its == Or(Or(cfg.iterations, opts.iterations), IF d # None THEN None ELSE 1)
           s == [name |-> "Default", exec |-> "Default", tags |-> <<>>]
           r == DefaultScenario(opts, cfg)
<1>1. /\ {cfg.vus, opts.vus, 1, None, cfg.iterations, opts.iterations} \subseteq Counts
      /\ {cfg.duration, opts.duration} \subseteq Counts /\ 1 # None
  BY GateAssumption DEF IsTop, Counts
<1>2. n \in Nat /\ (cfg.vus # None => n = cfg.vus)
  BY <1>1, OrType
<1>3. its \in Counts /\ (cfg.iterations # None => its = cfg.iterations)
  BY <1>1, OrType
<1>4. d \in Counts /\ (cfg.duration # None => d = cfg.duration)
  BY <1>1, OrType
<1>5. r = IF n = 0 THEN Refused("InvalidVus") ELSE IF its = 0 THEN Refused("InvalidIterations")
          ELSE Scenario(s, [kind |-> "constant", vus |-> n], its, d)
  BY DEF DefaultScenario
<1>6. ~IsRefused(r)
  OBVIOUS
<1> HIDE DEF n, its, d, r, s
<1>7. n # 0 /\ its # 0 /\ r = Scenario(s, [kind |-> "constant", vus |-> n], its, d)
  BY <1>5, <1>6, RefusedIsRefused
<1>8. r.executor = [kind |-> "constant", vus |-> n] /\ r.iterations = its /\ r.duration = d
  BY <1>7 DEF Scenario
<1>9. Accepted(r) /\ Obeys(r, cfg)
  BY <1>2, <1>3, <1>4, <1>7, <1>8 DEF Accepted, Ready, Obeys
<1>10. Whole(r) /\ r.name = s.name
  BY <1>2, <1>3, <1>4, <1>7, ScenarioFields DEF Whole, IsConstant
<1>11. s.name # None
  BY InputsAssumption DEF s
<1> QED
  BY <1>9, <1>10, <1>11 DEF r

LEMMA ScenarioAccepted ==
    ASSUME NEW s, NEW opts, NEW cfg, IsScenario(s), IsTop(opts), IsTop(cfg),
           ~IsRefused(ResolveScenario(s, opts, cfg))
    PROVE  LET r == ResolveScenario(s, opts, cfg) IN
           Accepted(r) /\ Whole(r) /\ r.name = s.name /\ Obeys(r, cfg)
<1> DEFINE r == ResolveScenario(s, opts, cfg)
           flags == cfg.vus # None \/ cfg.iterations # None \/ cfg.duration # None
<1>1. \/ r = Refused("InvalidExecutor")
      \/ r = ConstantVus(s, opts, cfg)
      \/ ~flags /\ r = RampingVusScenario(s, opts)
      \/ ~flags /\ r = ArrivalScenario(s, opts, 1)
  BY DEF ResolveScenario
<1>2. ~IsRefused(r)
  OBVIOUS
<1>3. ~flags => Obeys(r, cfg)
  BY DEF Obeys
<1> HIDE DEF r
<1>4. CASE r = ConstantVus(s, opts, cfg)
  BY <1>2, <1>4, ConstantAccepted DEF Obeys, r
<1>5. CASE ~flags /\ r = RampingVusScenario(s, opts)
  BY <1>2, <1>3, <1>5, RampingAccepted DEF r
<1>6. CASE ~flags /\ r = ArrivalScenario(s, opts, 1)
  BY <1>2, <1>3, <1>6, ArrivalAccepted DEF r
<1> QED
  BY <1>1, <1>2, <1>4, <1>5, <1>6, RefusedIsRefused

-----------------------------------------------------------------------------
(* Parsing. *)

\* The types of ScriptOptions and ScenarioOptions.
IsOptions(o) ==
    /\ IsTop(o)
    /\ IsList(o.scenarios)
    /\ \A i \in DOMAIN o.scenarios : IsScenario(o.scenarios[i])

LEMMA ListFacts ==
    ASSUME NEW q, IsList(q)
    PROVE  Len(q) \in Nat /\ DOMAIN q = 1..Len(q) /\ q = [i \in 1..Len(q) |-> q[i]]
BY DEF IsList

LEMMA IsAList ==
    ASSUME NEW q, NEW n \in Nat, q = [i \in 1..n |-> q[i]]
    PROVE  IsList(q) /\ Len(q) = n
<1>1. DOMAIN q = 1..n
  OBVIOUS
<1>2. \A i \in 1..n : q[i] \in {q[j] : j \in DOMAIN q}
  BY <1>1
<1> DEFINE T == {q[j] : j \in DOMAIN q}
<1> HIDE DEF T
<1>3. q \in Seq(T) /\ Len(q) = n
  BY <1>2 DEF T
<1> QED
  BY <1>3 DEF IsList, T

LEMMA SomeFacts == \A x : Some(x).some = x /\ ~IsRefused(Some(x))
BY DEF Some, IsRefused

\* A field that is accepted holds a number, or is absent.
LEMMA CountType ==
    ASSUME NEW v, IsValue(v), NEW zero, NEW error, ~IsRefused(GetCount(v, zero, error))
    PROVE  GetCount(v, zero, error).some \in Counts
<1>1. \/ GetCount(v, zero, error) = Refused(error)
      \/ GetCount(v, zero, error) = Some(None)
      \/ GetCount(v, zero, error) = Some(v.v) /\ v.v \in Nat
  BY DEF GetCount, IsValue
<1> QED
  BY <1>1, RefusedIsRefused, SomeFacts DEF Counts

LEMMA DurationType ==
    ASSUME NEW v, IsValue(v), NEW error, ~IsRefused(GetDuration(v, error))
    PROVE  GetDuration(v, error).some \in Counts
<1>1. \/ GetDuration(v, error) = Refused(error)
      \/ GetDuration(v, error) = Some(None)
      \/ GetDuration(v, error) = Some(v.v) /\ v.v \in Nat
  BY DEF GetDuration, IsValue
<1> QED
  BY <1>1, RefusedIsRefused, SomeFacts DEF Counts

LEMMA YamlDefaultType ==
    ASSUME NEW v, IsValue(v), NEW default \in Counts, ~IsRefused(YamlDefault(v, default))
    PROVE  /\ YamlDefault(v, default).some \in Counts
           /\ default # None => YamlDefault(v, default).some \in Nat
<1>1. \/ YamlDuration(v) = Refused("Yaml")
      \/ YamlDuration(v) = Some(v.v) /\ v.v \in Nat
  BY DEF YamlDuration, IsValue
<1> QED
  BY <1>1, RefusedIsRefused, SomeFacts DEF Counts, YamlDefault

LEMMA SpelledType ==
    ASSUME NEW f, IsList(f), \A i \in DOMAIN f : IsValue(f[i])
    PROVE  IsValue(Spelled(f))
<1> DEFINE given == {i \in DOMAIN f : f[i].k # "nil"}
<1>1. Len(f) \in Nat /\ DOMAIN f = 1..Len(f)
  BY ListFacts
<1>2. CASE given = {}
  <2>1. Spelled(f) = Nil
    BY <1>2 DEF Spelled
  <2> QED
    BY <2>1 DEF Nil, IsValue
<1>3. CASE given # {}
  <2>1. given \in SUBSET Nat
    BY <1>1
  <2>2. PICK i \in given : \A j \in given : i <= j
    BY <1>3, <2>1, LeastNumber
  <2>3. i \in DOMAIN f /\ f[i].k # "nil" /\ \A j \in 1..(i - 1) : f[j].k = "nil"
    BY <1>1, <2>2
  <2>4. \E j \in DOMAIN f : Spelled(f) = f[j]
    BY <2>3 DEF Spelled
  <2> QED
    BY <2>4
<1> QED
  BY <1>2, <1>3

LEMMA StageType ==
    ASSUME NEW v, IsValue(v.duration), IsValue(v.target), ~IsRefused(GetStage(v))
    PROVE  GetStage(v).some \in [duration : Nat, target : Nat]
<1> DEFINE d == GetDuration(v.duration, "InvalidDuration")
           n == GetCount(v.target, TRUE, "InvalidStages")
           r == GetStage(v)
<1>1. (~IsRefused(d) => d.some \in Counts) /\ (~IsRefused(n) => n.some \in Counts)
  BY CountType, DurationType
<1>2. r = IF IsRefused(d) THEN d
          ELSE IF d.some = None THEN Refused("InvalidStages")
          ELSE IF IsRefused(n) THEN n
          ELSE IF n.some = None THEN Refused("InvalidStages")
          ELSE Some([duration |-> d.some, target |-> n.some])
  BY DEF GetStage
<1>3. ~IsRefused(r)
  OBVIOUS
<1> HIDE DEF d, n, r
<1>4. d.some \in Nat /\ n.some \in Nat /\ r = Some([duration |-> d.some, target |-> n.some])
  BY <1>1, <1>2, <1>3, RefusedIsRefused DEF Counts
<1>5. r.some = [duration |-> d.some, target |-> n.some]
  BY <1>4, SomeFacts
<1> QED
  BY <1>4, <1>5 DEF r

LEMMA StagesType ==
    ASSUME NEW v, IsStagesValue(v), ~IsRefused(GetStages(v))
    PROVE  GetStages(v).some \in StageLists
<1> DEFINE list == [i \in DOMAIN v.v |-> IF v.v[i].k = "table" THEN GetStage(v.v[i].v)
                                         ELSE Refused("InvalidStages")]
           all == Collect(list)
<1>1. CASE v.k = "nil"
  <2>1. GetStages(v) = Some(<<>>)
    BY <1>1 DEF GetStages
  <2>2. GetStages(v).some = <<>>
    BY <2>1, SomeFacts
  <2>3. <<>> \in StageLists
    BY DEF StageLists
  <2> QED
    BY <2>2, <2>3
<1>2. CASE v.k = "table"
  <2>1. GetStages(v) = IF IsRefused(all) THEN all ELSE Some([i \in DOMAIN v.v |-> all.all[i].some])
    BY <1>2 DEF GetStages
  <2>2. Len(v.v) \in Nat /\ DOMAIN v.v = 1..Len(v.v)
    BY <1>2, ListFacts DEF IsStagesValue
  <2>3. DOMAIN list = DOMAIN v.v /\ DOMAIN list \subseteq Nat
    BY <2>2
  <2>4. \A i \in DOMAIN v.v : list[i] = IF v.v[i].k = "table" THEN GetStage(v.v[i].v)
                                         ELSE Refused("InvalidStages")
    OBVIOUS
  <2> HIDE DEF list
  <2>5. ~IsRefused(all)
    BY <2>1
  <2>6. all.all = list /\ \A i \in DOMAIN list : ~IsRefused(list[i])
    BY <2>3, <2>5, CollectFacts
  <2>7. ASSUME NEW i \in DOMAIN v.v PROVE list[i].some \in [duration : Nat, target : Nat]
    <3>1. ~IsRefused(list[i])
      BY <2>3, <2>6
    <3>2. v.v[i].k = "table" /\ list[i] = GetStage(v.v[i].v)
      BY <2>4, <3>1, RefusedIsRefused
    <3> QED
      BY <1>2, <3>1, <3>2, StageType DEF IsStagesValue
  <2>8. GetStages(v).some = [i \in 1..Len(v.v) |-> list[i].some]
    BY <2>1, <2>2, <2>5, <2>6, SomeFacts
  <2> QED
    BY <2>2, <2>7, <2>8 DEF StageLists
<1>3. CASE v.k # "nil" /\ v.k # "table"
  BY <1>3, RefusedIsRefused DEF GetStages
<1> QED
  BY <1>1, <1>2, <1>3

LEMMA ScenarioType ==
    ASSUME NEW name, NEW t, IsScenarioTable(t), ~IsRefused(ParseScenario(name, t))
    PROVE  IsScenario(ParseScenario(name, t).some) /\ ParseScenario(name, t).some.name = name
<1> DEFINE fields == <<GetTags(t.tags),
                       GetExecutor(t.executor),
                       GetCount(t.vus, FALSE, "InvalidVus"),
                       GetCount(t.iterations, FALSE, "InvalidIterations"),
                       GetDuration(t.duration, "InvalidDuration"),
                       GetCount(Spelled(t.start_vus), TRUE, "InvalidStages"),
                       GetCount(Spelled(t.start_rate), TRUE, "InvalidStages"),
                       GetDuration(Spelled(t.time_unit), "InvalidTimeUnit"),
                       GetCount(Spelled(t.pre_allocated_vus), FALSE, "InvalidStages"),
                       GetCount(Spelled(t.max_vus), FALSE, "InvalidStages"),
                       GetStages(t.stages)>>
           all == Collect(fields)
           s == ParseScenario(name, t).some
<1>1. IsValue(t.vus) /\ IsValue(t.iterations) /\ IsValue(t.duration) /\ IsStagesValue(t.stages)
      /\ IsValue(Spelled(t.start_vus)) /\ IsValue(Spelled(t.start_rate))
      /\ IsValue(Spelled(t.time_unit)) /\ IsValue(Spelled(t.pre_allocated_vus))
      /\ IsValue(Spelled(t.max_vus))
  BY SpelledType DEF IsScenarioTable
<1>2. DOMAIN fields = 1..11
  OBVIOUS
<1>3. /\ fields[3] = GetCount(t.vus, FALSE, "InvalidVus")
      /\ fields[4] = GetCount(t.iterations, FALSE, "InvalidIterations")
      /\ fields[5] = GetDuration(t.duration, "InvalidDuration")
      /\ fields[6] = GetCount(Spelled(t.start_vus), TRUE, "InvalidStages")
      /\ fields[7] = GetCount(Spelled(t.start_rate), TRUE, "InvalidStages")
      /\ fields[8] = GetDuration(Spelled(t.time_unit), "InvalidTimeUnit")
      /\ fields[9] = GetCount(Spelled(t.pre_allocated_vus), FALSE, "InvalidStages")
      /\ fields[10] = GetCount(Spelled(t.max_vus), FALSE, "InvalidStages")
      /\ fields[11] = GetStages(t.stages)
  OBVIOUS
<1>4. ~IsRefused(all)
  BY DEF ParseScenario
<1>5. /\ s.name = name /\ s.vus = fields[3].some /\ s.iterations = fields[4].some
      /\ s.duration = fields[5].some /\ s.start_vus = fields[6].some
      /\ s.start_rate = fields[7].some /\ s.time_unit = fields[8].some
      /\ s.pre_allocated_vus = fields[9].some /\ s.max_vus = fields[10].some
      /\ s.stages = fields[11].some
  BY <1>4 DEF ParseScenario, Some
<1> HIDE DEF fields, s
<1>6. \A i \in 1..11 : ~IsRefused(fields[i])
  <2>1. DOMAIN fields \subseteq Nat
    BY <1>2
  <2> QED
    BY <1>2, <1>4, <2>1, CollectFacts
<1>7. \A i \in 3..10 : fields[i].some \in Counts
  <2>1. /\ ~IsRefused(fields[3]) /\ ~IsRefused(fields[4]) /\ ~IsRefused(fields[5])
        /\ ~IsRefused(fields[6]) /\ ~IsRefused(fields[7]) /\ ~IsRefused(fields[8])
        /\ ~IsRefused(fields[9]) /\ ~IsRefused(fields[10])
    BY <1>6
  <2>3. fields[3].some \in Counts /\ fields[4].some \in Counts /\ fields[5].some \in Counts
    BY <1>1, <1>3, <2>1, CountType, DurationType
  <2>4. fields[6].some \in Counts /\ fields[7].some \in Counts /\ fields[8].some \in Counts
    BY <1>1, <1>3, <2>1, CountType, DurationType
  <2>5. fields[9].some \in Counts /\ fields[10].some \in Counts
    BY <1>1, <1>3, <2>1, CountType, DurationType
  <2> QED
    BY <2>3, <2>4, <2>5
<1>8. fields[11].some \in StageLists
  BY <1>1, <1>3, <1>6, StagesType
<1>9. IsScenario(s) /\ s.name = name
  BY <1>5, <1>7, <1>8 DEF IsScenario
<1> QED
  BY <1>9 DEF s

\* One entry more.
Keep(entries, kept, i) ==
    IF i = 0 THEN <<>>
    ELSE IF entries[i].value.k = "table" THEN Append(kept[i - 1], entries[i])
    ELSE kept[i - 1]

LEMMA KeepExists ==
    ASSUME NEW entries, NEW n \in Nat
    PROVE  \E g : g = [i \in 0..n |-> Keep(entries, g, i)]
<1> DEFINE S == {k \in Nat : \E g : g = [i \in 0..k |-> Keep(entries, g, i)]}
<1>1. 0 \in S
  <2>1. [i \in 0..0 |-> <<>>] = [i \in 0..0 |-> Keep(entries, [j \in 0..0 |-> <<>>], i)]
    BY DEF Keep
  <2> QED
    BY <2>1
<1>2. ASSUME NEW k \in S PROVE k + 1 \in S
  <2>1. PICK g : g = [i \in 0..k |-> Keep(entries, g, i)]
    OBVIOUS
  <2> DEFINE h == [i \in 0..k + 1 |-> IF i <= k THEN g[i] ELSE Keep(entries, g, i)]
  <2>2. ASSUME NEW i \in 0..k + 1 PROVE h[i] = Keep(entries, h, i)
    <3>1. h[i] = Keep(entries, g, i)
      BY <2>1
    <3>2. i = 0 \/ h[i - 1] = g[i - 1]
      OBVIOUS
    <3> HIDE DEF h
    <3> QED
      BY <3>1, <3>2 DEF Keep
  <2>3. h = [i \in 0..k + 1 |-> h[i]]
    OBVIOUS
  <2> HIDE DEF h
  <2>4. h = [i \in 0..k + 1 |-> Keep(entries, h, i)]
    BY <2>2, <2>3
  <2>5. k + 1 \in Nat
    OBVIOUS
  <2> QED
    BY <2>4, <2>5
<1>3. S \in SUBSET Nat
  OBVIOUS
<1>4. S = Nat
  <2> HIDE DEF S
  <2> QED
    BY <1>1, <1>2, <1>3, Induction
<1> QED
  BY <1>4

\* What is kept are entries, and tables.
LEMMA TablesFacts ==
    ASSUME NEW entries, IsList(entries)
    PROVE  Tables(entries) \in Seq({e \in {entries[i] : i \in DOMAIN entries} : e.value.k = "table"})
<1> DEFINE n == Len(entries)
           T == {e \in {entries[i] : i \in DOMAIN entries} : e.value.k = "table"}
<1>1. n \in Nat /\ DOMAIN entries = 1..n
  BY ListFacts
<1>2. \E g : g = [i \in 0..n |-> Keep(entries, g, i)]
  BY <1>1, KeepExists
<1> DEFINE kept == CHOOSE g : g = [i \in 0..n |-> Keep(entries, g, i)]
<1>3. kept = [i \in 0..n |-> Keep(entries, kept, i)]
  BY <1>2
<1>4. Tables(entries) = kept[n]
  BY DEF Tables, Keep
<1> HIDE DEF kept
<1> DEFINE S == {k \in Nat : k <= n => kept[k] \in Seq(T)}
<1>5. 0 \in S
  BY <1>1, <1>3 DEF Keep
<1>6. ASSUME NEW k \in S PROVE k + 1 \in S
  <2>1. k \in Nat /\ k + 1 \in Nat
    OBVIOUS
  <2>2. ASSUME k + 1 <= n PROVE kept[k + 1] \in Seq(T)
    <3>1. k + 1 \in 0..n /\ k + 1 \in DOMAIN entries /\ k + 1 # 0 /\ (k + 1) - 1 = k /\ k <= n
      BY <1>1, <2>1, <2>2
    <3>2. kept[k] \in Seq(T)
      BY <3>1
    <3>3. kept[k + 1] = Keep(entries, kept, k + 1)
      BY <1>3, <3>1
    <3>4. CASE entries[k + 1].value.k = "table"
      <4>1. entries[k + 1] \in T
        BY <3>1, <3>4
      <4>2. kept[k + 1] = Append(kept[k], entries[k + 1])
        BY <3>1, <3>3, <3>4 DEF Keep
      <4> HIDE DEF T
      <4> QED
        BY <3>2, <4>1, <4>2
    <3>5. CASE entries[k + 1].value.k # "table"
      <4>1. kept[k + 1] = kept[k]
        BY <3>1, <3>3, <3>5 DEF Keep
      <4> QED
        BY <3>2, <4>1
    <3> QED
      BY <3>4, <3>5
  <2> QED
    BY <2>1, <2>2
<1>7. S = Nat
  <2>1. S \in SUBSET Nat
    OBVIOUS
  <2> HIDE DEF S
  <2> QED
    BY <1>5, <1>6, <2>1, Induction
<1>8. n \in S
  BY <1>1, <1>7
<1> QED
  BY <1>1, <1>4, <1>8

\* Thresholds have a selector and at least one expression.
AreThresholds(sets) ==
    /\ Len(sets) \in Nat /\ DOMAIN sets = 1..Len(sets)
    /\ \A i \in DOMAIN sets :
         /\ sets[i] = [metric |-> sets[i].metric, tags |-> sets[i].tags,
                       expressions |-> sets[i].expressions]
         /\ sets[i].expressions # <<>>

AllNamed(o) == \A i \in DOMAIN o.scenarios : o.scenarios[i].name # None

LEMMA ThresholdType ==
    ASSUME NEW t, IsList(t.exprs), ~IsRefused(GetThreshold(t))
    PROVE  LET x == GetThreshold(t).some IN
           /\ x = [metric |-> x.metric, tags |-> x.tags, expressions |-> x.expressions]
           /\ x.expressions # <<>>
<1> DEFINE list == [i \in DOMAIN t.exprs |-> t.exprs[i].v]
           x == GetThreshold(t).some
<1>1. t.exprs # <<>>
      /\ GetThreshold(t) = Some([metric |-> t.key.metric, tags |-> t.key.tags, expressions |-> list])
  BY RefusedIsRefused DEF GetThreshold
<1>2. x = [metric |-> t.key.metric, tags |-> t.key.tags, expressions |-> list]
  BY <1>1, SomeFacts
<1>3. list # <<>>
  <2>1. DOMAIN t.exprs = 1..Len(t.exprs) /\ Len(t.exprs) \in Nat
    BY ListFacts
  <2>2. Len(t.exprs) # 0
    BY <1>1 DEF IsList
  <2>3. 1 \in DOMAIN list
    BY <2>1, <2>2
  <2> QED
    BY <2>3
<1> HIDE DEF list, x
<1>4. x.metric = t.key.metric /\ x.tags = t.key.tags /\ x.expressions = list
  BY <1>2
<1> QED
  BY <1>2, <1>3, <1>4 DEF x

LEMMA ScriptType ==
    ASSUME NEW d, IsScript(d), ~IsRefused(ParseScript(d))
    PROVE  /\ IsOptions(ParseScript(d)) /\ AllNamed(ParseScript(d))
           /\ AreThresholds(ParseScript(d).thresholds)
<1> DEFINE tops == <<GetCount(d.vus, FALSE, "InvalidVus"),
                     GetCount(d.iterations, FALSE, "InvalidIterations"),
                     GetDuration(d.duration, "InvalidDuration")>>
           sets == [i \in DOMAIN d.thresholds |-> GetThreshold(d.thresholds[i])]
           tables == Tables(d.scenarios)
           list == [i \in DOMAIN tables |-> ParseScenario(tables[i].name, tables[i].value.v)]
           o == ParseScript(d)
<1>1. o = IF IsRefused(Collect(tops)) THEN Collect(tops)
          ELSE IF IsRefused(Collect(sets)) THEN Collect(sets)
          ELSE IF IsRefused(Collect(list)) THEN Collect(list)
          ELSE [vus |-> Collect(tops).all[1].some, iterations |-> Collect(tops).all[2].some,
                duration |-> Collect(tops).all[3].some,
                thresholds |-> [i \in DOMAIN d.thresholds |-> Collect(sets).all[i].some],
                scenarios |-> [i \in DOMAIN tables |-> Collect(list).all[i].some]]
  BY DEF ParseScript
<1>2. ~IsRefused(o)
  OBVIOUS
<1>3. DOMAIN tops = 1..3 /\ tops[1] = GetCount(d.vus, FALSE, "InvalidVus")
      /\ tops[2] = GetCount(d.iterations, FALSE, "InvalidIterations")
      /\ tops[3] = GetDuration(d.duration, "InvalidDuration")
  OBVIOUS
<1>4. Len(d.thresholds) \in Nat /\ DOMAIN d.thresholds = 1..Len(d.thresholds)
      /\ DOMAIN sets = DOMAIN d.thresholds
      /\ \A i \in DOMAIN d.thresholds : sets[i] = GetThreshold(d.thresholds[i])
  BY ListFacts DEF IsScript
<1>5. tables \in Seq({e \in {d.scenarios[i] : i \in DOMAIN d.scenarios} : e.value.k = "table"})
  BY TablesFacts DEF IsScript
<1>6. Len(tables) \in Nat /\ DOMAIN tables = 1..Len(tables) /\ DOMAIN list = DOMAIN tables
      /\ \A i \in DOMAIN tables : list[i] = ParseScenario(tables[i].name, tables[i].value.v)
  <2>1. DOMAIN list = DOMAIN tables
        /\ \A i \in DOMAIN tables : list[i] = ParseScenario(tables[i].name, tables[i].value.v)
    OBVIOUS
  <2> HIDE DEF tables, list
  <2> QED
    BY <1>5, <2>1
<1>7. \A i \in 1..Len(tables) : IsScenarioTable(tables[i].value.v) /\ tables[i].name # None
  <2> SUFFICES ASSUME NEW i \in 1..Len(tables)
               PROVE  IsScenarioTable(tables[i].value.v) /\ tables[i].name # None
    OBVIOUS
  <2> HIDE DEF tables
  <2>1. tables[i] \in {e \in {d.scenarios[j] : j \in DOMAIN d.scenarios} : e.value.k = "table"}
    BY <1>5, MemberOf
  <2>2. PICK j \in DOMAIN d.scenarios : tables[i] = d.scenarios[j] /\ tables[i].value.k = "table"
    BY <2>1
  <2> QED
    BY <2>2 DEF IsScript
<1> HIDE DEF tops, sets, tables, list, o
<1>8. /\ ~IsRefused(Collect(tops)) /\ ~IsRefused(Collect(sets)) /\ ~IsRefused(Collect(list))
      /\ o.vus = Collect(tops).all[1].some /\ o.iterations = Collect(tops).all[2].some
      /\ o.duration = Collect(tops).all[3].some
      /\ o.thresholds = [i \in DOMAIN d.thresholds |-> Collect(sets).all[i].some]
      /\ o.scenarios = [i \in DOMAIN tables |-> Collect(list).all[i].some]
  BY <1>1, <1>2
<1>9. IsTop(o)
  <2>1. DOMAIN tops \subseteq Nat
    BY <1>3
  <2>2. Collect(tops).all = tops /\ \A i \in 1..3 : ~IsRefused(tops[i])
    BY <1>3, <1>8, <2>1, CollectFacts
  <2>3. ~IsRefused(tops[1]) /\ ~IsRefused(tops[2]) /\ ~IsRefused(tops[3])
    BY <2>2
  <2>4. tops[1].some \in Counts /\ tops[2].some \in Counts /\ tops[3].some \in Counts
    BY <1>3, <2>3, CountType, DurationType DEF IsScript
  <2> QED
    BY <1>8, <2>2, <2>4 DEF IsTop
<1>10. AreThresholds(o.thresholds)
  <2>1. DOMAIN sets \subseteq Nat
    BY <1>4
  <2>2. Collect(sets).all = sets /\ \A i \in DOMAIN sets : ~IsRefused(sets[i])
    BY <1>8, <2>1, CollectFacts
  <2>3. o.thresholds = [i \in 1..Len(d.thresholds) |-> sets[i].some]
    BY <1>4, <1>8, <2>2
  <2>4. Len(o.thresholds) = Len(d.thresholds) /\ DOMAIN o.thresholds = 1..Len(d.thresholds)
        /\ \A i \in 1..Len(d.thresholds) : o.thresholds[i] = sets[i].some
    BY <1>4, <2>3
  <2>5. ASSUME NEW i \in 1..Len(d.thresholds)
        PROVE  /\ o.thresholds[i] = [metric |-> o.thresholds[i].metric, tags |-> o.thresholds[i].tags,
                                     expressions |-> o.thresholds[i].expressions]
               /\ o.thresholds[i].expressions # <<>>
    <3>1. IsList(d.thresholds[i].exprs) /\ ~IsRefused(GetThreshold(d.thresholds[i]))
          /\ o.thresholds[i] = GetThreshold(d.thresholds[i]).some
      BY <1>4, <2>2, <2>4 DEF IsScript
    <3> QED
      BY <3>1, ThresholdType
  <2> QED
    BY <1>4, <2>4, <2>5 DEF AreThresholds
<1>11. /\ DOMAIN o.scenarios = 1..Len(o.scenarios) /\ Len(o.scenarios) \in Nat
       /\ \A i \in DOMAIN o.scenarios : IsScenario(o.scenarios[i]) /\ o.scenarios[i].name # None
       /\ IsList(o.scenarios)
  <2>1. DOMAIN list \subseteq Nat
    BY <1>6
  <2>2. Collect(list).all = list /\ \A i \in DOMAIN list : ~IsRefused(list[i])
    BY <1>8, <2>1, CollectFacts
  <2>3. o.scenarios = [i \in 1..Len(tables) |-> list[i].some]
    BY <1>6, <1>8, <2>2
  <2>4. Len(o.scenarios) = Len(tables) /\ DOMAIN o.scenarios = 1..Len(tables)
        /\ \A i \in 1..Len(tables) : o.scenarios[i] = list[i].some
    BY <1>6, <2>3
  <2>5. ASSUME NEW i \in 1..Len(tables)
        PROVE  IsScenario(o.scenarios[i]) /\ o.scenarios[i].name # None
    <3>1. /\ ~IsRefused(ParseScenario(tables[i].name, tables[i].value.v))
          /\ o.scenarios[i] = ParseScenario(tables[i].name, tables[i].value.v).some
      BY <1>6, <2>2, <2>4
    <3> QED
      BY <1>7, <3>1, ScenarioType
  <2>6. IsList(o.scenarios)
    BY <1>6, <2>3, <2>4, IsAList
  <2> QED
    BY <1>6, <2>4, <2>5, <2>6
<1> QED
  BY <1>9, <1>10, <1>11 DEF IsOptions, AllNamed, o

\* The durations of a scenario in a YAML file, read.
ReadDuration(y) == YamlDefault(y.duration, None)
ReadUnit(y)     == YamlDefault(y.time_unit, None)
ReadStage(y, i) == YamlDefault(y.stages[i].duration, 0)

LEMMA JoinFacts ==
    ASSUME NEW a, NEW b, NEW n \in Nat, NEW f, f = [i \in 1..n |-> f[i]]
    PROVE  /\ DOMAIN (<<a, b>> \o f) = 1..(n + 2)
           /\ (<<a, b>> \o f)[1] = a /\ (<<a, b>> \o f)[2] = b
           /\ \A i \in 1..n : (<<a, b>> \o f)[i + 2] = f[i]
<1> DEFINE T == {a, b} \union {f[i] : i \in 1..n}
<1>1. <<a, b>> \in Seq(T) /\ Len(<<a, b>>) = 2 /\ <<a, b>>[1] = a /\ <<a, b>>[2] = b
  OBVIOUS
<1>2. f \in Seq(T) /\ Len(f) = n
  <2>1. \A i \in 1..n : f[i] \in T
    OBVIOUS
  <2> HIDE DEF T
  <2> QED
    BY <2>1
<1> HIDE DEF T
<1> QED
  BY <1>1, <1>2

LEMMA FromYamlForm ==
    ASSUME NEW y, IsList(y.stages), NEW name
    PROVE  /\ IsRefused(FromYaml(y, name)) <=>
                 \/ IsRefused(ReadDuration(y)) \/ IsRefused(ReadUnit(y))
                 \/ \E i \in DOMAIN y.stages : IsRefused(ReadStage(y, i))
           /\ ~IsRefused(FromYaml(y, name)) =>
                 FromYaml(y, name).some =
                    [y EXCEPT !.name = Or(y.name, name),
                              !.duration = ReadDuration(y).some,
                              !.time_unit = ReadUnit(y).some,
                              !.stages = [i \in DOMAIN y.stages |->
                                            [duration |-> ReadStage(y, i).some,
                                             target |-> y.stages[i].target]]]
<1> DEFINE n == Len(y.stages)
           f == [i \in DOMAIN y.stages |-> ReadStage(y, i)]
           list == <<ReadDuration(y), ReadUnit(y)>> \o f
           out == [y EXCEPT !.name = Or(y.name, name),
                            !.duration = Collect(list).all[1].some,
                            !.time_unit = Collect(list).all[2].some,
                            !.stages = [i \in DOMAIN y.stages |->
                                          [duration |-> Collect(list).all[i + 2].some,
                                           target |-> y.stages[i].target]]]
<1>1. FromYaml(y, name) = IF IsRefused(Collect(list)) THEN Collect(list) ELSE Some(out)
  BY DEF FromYaml, ReadDuration, ReadUnit, ReadStage
<1>2. n \in Nat /\ DOMAIN y.stages = 1..n
  BY ListFacts
<1>3. f = [i \in 1..n |-> f[i]] /\ \A i \in 1..n : f[i] = ReadStage(y, i)
  BY <1>2
<1> HIDE DEF f
<1>4. /\ DOMAIN list = 1..(n + 2) /\ list[1] = ReadDuration(y) /\ list[2] = ReadUnit(y)
      /\ \A i \in 1..n : list[i + 2] = ReadStage(y, i)
  <2>1. ASSUME NEW a, NEW b
        PROVE  /\ DOMAIN (<<a, b>> \o f) = 1..(n + 2)
               /\ (<<a, b>> \o f)[1] = a /\ (<<a, b>> \o f)[2] = b
               /\ \A i \in 1..n : (<<a, b>> \o f)[i + 2] = f[i]
    BY <1>2, <1>3, JoinFacts
  <2>2. /\ DOMAIN list = 1..(n + 2) /\ list[1] = ReadDuration(y) /\ list[2] = ReadUnit(y)
        /\ \A i \in 1..n : list[i + 2] = f[i]
    BY <2>1
  <2> HIDE DEF list, n
  <2> QED
    BY <1>3, <2>2
<1> HIDE DEF list, n
<1>5. DOMAIN list \subseteq Nat
  BY <1>2, <1>4
<1> DEFINE bad == \/ IsRefused(ReadDuration(y)) \/ IsRefused(ReadUnit(y))
                  \/ \E i \in 1..n : IsRefused(ReadStage(y, i))
<1>6. bad <=> \E i \in DOMAIN list : IsRefused(list[i])
  <2>1. ASSUME NEW i \in DOMAIN list PROVE i = 1 \/ i = 2 \/ (i - 2 \in 1..n /\ i = (i - 2) + 2)
    BY <1>2, <1>4
  <2>2. ASSUME NEW i \in 1..n PROVE i + 2 \in DOMAIN list
    BY <1>2, <1>4
  <2>3. 1 \in DOMAIN list /\ 2 \in DOMAIN list
    BY <1>2, <1>4
  <2>4. ASSUME bad PROVE \E i \in DOMAIN list : IsRefused(list[i])
    BY <1>4, <2>2, <2>3, <2>4
  <2>5. ASSUME NEW i \in DOMAIN list, IsRefused(list[i]) PROVE bad
    <3>1. CASE i = 1 \/ i = 2
      BY <1>4, <2>5, <3>1
    <3>2. CASE i - 2 \in 1..n /\ i = (i - 2) + 2
      <4>1. list[i] = ReadStage(y, i - 2)
        BY <1>4, <3>2
      <4> QED
        BY <2>5, <3>2, <4>1
    <3> QED
      BY <2>1, <3>1, <3>2
  <2> QED
    BY <2>4, <2>5
<1>7. IsRefused(Collect(list)) <=> bad
  <2>1. ASSUME ~IsRefused(Collect(list)) PROVE ~bad
    BY <1>5, <1>6, <2>1, CollectFacts
  <2>2. ASSUME ~bad PROVE ~IsRefused(Collect(list))
    <3>1. Collect(list) = [all |-> list]
      BY <1>6, <2>2 DEF Collect
    <3> QED
      BY <3>1 DEF IsRefused
  <2> QED
    BY <2>1, <2>2
<1>8. IsRefused(FromYaml(y, name)) <=> bad
  BY <1>1, <1>7, SomeFacts
<1>9. ASSUME ~bad PROVE FromYaml(y, name).some = out /\ Collect(list).all = list
  BY <1>1, <1>5, <1>7, <1>9, SomeFacts, CollectFacts
<1>10. ASSUME ~bad
       PROVE  FromYaml(y, name).some =
                    [y EXCEPT !.name = Or(y.name, name),
                              !.duration = ReadDuration(y).some,
                              !.time_unit = ReadUnit(y).some,
                              !.stages = [i \in 1..n |->
                                            [duration |-> ReadStage(y, i).some,
                                             target |-> y.stages[i].target]]]
  <2>1. [i \in DOMAIN y.stages |-> [duration |-> Collect(list).all[i + 2].some,
                                    target |-> y.stages[i].target]]
        = [i \in 1..n |-> [duration |-> ReadStage(y, i).some, target |-> y.stages[i].target]]
    BY <1>2, <1>4, <1>9, <1>10
  <2> QED
    BY <1>4, <1>9, <1>10, <2>1
<1> QED
  BY <1>2, <1>8, <1>10

LEMMA YamlScenarioType ==
    ASSUME NEW y, IsYamlScenario(y), NEW name, name # None, ~IsRefused(FromYaml(y, name))
    PROVE  IsScenario(FromYaml(y, name).some) /\ FromYaml(y, name).some.name # None
<1> DEFINE s == FromYaml(y, name).some
           stages == [i \in DOMAIN y.stages |-> [duration |-> ReadStage(y, i).some,
                                                 target |-> y.stages[i].target]]
<1>1. /\ s = [y EXCEPT !.name = Or(y.name, name), !.duration = ReadDuration(y).some,
                       !.time_unit = ReadUnit(y).some, !.stages = stages]
      /\ ~IsRefused(ReadDuration(y)) /\ ~IsRefused(ReadUnit(y))
      /\ \A i \in DOMAIN y.stages : ~IsRefused(ReadStage(y, i))
  BY FromYamlForm DEF IsYamlScenario
<1>2. None \in Counts /\ 0 \in Counts /\ 0 # None
  BY GateAssumption DEF Counts
<1>3. ReadDuration(y).some \in Counts /\ ReadUnit(y).some \in Counts
  BY <1>1, <1>2, YamlDefaultType DEF ReadDuration, ReadUnit, IsYamlScenario
<1>4. \A i \in DOMAIN y.stages : ReadStage(y, i).some \in Nat
  BY <1>1, <1>2, YamlDefaultType DEF ReadStage, IsYamlScenario
<1>5. stages \in StageLists
  <2>1. Len(y.stages) \in Nat /\ DOMAIN y.stages = 1..Len(y.stages)
    BY ListFacts DEF IsYamlScenario
  <2>2. \A i \in DOMAIN y.stages : y.stages[i].target \in Nat
    BY DEF IsYamlScenario
  <2> QED
    BY <1>4, <2>1, <2>2 DEF StageLists
<1> HIDE DEF s, stages
<1>6. /\ s.name = Or(y.name, name) /\ s.duration = ReadDuration(y).some
      /\ s.time_unit = ReadUnit(y).some /\ s.stages = stages
      /\ s.vus = y.vus /\ s.iterations = y.iterations /\ s.start_vus = y.start_vus
      /\ s.start_rate = y.start_rate /\ s.pre_allocated_vus = y.pre_allocated_vus
      /\ s.max_vus = y.max_vus
  BY <1>1 DEF IsYamlScenario
<1>7. s.name # None
  BY <1>6 DEF Or
<1>8. IsScenario(s)
  BY <1>3, <1>5, <1>6 DEF IsScenario, IsYamlScenario
<1> QED
  BY <1>7, <1>8 DEF s

\* The name of a scenario of a YAML file that has none.
DefaultName(n, file_stem, i) == IF n <= 1 THEN file_stem ELSE <<"scenario", i>>

LEMMA LoadYamlForm ==
    ASSUME NEW d, IsList(d.scenarios), NEW stem
    PROVE  LET n == Len(d.scenarios) IN
           /\ IsRefused(LoadYaml(d, stem)) <=>
                 \/ \E i \in 1..n : IsRefused(FromYaml(d.scenarios[i], DefaultName(n, stem, i)))
                 \/ \E key \in DOMAIN d.thresholds : d.thresholds[key] = <<>>
           /\ ~IsRefused(LoadYaml(d, stem)) =>
                 LoadYaml(d, stem) =
                    [vus |-> None, iterations |-> None, duration |-> None,
                     scenarios |-> [i \in 1..n |->
                                      FromYaml(d.scenarios[i], DefaultName(n, stem, i)).some],
                     thresholds |-> {[metric |-> key.metric, tags |-> key.tags,
                                      expressions |-> d.thresholds[key]] :
                                        key \in DOMAIN d.thresholds}]
<1> DEFINE n == Len(d.scenarios)
           list == [i \in 1..n |-> FromYaml(d.scenarios[i], DefaultName(n, stem, i))]
           sets == {[metric |-> key.metric, tags |-> key.tags, expressions |-> d.thresholds[key]] :
                       key \in DOMAIN d.thresholds}
           empty == \E key \in DOMAIN d.thresholds : d.thresholds[key] = <<>>
           bad == \E i \in 1..n : IsRefused(FromYaml(d.scenarios[i], DefaultName(n, stem, i)))
           out == [vus |-> None, iterations |-> None, duration |-> None,
                   scenarios |-> [i \in 1..n |-> Collect(list).all[i].some], thresholds |-> sets]
<1>1. LoadYaml(d, stem) = IF IsRefused(Collect(list)) THEN Collect(list)
                          ELSE IF empty THEN Refused("Yaml") ELSE out
  BY DEF LoadYaml, DefaultName
<1>2. n \in Nat
  BY ListFacts
<1>3. DOMAIN list = 1..n /\ DOMAIN list \subseteq Nat
      /\ \A i \in 1..n : list[i] = FromYaml(d.scenarios[i], DefaultName(n, stem, i))
  BY <1>2
<1>4. bad <=> \E i \in DOMAIN list : IsRefused(list[i])
  BY <1>3
<1> HIDE DEF list
<1>5. IsRefused(Collect(list)) <=> bad
  <2>1. ASSUME ~IsRefused(Collect(list)) PROVE ~bad
    BY <1>3, <1>4, <2>1, CollectFacts
  <2>2. ASSUME ~bad PROVE ~IsRefused(Collect(list))
    <3>1. Collect(list) = [all |-> list]
      BY <1>4, <2>2 DEF Collect
    <3> QED
      BY <3>1 DEF IsRefused
  <2> QED
    BY <2>1, <2>2
<1>6. ~IsRefused(out)
  BY DEF IsRefused
<1>7. IsRefused(LoadYaml(d, stem)) <=> bad \/ empty
  <2> HIDE DEF bad, empty, out
  <2> QED
    BY <1>1, <1>5, <1>6, RefusedIsRefused
<1>8. ASSUME ~bad, ~empty
      PROVE  LoadYaml(d, stem) =
                    [vus |-> None, iterations |-> None, duration |-> None,
                     scenarios |-> [i \in 1..n |->
                                      FromYaml(d.scenarios[i], DefaultName(n, stem, i)).some],
                     thresholds |-> sets]
  <2>1. Collect(list).all = list
    BY <1>3, <1>5, <1>8, CollectFacts
  <2>2. [i \in 1..n |-> Collect(list).all[i].some]
        = [i \in 1..n |-> FromYaml(d.scenarios[i], DefaultName(n, stem, i)).some]
    BY <1>3, <2>1
  <2>3. LoadYaml(d, stem) = out
    BY <1>1, <1>5, <1>8
  <2> QED
    BY <2>2, <2>3
<1> QED
  BY <1>7, <1>8

LEMMA LoadYamlType ==
    ASSUME NEW d, IsYaml(d), NEW stem, stem # None, \A i \in DOMAIN d.scenarios : <<"scenario", i>> # None,
           ~IsRefused(LoadYaml(d, stem))
    PROVE  IsOptions(LoadYaml(d, stem)) /\ AllNamed(LoadYaml(d, stem))
<1> DEFINE n == Len(d.scenarios)
           o == LoadYaml(d, stem)
           list == [i \in 1..n |-> FromYaml(d.scenarios[i], DefaultName(n, stem, i)).some]
<1>1. o.vus = None /\ o.iterations = None /\ o.duration = None /\ o.scenarios = list
  BY LoadYamlForm DEF IsYaml
<1>2. \A i \in 1..n : ~IsRefused(FromYaml(d.scenarios[i], DefaultName(n, stem, i)))
  BY LoadYamlForm DEF IsYaml
<1>3. n \in Nat /\ DOMAIN d.scenarios = 1..n
  BY ListFacts DEF IsYaml
<1>4. ASSUME NEW i \in 1..n PROVE IsScenario(list[i]) /\ list[i].name # None
  <2>1. DefaultName(n, stem, i) # None /\ IsYamlScenario(d.scenarios[i])
    BY <1>3 DEF DefaultName, IsYaml
  <2> QED
    BY <1>2, <2>1, YamlScenarioType
<1>5. Len(list) = n /\ DOMAIN list = 1..n /\ IsList(list)
  <2>1. list = [i \in 1..n |-> list[i]] /\ DOMAIN list = 1..n
    BY <1>3
  <2> HIDE DEF list
  <2> QED
    BY <1>3, <2>1, IsAList
<1>6. IsTop(o)
  BY <1>1 DEF IsTop, Counts
<1> HIDE DEF o, list
<1>7. IsOptions(o) /\ AllNamed(o)
  BY <1>1, <1>3, <1>4, <1>5, <1>6 DEF IsOptions, AllNamed
<1> QED
  BY <1>7 DEF o

\* What parsing lets through has the types of ScriptOptions.
LEMMA LoadType ==
    ASSUME NEW in \in Inputs, ~IsRefused(Load(in))
    PROVE  /\ IsOptions(Load(in)) /\ AllNamed(Load(in))
           /\ ~in.yaml => AreThresholds(Load(in).thresholds)
<1>1. CASE in.yaml
  <2>1. /\ IsYaml(in.doc) /\ "file" # None
        /\ Load(in) = LoadYaml(in.doc, "file")
    <3>1. IsYaml(in.doc)
      BY <1>1, InputsAssumption
    <3>2. "file" # None
      BY InputsAssumption
    <3>3. Load(in) = LoadYaml(in.doc, "file")
      BY <1>1 DEF Load
    <3> QED
      BY <3>1, <3>2, <3>3
  <2>2. \A i \in DOMAIN in.doc.scenarios : <<"scenario", i>> # None
    BY <2>1 DEF IsYaml
  <2> QED
    BY <1>1, <2>1, <2>2, LoadYamlType
<1>2. CASE ~in.yaml
  BY <1>2, InputsAssumption, ScriptType DEF Load
<1> QED
  BY <1>1, <1>2

\* Every scenario of an accepted input is ready to run, and as its flags say.
LEMMA ResolvedAccepted ==
    ASSUME NEW in \in Inputs, ~IsRefused(Resolved(in))
    PROVE  /\ IsList(Resolved(in).all) /\ Resolved(in).all # <<>>
           /\ \A i \in DOMAIN Resolved(in).all :
              /\ Accepted(Resolved(in).all[i]) /\ Obeys(Resolved(in).all[i], in.cli)
              /\ Whole(Resolved(in).all[i]) /\ Resolved(in).all[i].name # None
              /\ 1..ScenarioMaxVus(Resolved(in).all[i]) \subseteq Vus
<1> DEFINE opts == Load(in)
           list == IF opts.scenarios = <<>> THEN <<DefaultScenario(opts, in.cli)>>
                   ELSE [i \in DOMAIN opts.scenarios |->
                           ResolveScenario(opts.scenarios[i], opts, in.cli)]
<1>1. Resolved(in) = IF IsRefused(opts) THEN opts ELSE ScenariosFromOptions(opts, in.cli)
  BY DEF Resolved
<1>2. ~IsRefused(opts) /\ Resolved(in) = Collect(list)
  BY <1>1 DEF ScenariosFromOptions
<1>3. IsTop(in.cli) /\ IsOptions(opts) /\ AllNamed(opts)
      /\ \A i \in DOMAIN Resolved(in).all : 1..ScenarioMaxVus(Resolved(in).all[i]) \subseteq Vus
  BY <1>2, InputsAssumption, LoadType DEF IsTop
<1> HIDE DEF opts
<1>4. IsTop(opts) /\ DOMAIN opts.scenarios \subseteq Nat
      /\ \A i \in DOMAIN opts.scenarios : IsScenario(opts.scenarios[i])
  BY <1>3, ListFacts DEF IsOptions
<1>5. DOMAIN list \subseteq Nat
  BY <1>4
<1>6. \A i \in DOMAIN list : \/ list[i] = DefaultScenario(opts, in.cli)
                             \/ \E s : /\ IsScenario(s) /\ s.name # None
                                      /\ list[i] = ResolveScenario(s, opts, in.cli)
  BY <1>3, <1>4 DEF AllNamed
<1>7. IsList(list) /\ list # <<>>
  <2>1. CASE opts.scenarios = <<>>
    <3>1. list = <<DefaultScenario(opts, in.cli)>>
      BY <2>1
    <3> HIDE DEF list
    <3>2. list = [i \in 1..1 |-> list[i]]
      BY <3>1
    <3> QED
      BY <3>1, <3>2, IsAList
  <2>2. CASE opts.scenarios # <<>>
    <3> DEFINE n == Len(opts.scenarios)
    <3>1. n \in Nat /\ DOMAIN opts.scenarios = 1..n
      BY <1>3, ListFacts DEF IsOptions
    <3>2. n # 0
      BY <1>3, <2>2 DEF IsOptions, IsList
    <3>3. list = [i \in 1..n |-> list[i]]
      BY <2>2, <3>1
    <3> HIDE DEF list, n
    <3>4. 1 \in DOMAIN list
      BY <3>1, <3>2, <3>3
    <3> QED
      BY <3>1, <3>3, <3>4, IsAList
  <2> QED
    BY <2>1, <2>2
<1> HIDE DEF list
<1>8. Resolved(in).all = list /\ \A i \in DOMAIN list : ~IsRefused(list[i])
  BY <1>2, <1>5, CollectFacts
<1>9. ASSUME NEW i \in DOMAIN list
      PROVE  Accepted(list[i]) /\ Obeys(list[i], in.cli) /\ Whole(list[i]) /\ list[i].name # None
  <2>1. ~IsRefused(list[i])
    BY <1>8
  <2>2. CASE list[i] = DefaultScenario(opts, in.cli)
    BY <1>3, <1>4, <2>1, <2>2, DefaultAccepted
  <2>3. CASE \E s : /\ IsScenario(s) /\ s.name # None
                   /\ list[i] = ResolveScenario(s, opts, in.cli)
    BY <1>3, <1>4, <2>1, <2>3, ScenarioAccepted
  <2> QED
    BY <1>6, <2>2, <2>3
<1> QED
  BY <1>3, <1>8, <1>9, <1>7

-----------------------------------------------------------------------------
(* Export. *)

\* A scenario of a YAML file, field by field.
Yaml(r, executor, n, its, d, start_vus, stages, start_rate, unit, pre, max) ==
    [name |-> r.name, exec |-> r.exec, tags |-> r.tags, executor |-> executor,
     vus |-> n, iterations |-> its, duration |-> d, start_vus |-> start_vus,
     stages |-> stages, start_rate |-> start_rate, time_unit |-> unit,
     pre_allocated_vus |-> pre, max_vus |-> max]

Written(stages) ==
    [i \in DOMAIN stages |-> [duration |-> Span(stages[i].duration), target |-> stages[i].target]]

WrittenTime(d) == IF d = None THEN Nil ELSE Span(d)

LEMMA WrittenFacts ==
    /\ YamlDefault(Nil, None) = Some(None)
    /\ \A d, default : YamlDefault(Span(d), default) = Some(d)
    /\ \A d : YamlDefault(WrittenTime(d), None) = Some(d)
<1>1. Nil.k = "nil" /\ \A d : Span(d).k = "span" /\ Span(d).v = d
  BY DEF Nil, Span
<1>2. YamlDefault(Nil, None) = Some(None)
  BY <1>1 DEF YamlDefault
<1>3. \A d, default : YamlDefault(Span(d), default) = Some(d)
  BY <1>1 DEF YamlDefault, YamlDuration
<1> QED
  BY <1>2, <1>3 DEF WrittenTime

\* A scenario that was written reads as what was written.
LEMMA ReadBack ==
    ASSUME NEW r, NEW executor, NEW n, NEW its, NEW d, NEW start_vus,
           NEW stages \in StageLists, NEW start_rate, NEW unit, NEW pre, NEW max, NEW name,
           r.name # None
    PROVE  LET y == Yaml(r, executor, n, its, WrittenTime(d), start_vus, Written(stages),
                         start_rate, WrittenTime(unit), pre, max)
           IN /\ ~IsRefused(FromYaml(y, name))
              /\ FromYaml(y, name).some = Yaml(r, executor, n, its, d, start_vus, stages,
                                               start_rate, unit, pre, max)
<1> DEFINE y == Yaml(r, executor, n, its, WrittenTime(d), start_vus, Written(stages),
                     start_rate, WrittenTime(unit), pre, max)
<1>1. /\ y.name = r.name /\ y.duration = WrittenTime(d) /\ y.time_unit = WrittenTime(unit)
      /\ y.stages = Written(stages)
  BY DEF Yaml
<1>2. /\ Len(stages) \in Nat /\ DOMAIN stages = 1..Len(stages)
      /\ \A i \in DOMAIN stages : stages[i] = [duration |-> stages[i].duration,
                                               target |-> stages[i].target]
      /\ stages = [i \in DOMAIN stages |-> stages[i]]
  <2> DEFINE T == [duration : Nat, target : Nat]
  <2>1. \A x \in T : x = [duration |-> x.duration, target |-> x.target]
    OBVIOUS
  <2>2. stages \in Seq(T)
    BY DEF StageLists
  <2> HIDE DEF T
  <2> QED
    BY <2>1, <2>2
<1>3. IsList(Written(stages)) /\ DOMAIN Written(stages) = DOMAIN stages
  <2>1. Written(stages) = [i \in 1..Len(stages) |-> Written(stages)[i]]
        /\ DOMAIN Written(stages) = DOMAIN stages
    BY <1>2 DEF Written
  <2> QED
    BY <1>2, <2>1, IsAList
<1>4. ReadDuration(y) = Some(d) /\ ReadUnit(y) = Some(unit)
  BY <1>1, WrittenFacts DEF ReadDuration, ReadUnit
<1>5. \A i \in DOMAIN stages : /\ ReadStage(y, i) = Some(stages[i].duration)
                               /\ y.stages[i].target = stages[i].target
  BY <1>1, WrittenFacts DEF ReadStage, Written
<1> DEFINE back == [i \in DOMAIN y.stages |-> [duration |-> ReadStage(y, i).some,
                                               target |-> y.stages[i].target]]
<1>6. back = stages
  <2>1. \A i \in DOMAIN stages : [duration |-> ReadStage(y, i).some, target |-> y.stages[i].target]
                                 = stages[i]
    BY <1>2, <1>5, SomeFacts
  <2>2. back = [i \in DOMAIN stages |-> stages[i]]
    BY <1>1, <1>3, <2>1
  <2> QED
    BY <1>2, <2>2
<1> DEFINE out == [y EXCEPT !.name = Or(y.name, name), !.duration = ReadDuration(y).some,
                             !.time_unit = ReadUnit(y).some, !.stages = back]
<1>7. ~IsRefused(FromYaml(y, name)) /\ FromYaml(y, name).some = out
  <2> HIDE DEF y
  <2>1. IsList(y.stages) /\ DOMAIN y.stages = DOMAIN stages
    BY <1>1, <1>3
  <2>2. /\ ~IsRefused(ReadDuration(y)) /\ ~IsRefused(ReadUnit(y))
        /\ \A i \in DOMAIN y.stages : ~IsRefused(ReadStage(y, i))
    BY <1>4, <1>5, <2>1, SomeFacts
  <2>3. ~IsRefused(FromYaml(y, name))
    BY <2>1, <2>2, FromYamlForm
  <2> QED
    BY <2>1, <2>3, FromYamlForm
<1>8. FromYaml(y, name).some = [y EXCEPT !.name = Or(y.name, name), !.duration = d,
                                         !.time_unit = unit, !.stages = stages]
  <2> HIDE DEF y, back
  <2> QED
    BY <1>4, <1>6, <1>7, SomeFacts
<1>9. Or(y.name, name) = r.name
  BY <1>1 DEF Or
<1>10. [y EXCEPT !.name = r.name, !.duration = d, !.time_unit = unit, !.stages = stages]
       = Yaml(r, executor, n, its, d, start_vus, stages, start_rate, unit, pre, max)
  <2>1. y = Yaml(r, executor, n, its, WrittenTime(d), start_vus, Written(stages), start_rate,
                 WrittenTime(unit), pre, max)
    OBVIOUS
  <2> HIDE DEF y
  <2> DEFINE y1 == [y EXCEPT !.name = r.name]
             y2 == [y1 EXCEPT !.duration = d]
             y3 == [y2 EXCEPT !.time_unit = unit]
             y4 == [y3 EXCEPT !.stages = stages]
  <2>2. y4 = [y EXCEPT !.name = r.name, !.duration = d, !.time_unit = unit, !.stages = stages]
    OBVIOUS
  <2>3. y1 = y
    BY <2>1 DEF Yaml
  <2> HIDE DEF y1
  <2>4. y2 = Yaml(r, executor, n, its, d, start_vus, Written(stages), start_rate,
                  WrittenTime(unit), pre, max)
    BY <2>1, <2>3 DEF Yaml
  <2> HIDE DEF y2
  <2>5. y3 = Yaml(r, executor, n, its, d, start_vus, Written(stages), start_rate, unit, pre, max)
    BY <2>4 DEF Yaml
  <2> HIDE DEF y3
  <2>6. y4 = Yaml(r, executor, n, its, d, start_vus, stages, start_rate, unit, pre, max)
    BY <2>5 DEF Yaml
  <2> QED
    BY <2>2, <2>6
<1> HIDE DEF y
<1>11. /\ ~IsRefused(FromYaml(y, name))
       /\ FromYaml(y, name).some = Yaml(r, executor, n, its, d, start_vus, stages, start_rate,
                                        unit, pre, max)
  BY <1>7, <1>8, <1>9, <1>10
<1> QED
  BY <1>11 DEF y

\* What a scenario of each executor is written as.
LEMMA ConstantWritten ==
    ASSUME NEW r, NEW n, r.executor = [kind |-> "constant", vus |-> n]
    PROVE  ToYaml(r) = Yaml(r, "constant-vus", n, r.iterations, WrittenTime(r.duration), None,
                            <<>>, None, Nil, None, None)
<1>1. r.executor.kind = "constant" /\ r.executor.vus = n
  OBVIOUS
<1> DEFINE y == Yaml(r, "constant-vus", None, None, Nil, None, <<>>, None, Nil, None, None)
           y1 == [y EXCEPT !.vus = n]
           y2 == [y1 EXCEPT !.iterations = r.iterations]
           y3 == [y2 EXCEPT !.duration = WrittenTime(r.duration)]
<1>2. ToYaml(r) = y3
  BY <1>1 DEF ToYaml, Yaml, WrittenTime
<1>3. y1 = Yaml(r, "constant-vus", n, None, Nil, None, <<>>, None, Nil, None, None)
  BY DEF Yaml
<1> HIDE DEF y1
<1>4. y2 = Yaml(r, "constant-vus", n, r.iterations, Nil, None, <<>>, None, Nil, None, None)
  BY <1>3 DEF Yaml
<1> HIDE DEF y2
<1>5. y3 = Yaml(r, "constant-vus", n, r.iterations, WrittenTime(r.duration), None, <<>>, None,
                Nil, None, None)
  BY <1>4 DEF Yaml
<1> QED
  BY <1>2, <1>5

LEMMA RampingWritten ==
    ASSUME NEW r, NEW start, NEW stages,
           r.executor = [kind |-> "ramping", start_vus |-> start, stages |-> stages]
    PROVE  ToYaml(r) = Yaml(r, "ramping-vus", None, None, Nil, start, Written(stages), None, Nil,
                            None, None)
<1>1. r.executor.kind = "ramping" /\ r.executor.start_vus = start /\ r.executor.stages = stages
  OBVIOUS
<1> DEFINE y == Yaml(r, "constant-vus", None, None, Nil, None, <<>>, None, Nil, None, None)
           y1 == [y EXCEPT !.executor = "ramping-vus"]
           y2 == [y1 EXCEPT !.start_vus = start]
           y3 == [y2 EXCEPT !.stages = Written(stages)]
<1>2. ToYaml(r) = y3
  BY <1>1 DEF ToYaml, Yaml, Written
<1>3. y1 = Yaml(r, "ramping-vus", None, None, Nil, None, <<>>, None, Nil, None, None)
  BY DEF Yaml
<1> HIDE DEF y1
<1>4. y2 = Yaml(r, "ramping-vus", None, None, Nil, start, <<>>, None, Nil, None, None)
  BY <1>3 DEF Yaml
<1> HIDE DEF y2
<1>5. y3 = Yaml(r, "ramping-vus", None, None, Nil, start, Written(stages), None, Nil, None, None)
  BY <1>4 DEF Yaml
<1> QED
  BY <1>2, <1>5

LEMMA ArrivalWritten ==
    ASSUME NEW r, NEW rate, NEW unit, NEW pre, NEW max, NEW stages,
           r.executor = [kind |-> "arrival", start_rate |-> rate, time_unit |-> unit,
                         pre_allocated_vus |-> pre, max_vus |-> max, stages |-> stages]
    PROVE  ToYaml(r) = Yaml(r, "ramping-arrival-rate", None, None, Nil, None, Written(stages),
                            rate, Span(unit), pre, max)
<1>1. /\ r.executor.kind = "arrival" /\ r.executor.start_rate = rate
      /\ r.executor.time_unit = unit /\ r.executor.pre_allocated_vus = pre
      /\ r.executor.max_vus = max /\ r.executor.stages = stages
  OBVIOUS
<1> DEFINE name == "ramping-arrival-rate"
           y == Yaml(r, "constant-vus", None, None, Nil, None, <<>>, None, Nil, None, None)
           y1 == [y EXCEPT !.executor = name]
           y2 == [y1 EXCEPT !.start_rate = rate]
           y3 == [y2 EXCEPT !.time_unit = Span(unit)]
           y4 == [y3 EXCEPT !.pre_allocated_vus = pre]
           y5 == [y4 EXCEPT !.max_vus = max]
           y6 == [y5 EXCEPT !.stages = Written(stages)]
<1>2. ToYaml(r) = y6
  BY <1>1 DEF ToYaml, Yaml, Written
<1>3. y1 = Yaml(r, name, None, None, Nil, None, <<>>, None, Nil, None, None)
  BY DEF Yaml
<1> HIDE DEF y1
<1>4. y2 = Yaml(r, name, None, None, Nil, None, <<>>, rate, Nil, None, None)
  BY <1>3 DEF Yaml
<1> HIDE DEF y2
<1>5. y3 = Yaml(r, name, None, None, Nil, None, <<>>, rate, Span(unit), None, None)
  BY <1>4 DEF Yaml
<1> HIDE DEF y3
<1>6. y4 = Yaml(r, name, None, None, Nil, None, <<>>, rate, Span(unit), pre, None)
  BY <1>5 DEF Yaml
<1> HIDE DEF y4
<1>7. y5 = Yaml(r, name, None, None, Nil, None, <<>>, rate, Span(unit), pre, max)
  BY <1>6 DEF Yaml
<1> HIDE DEF y5
<1>8. y6 = Yaml(r, name, None, None, Nil, None, Written(stages), rate, Span(unit), pre, max)
  BY <1>7 DEF Yaml
<1> QED
  BY <1>2, <1>8

LEMMA OrFacts == \A x, y : /\ Or(None, x) = x /\ Or(x, None) = x
                           /\ x # None => Or(x, y) = x
BY DEF Or

\* The fields of a scenario that was read back.
LEMMA YamlFields ==
    ASSUME NEW r, NEW executor, NEW n, NEW its, NEW d, NEW start_vus, NEW stages, NEW start_rate,
           NEW unit, NEW pre, NEW max
    PROVE  LET s == Yaml(r, executor, n, its, d, start_vus, stages, start_rate, unit, pre, max)
           IN /\ s.name = r.name /\ s.exec = r.exec /\ s.tags = r.tags /\ s.executor = executor
              /\ s.vus = n /\ s.iterations = its /\ s.duration = d /\ s.start_vus = start_vus
              /\ s.stages = stages /\ s.start_rate = start_rate /\ s.time_unit = unit
              /\ s.pre_allocated_vus = pre /\ s.max_vus = max
BY DEF Yaml

\* A file of scenarios sets nothing at its top level.
NoTop(o) == o.vus = None /\ o.iterations = None /\ o.duration = None

LEMMA FlagsAbsent == NoTop(NoFlags)
BY DEF NoTop, NoFlags

LEMMA ScenarioAgain ==
    ASSUME NEW r, Named(r), NEW s, s.name = r.name, s.exec = r.exec, s.tags = r.tags
    PROVE  Scenario(s, r.executor, r.iterations, r.duration) = r
<1>1. Or(s.exec, "Default") = r.exec
  BY OrFacts DEF Named
<1> QED
  BY <1>1 DEF Scenario, Named

LEMMA NoStages == <<>> \in StageLists /\ Written(<<>>) = <<>> /\ WrittenTime(None) = Nil
BY DEF StageLists, Written, WrittenTime

LEMMA ConstantAgain ==
    ASSUME NEW r, Named(r), r.name # None, IsConstant(r), NEW name, NEW opts, NoTop(opts)
    PROVE  LET s == FromYaml(ToYaml(r), name) IN
           ~IsRefused(s) /\ ResolveScenario(s.some, opts, NoFlags) = r
<1>1. PICK n \in Nat \ {0} : /\ r.executor = [kind |-> "constant", vus |-> n]
                             /\ r.iterations \in Counts \ {0} /\ r.duration \in Counts
  BY DEF IsConstant
<1> DEFINE s == Yaml(r, "constant-vus", n, r.iterations, r.duration, None, <<>>, None, None,
                     None, None)
<1>2. ~IsRefused(FromYaml(ToYaml(r), name)) /\ FromYaml(ToYaml(r), name).some = s
  <2>1. ToYaml(r) = Yaml(r, "constant-vus", n, r.iterations, WrittenTime(r.duration), None,
                         Written(<<>>), None, WrittenTime(None), None, None)
    BY <1>1, ConstantWritten, NoStages
  <2> QED
    BY <2>1, NoStages, ReadBack
<1>3. /\ s.name = r.name /\ s.exec = r.exec /\ s.tags = r.tags /\ s.executor = "constant-vus"
      /\ s.vus = n /\ s.iterations = r.iterations /\ s.duration = r.duration
  BY YamlFields
<1> HIDE DEF s
<1>4. Or(s.executor, "constant-vus") = "constant-vus"
  BY <1>3 DEF Or
<1>5. ResolveScenario(s, opts, NoFlags) = ConstantVus(s, opts, NoFlags)
  BY <1>4 DEF ResolveScenario, ExecutorNames, ConstantNames
<1>6. /\ Or(Or(Or(NoFlags.vus, s.vus), opts.vus), 1) = n
      /\ Or(Or(NoFlags.iterations, s.iterations), opts.iterations) = r.iterations
      /\ Or(Or(NoFlags.duration, s.duration), opts.duration) = r.duration
  <2>1. n # None
    BY <1>1, GateAssumption
  <2> QED
    BY <1>3, <2>1, FlagsAbsent, OrFacts DEF NoTop
<1>7. ConstantVus(s, opts, NoFlags)
        = Scenario(s, [kind |-> "constant", vus |-> n], r.iterations, r.duration)
  BY <1>1, <1>6 DEF ConstantVus
<1>8. ResolveScenario(s, opts, NoFlags) = r
  BY <1>1, <1>3, <1>5, <1>7, ScenarioAgain
<1> QED
  BY <1>2, <1>8

LEMMA RampingAgain ==
    ASSUME NEW r, Named(r), r.name # None, IsRamping(r), NEW name, NEW opts, NoTop(opts)
    PROVE  LET s == FromYaml(ToYaml(r), name) IN
           ~IsRefused(s) /\ ResolveScenario(s.some, opts, NoFlags) = r
<1>1. PICK start \in Nat, stages \in StageLists :
          /\ r.executor = [kind |-> "ramping", start_vus |-> start, stages |-> stages]
          /\ StagesMax(start, stages) # 0
          /\ Staged(r, stages)
  BY DEF IsRamping
<1> DEFINE s == Yaml(r, "ramping-vus", None, None, None, start, stages, None, None, None, None)
<1>2. ~IsRefused(FromYaml(ToYaml(r), name)) /\ FromYaml(ToYaml(r), name).some = s
  <2>1. ToYaml(r) = Yaml(r, "ramping-vus", None, None, WrittenTime(None), start, Written(stages),
                         None, WrittenTime(None), None, None)
    BY <1>1, RampingWritten, NoStages
  <2> QED
    BY <2>1, ReadBack
<1>3. /\ s.name = r.name /\ s.exec = r.exec /\ s.tags = r.tags /\ s.executor = "ramping-vus"
      /\ s.iterations = None /\ s.start_vus = start /\ s.stages = stages
  BY YamlFields
<1> HIDE DEF s
<1>4. "ramping-vus" # None
  BY InputsAssumption DEF ExecutorNames
<1>5. Or(s.executor, "constant-vus") = "ramping-vus"
  BY <1>3, <1>4 DEF Or
<1>6. ResolveScenario(s, opts, NoFlags) = RampingVusScenario(s, opts)
  BY <1>5, FlagsAbsent DEF ResolveScenario, ExecutorNames, ConstantNames, ArrivalNames, NoTop
<1>7. Or(s.start_vus, 0) = start
  BY <1>3, GateAssumption DEF Or
<1>8. RampingVusScenario(s, opts)
        = Scenario(s, [kind |-> "ramping", start_vus |-> start, stages |-> stages], None,
                   StagesTotal(stages))
  BY <1>1, <1>3, <1>7 DEF RampingVusScenario, Staged, NoTop
<1>9. RampingVusScenario(s, opts) = Scenario(s, r.executor, r.iterations, r.duration)
  BY <1>1, <1>8 DEF Staged
<1>10. ResolveScenario(s, opts, NoFlags) = r
  BY <1>3, <1>6, <1>9, ScenarioAgain
<1> QED
  BY <1>2, <1>10

LEMMA ArrivalAgain ==
    ASSUME NEW r, Named(r), r.name # None, IsArrival(r), NEW name, NEW opts, NoTop(opts)
    PROVE  LET s == FromYaml(ToYaml(r), name) IN
           ~IsRefused(s) /\ ResolveScenario(s.some, opts, NoFlags) = r
<1> DEFINE executor(rate, unit, pre, max, stages) ==
              [kind |-> "arrival", start_rate |-> rate, time_unit |-> unit,
               pre_allocated_vus |-> pre, max_vus |-> max, stages |-> stages]
<1>1. PICK rate \in Nat, unit, pre, max \in Nat \ {0}, stages \in StageLists :
          /\ r.executor = executor(rate, unit, pre, max, stages)
          /\ ~(max < pre)
          /\ Staged(r, stages)
  BY DEF IsArrival
<1> DEFINE s == Yaml(r, "ramping-arrival-rate", None, None, None, None, stages, rate, unit, pre,
                     max)
<1>2. ~IsRefused(FromYaml(ToYaml(r), name)) /\ FromYaml(ToYaml(r), name).some = s
  <2>1. WrittenTime(unit) = Span(unit)
    BY GateAssumption DEF WrittenTime
  <2>2. ToYaml(r) = Yaml(r, "ramping-arrival-rate", None, None, WrittenTime(None), None,
                         Written(stages), rate, WrittenTime(unit), pre, max)
    BY <1>1, <2>1, ArrivalWritten, NoStages
  <2> QED
    BY <2>2, ReadBack
<1>3. /\ s.name = r.name /\ s.exec = r.exec /\ s.tags = r.tags
      /\ s.executor = "ramping-arrival-rate"
      /\ s.iterations = None /\ s.stages = stages /\ s.start_rate = rate /\ s.time_unit = unit
      /\ s.pre_allocated_vus = pre /\ s.max_vus = max
  BY YamlFields
<1> HIDE DEF s
<1>4. "ramping-arrival-rate" # None
  BY InputsAssumption DEF ExecutorNames, ArrivalNames
<1>5. Or(s.executor, "constant-vus") = "ramping-arrival-rate"
  BY <1>3, <1>4 DEF Or
<1>6. ResolveScenario(s, opts, NoFlags) = ArrivalScenario(s, opts, 1)
  BY <1>5, FlagsAbsent DEF ResolveScenario, ExecutorNames, ConstantNames, ArrivalNames, NoTop
<1>7. /\ Or(s.start_rate, 0) = rate /\ Or(s.time_unit, 1) = unit
      /\ Or(s.pre_allocated_vus, 1) = pre /\ Or(s.max_vus, pre) = max
  BY <1>3, GateAssumption DEF Or
<1>8. ArrivalScenario(s, opts, 1)
        = Scenario(s, executor(rate, unit, pre, max, stages), None, StagesTotal(stages))
  <2> HIDE DEF executor
  <2>1. unit # 0 /\ pre # 0 /\ ~(max < pre) /\ StagesTotal(stages) # 0 /\ stages # <<>>
    BY <1>1 DEF Staged
  <2> QED
    BY <1>3, <1>7, <2>1 DEF ArrivalScenario, NoTop, executor
<1> HIDE DEF executor
<1>9. ArrivalScenario(s, opts, 1) = Scenario(s, r.executor, r.iterations, r.duration)
  BY <1>1, <1>8 DEF Staged
<1>10. ResolveScenario(s, opts, NoFlags) = r
  BY <1>3, <1>6, <1>9, ScenarioAgain
<1> QED
  BY <1>2, <1>10

\* Each rendered selector has the expressions of a set with that selector.
LEMMA RenderFacts ==
    ASSUME NEW sets, AreThresholds(sets)
    PROVE  LET map == RenderThresholds(sets) IN
           /\ DOMAIN map = {[metric |-> sets[i].metric, tags |-> sets[i].tags] : i \in DOMAIN sets}
           /\ \A key \in DOMAIN map :
                 \E i \in DOMAIN sets : /\ sets[i].metric = key.metric /\ sets[i].tags = key.tags
                                        /\ map[key] = sets[i].expressions
<1> DEFINE keys == {[metric |-> sets[i].metric, tags |-> sets[i].tags] : i \in DOMAIN sets}
           Of(key, i) == sets[i].metric = key.metric /\ sets[i].tags = key.tags
           Last(key, i) == /\ sets[i].metric = key.metric /\ sets[i].tags = key.tags
                           /\ \A j \in (i + 1)..Len(sets) :
                                 sets[j].metric # key.metric \/ sets[j].tags # key.tags
           map == [key \in keys |-> sets[CHOOSE i \in DOMAIN sets : Last(key, i)].expressions]
           n == Len(sets)
<1>1. RenderThresholds(sets) = map
  BY DEF RenderThresholds
<1>2. n \in Nat /\ DOMAIN sets = 1..n
  BY DEF AreThresholds
<1>3. ASSUME NEW key \in keys PROVE \E i \in DOMAIN sets : Last(key, i)
  <2>1. PICK i0 \in DOMAIN sets : Of(key, i0)
    BY <1>3
  <2> DEFINE left == {m \in Nat : m < n /\ Of(key, n - m)}
  <2>2. n - i0 \in left
    <3>1. n - i0 \in Nat /\ n - i0 < n /\ n - (n - i0) = i0
      BY <1>2
    <3> QED
      BY <2>1, <3>1
  <2>3. PICK m \in left : \A k \in left : m <= k
    BY <2>2, LeastNumber
  <2> DEFINE i == n - m
  <2>4. i \in DOMAIN sets /\ Of(key, i)
    BY <1>2, <2>3
  <2>5. ASSUME NEW j \in (i + 1)..n PROVE ~Of(key, j)
    <3>1. n - j \in Nat /\ n - j < n /\ n - (n - j) = j /\ ~(m <= n - j)
      BY <1>2, <2>3
    <3> QED
      BY <2>3, <3>1
  <2> QED
    BY <2>4, <2>5
<1>4. ASSUME NEW key \in keys
      PROVE  \E i \in DOMAIN sets : Of(key, i) /\ map[key] = sets[i].expressions
  <2> DEFINE i == CHOOSE i \in DOMAIN sets : Last(key, i)
  <2>1. i \in DOMAIN sets /\ Last(key, i)
    BY <1>3
  <2>2. map[key] = sets[i].expressions
    OBVIOUS
  <2> QED
    BY <2>1, <2>2
<1>5. DOMAIN map = keys
  OBVIOUS
<1> HIDE DEF map, keys
<1> QED
  BY <1>1, <1>4, <1>5 DEF keys

\* A map of thresholds holds the sets that were rendered, if their selectors differ.
LEMMA ThresholdsAgain ==
    ASSUME NEW sets, AreThresholds(sets)
    PROVE  LET map == RenderThresholds(sets) IN
           /\ \A key \in DOMAIN map : map[key] # <<>>
           /\ DistinctSelectors(sets) =>
                 {[metric |-> key.metric, tags |-> key.tags, expressions |-> map[key]] :
                     key \in DOMAIN map} = {sets[i] : i \in DOMAIN sets}
<1> DEFINE map == RenderThresholds(sets)
           Key(i) == [metric |-> sets[i].metric, tags |-> sets[i].tags]
           Set(key) == [metric |-> key.metric, tags |-> key.tags, expressions |-> map[key]]
<1>1. DOMAIN map = {Key(i) : i \in DOMAIN sets}
  BY RenderFacts
<1>2. \A key \in DOMAIN map :
         \E i \in DOMAIN sets : /\ sets[i].metric = key.metric /\ sets[i].tags = key.tags
                                /\ map[key] = sets[i].expressions
  BY RenderFacts
<1> HIDE DEF map
<1>3. \A key \in DOMAIN map : map[key] # <<>>
  BY <1>2 DEF AreThresholds
<1>4. ASSUME NEW key \in DOMAIN map PROVE \E i \in DOMAIN sets : Set(key) = sets[i]
  <2>1. PICK i \in DOMAIN sets : /\ sets[i].metric = key.metric /\ sets[i].tags = key.tags
                                 /\ map[key] = sets[i].expressions
    BY <1>2
  <2>2. sets[i] = [metric |-> sets[i].metric, tags |-> sets[i].tags,
                   expressions |-> sets[i].expressions]
    BY DEF AreThresholds
  <2> QED
    BY <2>1, <2>2
<1>5. ASSUME DistinctSelectors(sets), NEW i \in DOMAIN sets
      PROVE  Key(i) \in DOMAIN map /\ Set(Key(i)) = sets[i]
  <2>1. Key(i) \in DOMAIN map /\ Key(i).metric = sets[i].metric /\ Key(i).tags = sets[i].tags
    BY <1>1
  <2> HIDE DEF Key
  <2>2. PICK j \in DOMAIN sets :
           /\ sets[j].metric = Key(i).metric /\ sets[j].tags = Key(i).tags
           /\ map[Key(i)] = sets[j].expressions
    BY <1>2, <2>1
  <2>3. i = j
    BY <1>5, <2>1, <2>2 DEF DistinctSelectors
  <2>4. sets[i] = [metric |-> sets[i].metric, tags |-> sets[i].tags,
                   expressions |-> sets[i].expressions]
    BY DEF AreThresholds
  <2> QED
    BY <2>1, <2>2, <2>3, <2>4
<1> HIDE DEF Set, Key
<1>6. DistinctSelectors(sets) => {Set(key) : key \in DOMAIN map} = {sets[i] : i \in DOMAIN sets}
  BY <1>4, <1>5
<1> QED
  BY <1>3, <1>6 DEF Set, map

LEMMA WholeAgain ==
    ASSUME NEW r, Whole(r), r.name # None, NEW name, NEW opts, NoTop(opts)
    PROVE  LET s == FromYaml(ToYaml(r), name) IN
           ~IsRefused(s) /\ ResolveScenario(s.some, opts, NoFlags) = r
BY ConstantAgain, RampingAgain, ArrivalAgain DEF Whole

\* A file of scenarios that were accepted gives the same scenarios, and thresholds.
LEMMA ExportAgain ==
    ASSUME NEW rs, IsList(rs), rs # <<>>, \A i \in DOMAIN rs : Whole(rs[i]) /\ rs[i].name # None,
           NEW sets, AreThresholds(sets),
           NEW again, again = [doc |-> ExportDoc(rs, sets), yaml |-> TRUE, cli |-> NoFlags]
    PROVE  /\ Resolved(again) = [all |-> rs]
           /\ DistinctSelectors(sets) =>
                 Load(again).thresholds = {sets[i] : i \in DOMAIN sets}
<1> DEFINE doc == ExportDoc(rs, sets)
           n == Len(rs)
           o == LoadYaml(doc, "file")
<1>1. Load(again) = o /\ again.cli = NoFlags
  BY DEF Load
<1>2. n \in Nat /\ DOMAIN rs = 1..n /\ rs = [i \in 1..n |-> rs[i]]
  BY ListFacts
<1>3. doc.scenarios = [i \in 1..n |-> ToYaml(rs[i])] /\ doc.thresholds = RenderThresholds(sets)
  BY <1>2 DEF ExportDoc
<1> HIDE DEF doc
<1>4. /\ IsList(doc.scenarios) /\ Len(doc.scenarios) = n
      /\ \A i \in 1..n : doc.scenarios[i] = ToYaml(rs[i])
  <2>1. doc.scenarios = [i \in 1..n |-> doc.scenarios[i]]
    BY <1>3
  <2> QED
    BY <1>2, <1>3, <2>1, IsAList
<1> DEFINE Back(i) == FromYaml(ToYaml(rs[i]), DefaultName(n, "file", i))
           map == doc.thresholds
           thresholds == {[metric |-> key.metric, tags |-> key.tags, expressions |-> map[key]] :
                             key \in DOMAIN map}
<1>5. ASSUME NEW opts, NoTop(opts), NEW i \in 1..n
      PROVE  ~IsRefused(Back(i)) /\ ResolveScenario(Back(i).some, opts, NoFlags) = rs[i]
  BY <1>2, <1>5, WholeAgain
<1>6. \A key \in DOMAIN map : map[key] # <<>>
  BY <1>3, ThresholdsAgain
<1>7. \A i \in 1..n : ~IsRefused(Back(i))
  BY <1>5, FlagsAbsent
<1>8. /\ ~IsRefused(o)
      /\ o = [vus |-> None, iterations |-> None, duration |-> None,
              scenarios |-> [i \in 1..n |-> Back(i).some], thresholds |-> thresholds]
  <2>1. \A i \in 1..n : FromYaml(doc.scenarios[i], DefaultName(n, "file", i)) = Back(i)
    BY <1>4
  <2>2. ~IsRefused(o)
    BY <1>4, <1>6, <1>7, <2>1, LoadYamlForm
  <2>3. o = [vus |-> None, iterations |-> None, duration |-> None,
             scenarios |-> [i \in 1..n |->
                              FromYaml(doc.scenarios[i], DefaultName(n, "file", i)).some],
             thresholds |-> thresholds]
    BY <1>4, <2>2, LoadYamlForm
  <2> QED
    BY <2>1, <2>2, <2>3
<1>9. DistinctSelectors(sets) => thresholds = {sets[i] : i \in DOMAIN sets}
  <2>1. map = RenderThresholds(sets)
    BY <1>3
  <2> HIDE DEF map
  <2> QED
    BY <2>1, ThresholdsAgain
<1> HIDE DEF o, thresholds, Back
<1>10. /\ NoTop(o) /\ o.scenarios = [i \in 1..n |-> Back(i).some] /\ o.thresholds = thresholds
  BY <1>8 DEF NoTop
<1>11. o.scenarios # <<>> /\ DOMAIN o.scenarios = 1..n
  <2>1. n # 0
    BY <1>2 DEF IsList
  <2>2. 1 \in DOMAIN o.scenarios /\ DOMAIN o.scenarios = 1..n
    BY <1>2, <1>10, <2>1
  <2> QED
    BY <2>2
<1>12. [i \in DOMAIN o.scenarios |-> ResolveScenario(o.scenarios[i], o, NoFlags)] = rs
  <2>1. \A i \in 1..n : ResolveScenario(o.scenarios[i], o, NoFlags) = rs[i]
    BY <1>5, <1>10
  <2> QED
    BY <1>2, <1>11, <2>1
<1>13. ScenariosFromOptions(o, NoFlags) = Collect(rs)
  BY <1>11, <1>12 DEF ScenariosFromOptions
<1>14. \A i \in DOMAIN rs : ~IsRefused(rs[i])
  BY DEF Whole, Named, IsRefused
<1>15. Collect(rs) = [all |-> rs]
  BY <1>14 DEF Collect
<1>16. Resolved(again) = [all |-> rs]
  <2>1. Resolved(again) = IF IsRefused(o) THEN o ELSE ScenariosFromOptions(o, NoFlags)
    BY <1>1 DEF Resolved
  <2> QED
    BY <1>8, <1>13, <1>15, <2>1
<1> QED
  BY <1>1, <1>10, <1>16, <1>9

-----------------------------------------------------------------------------
(* The executors. *)

\* Nothing runs before the options are resolved; then there are VUs for every target.
ScenarioInv ==
    /\ phase \in {"options", "refused", "constant", "ramping", "arrival"}
    /\ phase = "options" => /\ input \in Inputs /\ opened = None /\ counter = 0 /\ granted = 0
                            /\ iterations \in Counts /\ iterations # 0 /\ duration \in Counts
    /\ spawned \subseteq Vus
    /\ schedule \in Schedules
    /\ phase = "ramping" => 1..StagesMax(schedule.start, schedule.stages) \subseteq spawned

ClockInv == opened # None => opened <= now

\* No VU sleeps before the start of the run, and none too long after it.
RampInv ==
    /\ R!RampingTypeOK
    /\ opened = None => \A v \in Vus : state[v] = "await_start"
    /\ R!Awake

EInv == IInv /\ CounterInv /\ ScenarioInv /\ ClockInv /\ RampInv

\* RampingVus reads the same schedule.
LEMMA SameSchedule ==
    ASSUME NEW s, NEW t, NEW i, NEW n
    PROVE  /\ R!IsDone(s, t) = IsDone(s, t)
           /\ R!StagesAt(s, t) = StagesAt(s, t)
           /\ R!TargetAt(s, t, i) = TargetAt(s, t, i)
           /\ R!NextRecheckIn(s, t, n, i) = NextRecheckIn(s, t, n, i)
           /\ R!AtLeast(i, n) = AtLeast(i, n)
<1>1. R!Ends(s) = Ends(s)
  BY DEF R!Ends, Ends
<1>2. R!TotalDuration(s) = TotalDuration(s)
  BY <1>1 DEF R!TotalDuration, TotalDuration
<1>3. R!IsDone(s, t) = IsDone(s, t)
  BY <1>2 DEF R!IsDone, IsDone
<1>4. R!StagesAt(s, t) = StagesAt(s, t)
  BY <1>1 DEF R!StagesAt, StagesAt
<1>5. R!StartTarget(s, i) = StartTarget(s, i)
  BY DEF R!StartTarget, StartTarget
<1>6. \A a, b : R!AtLeast(a, b) = AtLeast(a, b) /\ R!AtMost(a, b) = AtMost(a, b)
                /\ R!TruncDiv(a, b) = TruncDiv(a, b)
  BY DEF R!AtLeast, AtLeast, R!AtMost, AtMost, R!TruncDiv, TruncDiv
<1>7. R!Interpolate(s, t, i) = Interpolate(s, t, i)
  BY <1>1, <1>5, <1>6 DEF R!Interpolate, Interpolate
<1>8. R!TargetAt(s, t, i) = TargetAt(s, t, i)
  BY <1>3, <1>7 DEF R!TargetAt, TargetAt
<1>9. R!TargetWait(s, t, n, i) = TargetWait(s, t, n, i)
  BY <1>1, <1>5, <1>6 DEF R!TargetWait, TargetWait
<1>10. R!NextRecheckIn(s, t, n, i) = NextRecheckIn(s, t, n, i)
  BY <1>1, <1>3, <1>5, <1>6, <1>8, <1>9 DEF R!NextRecheckIn, NextRecheckIn
<1> QED
  BY <1>3, <1>4, <1>6, <1>8, <1>10

LEMMA EInit == ExecInit => EInv
<1> SUFFICES ASSUME ExecInit PROVE EInv
  OBVIOUS
<1>1. TypeOK
  BY GateAssumption DEF ExecInit, TypeOK, States
<1>2. IInv
  BY <1>1, TotalType DEF ExecInit, IInv, GrantedByCounter, StoppedAfterAll, DeadlineSet, ReadInTime
<1>3. CounterInv
  BY <1>1, TotalType, StoppedFinite DEF ExecInit, CounterInv
<1>4. ScenarioInv
  <2>1. [start |-> 0, stages |-> <<>>] \in Schedules
    BY DEF Schedules, StageLists
  <2> QED
    BY <2>1, GateAssumption DEF ExecInit, ScenarioInv, Counts
<1>5. ClockInv
  BY DEF ExecInit, ClockInv
<1>6. RampInv
  BY DEF ExecInit, RampInv, R!RampingTypeOK, R!Awake, R!Idle
<1> QED
  BY <1>2, <1>3, <1>4, <1>5, <1>6 DEF EInv

\* What Resolve makes of an input.
LEMMA ResolveFacts ==
    ASSUME EInv, Resolve
    PROVE  /\ phase' \in {"refused", "constant", "ramping", "arrival"}
           /\ iterations' \in Counts /\ iterations' # 0 /\ duration' \in Counts
           /\ spawned' \subseteq Vus /\ schedule' \in Schedules
           /\ phase' = "ramping" =>
                 1..StagesMax(schedule'.start, schedule'.stages) \subseteq spawned'
           /\ opened = None /\ counter = 0 /\ granted = 0
           /\ UNCHANGED <<counter, deadline, now, opened, vus, ramp>>
<1>1. /\ phase = "options" /\ input \in Inputs /\ opened = None /\ counter = 0 /\ granted = 0
      /\ UNCHANGED <<counter, deadline, now, opened, vus, ramp>>
      /\ spawned \subseteq Vus /\ schedule \in Schedules
  BY DEF EInv, ScenarioInv, Resolve
<1>2. CASE IsRefused(Resolved(input))
  <2>1. phase' = "refused" /\ UNCHANGED <<spawned, schedule, iterations, duration>>
    BY <1>2 DEF Resolve
  <2> QED
    BY <1>1, <2>1 DEF EInv, ScenarioInv
<1>3. CASE ~IsRefused(Resolved(input))
  <2>1. PICK r : Accepted(r) /\ 1..ScenarioMaxVus(r) \subseteq Vus /\ Prepare(r)
    BY <1>1, <1>3, ResolvedAccepted DEF Resolve
  <2>2. r.executor.kind \in {"constant", "ramping", "arrival"} /\ phase' = r.executor.kind
        /\ spawned' = {v \in Vus : v <= ScenarioMaxVus(r)}
    BY <2>1 DEF Accepted, Prepare
  <2>3. CASE r.executor.kind = "constant"
    <3>1. iterations' = r.iterations /\ duration' = r.duration /\ schedule' = schedule
      BY <2>1, <2>3 DEF Prepare
    <3>2. r.iterations # 0
      BY <2>1, <2>3 DEF Accepted, Ready
    <3> QED
      BY <1>1, <2>1, <2>2, <2>3, <3>1, <3>2 DEF Accepted
  <2>4. CASE r.executor.kind = "ramping"
    <3>1. /\ schedule' = [start |-> r.executor.start_vus, stages |-> r.executor.stages]
          /\ iterations' = iterations /\ duration' = duration
      BY <2>1, <2>4 DEF Prepare
    <3>2. r.executor.start_vus \in Nat /\ r.executor.stages \in StageLists
      BY <2>1, <2>4 DEF Accepted
    <3>3. /\ schedule' \in Schedules /\ schedule'.start = r.executor.start_vus
          /\ schedule'.stages = r.executor.stages
      BY <3>1, <3>2, ScheduleFields
    <3>4. ScenarioMaxVus(r) = StagesMax(schedule'.start, schedule'.stages)
      BY <2>4, <3>3 DEF ScenarioMaxVus
    <3>5. 1..ScenarioMaxVus(r) \subseteq spawned'
      <4>1. ScenarioMaxVus(r) \in Nat
        BY <3>3, <3>4, MaxFacts
      <4> QED
        BY <2>1, <2>2, <4>1
    <3> QED
      BY <1>1, <2>2, <2>4, <3>1, <3>3, <3>4, <3>5, GateAssumption DEF EInv, ScenarioInv, Counts
  <2>5. CASE r.executor.kind = "arrival"
    <3>1. /\ schedule' = [start |-> r.executor.start_rate, stages |-> r.executor.stages]
          /\ iterations' = iterations /\ duration' = duration
      BY <2>1, <2>5 DEF Prepare
    <3>2. r.executor.start_rate \in Nat /\ r.executor.stages \in StageLists
      BY <2>1, <2>5 DEF Accepted
    <3>3. schedule' \in Schedules
      BY <3>1, <3>2, ScheduleFields
    <3> QED
      BY <1>1, <2>2, <2>5, <3>1, <3>3, GateAssumption DEF EInv, ScenarioInv, Counts
  <2> QED
    BY <2>2, <2>3, <2>4, <2>5
<1> QED
  BY <1>2, <1>3

\* The gate of a scenario that was accepted starts as any gate does.
LEMMA EResolve ==
    ASSUME EInv, Resolve
    PROVE  EInv'
<1>1. IInv /\ TypeOK /\ RampInv /\ opened = None /\ counter = 0 /\ granted = 0
  BY ResolveFacts DEF EInv, IInv
<1>2. /\ iterations' \in Nat \union {None} /\ iterations' # 0 /\ duration' \in Nat \union {None}
      /\ counter' = counter /\ deadline' = deadline /\ now' = now /\ opened' = opened
      /\ pc' = pc /\ read' = read /\ granted' = granted
      /\ state' = state /\ seen' = seen /\ wake_at' = wake_at
  BY ResolveFacts DEF Counts, vus, ramp
<1>3. deadline = None /\ \A v \in Vus : pc[v] = "await_start"
  BY <1>1 DEF IInv, DeadlineSet
<1>4. Total' \in Nat \union {None}
  BY <1>2, GateAssumption DEF Total
<1>5. IInv'
  <2>1. TypeOK'
    BY <1>1, <1>2 DEF TypeOK
  <2>2. GrantedByCounter'
    BY <1>1, <1>2, <1>4 DEF GrantedByCounter
  <2>3. StoppedAfterAll' /\ DeadlineSet' /\ ReadInTime'
    BY <1>1, <1>2, <1>3 DEF StoppedAfterAll, DeadlineSet, ReadInTime
  <2> QED
    BY <2>1, <2>2, <2>3 DEF IInv
<1>6. CounterInv'
  <2>1. Stopped' = Stopped
    BY <1>2 DEF Stopped
  <2>2. Cardinality(Stopped') \in Nat
    BY <2>1, StoppedFinite
  <2> QED
    BY <1>1, <1>2, <1>4, <2>2 DEF CounterInv
<1>7. ScenarioInv'
  BY <1>2, ResolveFacts DEF ScenarioInv
<1>8. ClockInv'
  BY <1>1, <1>2 DEF ClockInv
<1>9. RampInv'
  BY <1>1, <1>2 DEF RampInv, R!RampingTypeOK, R!Awake
<1> QED
  BY <1>5, <1>6, <1>7, <1>8, <1>9 DEF EInv

\* Steps of the clock, of the runner and of the VUs of a constant-vus scenario.
LEMMA EGate ==
    ASSUME EInv, TickStep \/ OpenStep \/ (\E v \in Vus : ConstantStep(v))
    PROVE  EInv'
<1>1. IInv /\ CounterInv /\ ScenarioInv /\ ClockInv /\ RampInv /\ TypeOK /\ phase # "options"
  BY DEF EInv, IInv, TickStep, OpenStep, ConstantStep, Running
<1>2. Next
  BY DEF TickStep, OpenStep, ConstantStep, Next
<1>3. /\ phase' = phase /\ spawned' = spawned /\ schedule' = schedule
      /\ state' = state /\ seen' = seen /\ wake_at' = wake_at
  BY DEF TickStep, OpenStep, ConstantStep, ramp, scenario
<1>4. IInv' /\ CounterInv'
  BY <1>1, <1>2, InvStep, CounterStep
<1>5. ScenarioInv'
  BY <1>1, <1>3 DEF ScenarioInv
<1>6. now \in Nat /\ (opened # None => opened \in Nat) /\ None \notin Int
  BY <1>1, GateAssumption DEF TypeOK
<1>7. \/ opened' = opened /\ now' = now
      \/ opened' = opened /\ now' = now + 1
      \/ opened = None /\ opened' = now /\ now' = now
  BY <1>2 DEF Next, Tick, Open, VuStep, Begin, ReadClock, CheckDeadline, Count, RunOne
<1>8. ClockInv'
  BY <1>1, <1>6, <1>7 DEF ClockInv
<1>9. RampInv'
  <2>1. R!RampingTypeOK'
    BY <1>1, <1>3 DEF RampInv, R!RampingTypeOK
  <2>2. CASE opened' = opened
    <3>1. R!Awake'
      BY <1>1, <1>3, <2>2 DEF RampInv, R!Awake
    <3> QED
      BY <1>1, <1>3, <2>1, <2>2, <3>1 DEF RampInv
  <2>3. CASE opened' # opened
    <3>1. opened = None /\ opened' # None
      BY <1>6, <1>7, <2>3
    <3>2. \A v \in Vus : state'[v] = "await_start"
      BY <1>1, <1>3, <3>1 DEF RampInv
    <3>3. R!Awake'
      BY <3>2 DEF R!Awake
    <3> QED
      BY <2>1, <3>2, <3>3 DEF RampInv
  <2> QED
    BY <2>2, <2>3
<1> QED
  BY <1>4, <1>5, <1>8, <1>9 DEF EInv

\* The sleep that next_recheck_in works out is a time.
LEMMA RecheckType ==
    ASSUME NEW s \in Schedules, NEW n \in Nat, NEW t \in Nat, NEW i \in StagesAt(s, t)
    PROVE  NextRecheckIn(s, t, n, i) \in Int
<1> DEFINE a == StartTarget(s, i)
           b == s.stages[i].target
           d == s.stages[i].duration
           q == ((n - a) * d) \div (b - a)
<1>1. Ms \in Nat /\ DefaultSleep \in Nat
  BY ScheduleAssumption
<1>2. i \in 1..Len(s.stages)
  BY SearchFacts DEF InStage
<1>3. a \in Nat /\ b \in Nat /\ d \in Nat /\ Ends(s)[i] \in Nat /\ Ends(s)[i - 1] \in Nat
  BY <1>2, StageFacts
<1>4. ASSUME ~(b <= a), ~(n <= a) PROVE TargetWait(s, t, n, i) \in Int
  <2> HIDE DEF a, b, d
  <2>1. n - a \in Nat /\ b - a \in Nat /\ b - a > 0
    BY <1>3, <1>4
  <2>2. (n - a) * d \in Nat
    BY <1>3, <2>1
  <2>3. q \in Nat
    BY <2>1, <2>2, DivFacts
  <2>4. TargetWait(s, t, n, i) = AtMost(AtLeast(q - (t - Ends(s)[i - 1]), 0), DefaultSleep)
    BY DEF TargetWait, a, b, d
  <2> HIDE DEF q
  <2> QED
    BY <1>1, <1>3, <2>3, <2>4 DEF AtMost, AtLeast
<1>5. AtMost(Ends(s)[i] - t, DefaultSleep) \in Int
  BY <1>1, <1>3 DEF AtMost
<1> QED
  BY <1>1, <1>4, <1>5 DEF NextRecheckIn

\* A turn of a ramping-vus VU's loop: if it goes to sleep, it wakes up in time.
LEMMA ECheck ==
    ASSUME EInv, phase = "ramping", NEW v \in Vus, R!Check(v), UNCHANGED <<vars, scenario>>
    PROVE  RampInv'
<1> DEFINE elapsed == now - opened
<1>1. TypeOK /\ RampInv /\ ScenarioInv /\ ClockInv /\ v \in Nat
  BY InputsAssumption DEF EInv, IInv
<1>2. /\ state[v] = "check" /\ seen' = [seen EXCEPT ![v] = elapsed]
      /\ now' = now /\ opened' = opened /\ schedule' = schedule
  BY DEF R!Check, vars, scenario
<1>3. opened # None /\ opened \in Nat /\ now \in Nat /\ elapsed \in Nat
  <2>1. opened # None
    BY <1>1, <1>2 DEF RampInv
  <2> QED
    BY <1>1, <2>1, GateAssumption DEF TypeOK, ClockInv
<1>4. schedule \in Schedules
  BY <1>1 DEF ScenarioInv
<1>5. /\ state \in [Vus -> {"await_start", "check", "asleep", "run", "ended", "failed"}]
      /\ seen \in [Vus -> Nat] /\ wake_at \in [Vus -> Nat]
  BY <1>1 DEF RampInv, R!RampingTypeOK
<1>6. \/ wake_at' = wake_at /\ \E st \in {"ended", "run"} : state' = [state EXCEPT ![v] = st]
      \/ /\ ~IsDone(schedule, elapsed) /\ state' = [state EXCEPT ![v] = "asleep"]
         /\ \E i \in StagesAt(schedule, elapsed) :
              /\ v > TargetAt(schedule, elapsed, i)
              /\ wake_at' = [wake_at EXCEPT ![v] =
                               now + AtLeast(NextRecheckIn(schedule, elapsed, v, i), Ms)]
  <2>1. /\ R!IsDone(schedule, elapsed) = IsDone(schedule, elapsed)
        /\ R!StagesAt(schedule, elapsed) = StagesAt(schedule, elapsed)
        /\ \A i : /\ R!TargetAt(schedule, elapsed, i) = TargetAt(schedule, elapsed, i)
                  /\ R!AtLeast(R!NextRecheckIn(schedule, elapsed, v, i), Ms)
                        = AtLeast(NextRecheckIn(schedule, elapsed, v, i), Ms)
    BY SameSchedule, Zenon
  <2>2. CASE R!IsDone(schedule, elapsed)
    BY <2>2 DEF R!Check, R!To
  <2>3. CASE ~R!IsDone(schedule, elapsed)
    <3>1. PICK i \in StagesAt(schedule, elapsed) :
             \/ /\ v > TargetAt(schedule, elapsed, i) /\ state' = [state EXCEPT ![v] = "asleep"]
                /\ wake_at' = [wake_at EXCEPT ![v] =
                                 now + AtLeast(NextRecheckIn(schedule, elapsed, v, i), Ms)]
             \/ state' = [state EXCEPT ![v] = "run"] /\ wake_at' = wake_at
      <4>1. \E i \in R!StagesAt(schedule, elapsed) :
             \/ /\ v > R!TargetAt(schedule, elapsed, i) /\ state' = [state EXCEPT ![v] = "asleep"]
                /\ wake_at' = [wake_at EXCEPT ![v] =
                                 now + R!AtLeast(R!NextRecheckIn(schedule, elapsed, v, i), Ms)]
             \/ state' = [state EXCEPT ![v] = "run"] /\ wake_at' = wake_at
        BY <2>3 DEF R!Check, R!To
      <4> QED
        BY <2>1, <4>1
    <3> QED
      BY <2>1, <2>3, <3>1
  <2> QED
    BY <2>2, <2>3
<1> HIDE DEF elapsed
<1>7. CASE wake_at' = wake_at /\ \E st \in {"ended", "run"} : state' = [state EXCEPT ![v] = st]
  <2>1. R!RampingTypeOK'
    BY <1>2, <1>3, <1>5, <1>7 DEF R!RampingTypeOK
  <2>2. \A w \in Vus : state'[w] = "asleep" =>
            state[w] = "asleep" /\ seen'[w] = seen[w] /\ wake_at'[w] = wake_at[w]
    BY <1>2, <1>5, <1>7
  <2>3. R!Awake'
    BY <1>1, <1>2, <2>2 DEF RampInv, R!Awake
  <2> QED
    BY <1>2, <1>3, <2>1, <2>3 DEF RampInv
<1>8. ASSUME ~IsDone(schedule, elapsed), state' = [state EXCEPT ![v] = "asleep"],
             NEW i \in StagesAt(schedule, elapsed), v > TargetAt(schedule, elapsed, i),
             wake_at' = [wake_at EXCEPT ![v] =
                           now + AtLeast(NextRecheckIn(schedule, elapsed, v, i), Ms)]
      PROVE  RampInv'
  <2> DEFINE sleep == AtLeast(NextRecheckIn(schedule, elapsed, v, i), Ms)
  <2>1. sleep \in Nat
    <3>1. NextRecheckIn(schedule, elapsed, v, i) \in Int
      BY <1>1, <1>3, <1>4, RecheckType
    <3> QED
      BY <3>1, ScheduleAssumption DEF AtLeast
  <2>2. \A t \in (elapsed + Ms)..(elapsed + sleep - 1) : \A j \in StagesAt(schedule, t) :
            TargetAt(schedule, t, j) < v
    BY <1>1, <1>3, <1>4, <1>8, RecheckInTime
  <2>3. wake_at' = [wake_at EXCEPT ![v] = now + sleep]
    BY <1>8
  <2> HIDE DEF sleep
  <2>4. now + sleep \in Nat /\ (now + sleep) - opened - 1 = elapsed + sleep - 1
    BY <1>3, <2>1 DEF elapsed
  <2>5. R!RampingTypeOK'
    BY <1>2, <1>3, <1>5, <1>8, <2>3, <2>4 DEF R!RampingTypeOK
  <2>6. R!Awake'
    <3> SUFFICES ASSUME NEW w \in Vus, state'[w] = "asleep",
                        NEW t \in (seen'[w] + Ms)..(wake_at'[w] - opened' - 1),
                        NEW j \in R!StagesAt(schedule', t)
                 PROVE  R!TargetAt(schedule', t, j) < w
      BY DEF R!Awake
    <3>1. CASE w = v
      <4>1. seen'[w] = elapsed /\ wake_at'[w] = now + sleep
        BY <1>2, <1>5, <2>3, <3>1
      <4>2. t \in (elapsed + Ms)..(elapsed + sleep - 1)
        BY <1>2, <2>4, <4>1
      <4> QED
        BY <1>2, <2>2, <3>1, <4>2, SameSchedule
    <3>2. CASE w # v
      <4>1. state[w] = "asleep" /\ seen'[w] = seen[w] /\ wake_at'[w] = wake_at[w]
        BY <1>2, <1>5, <1>8, <2>3, <3>2
      <4> QED
        BY <1>1, <1>2, <4>1 DEF RampInv, R!Awake
    <3> QED
      BY <3>1, <3>2
  <2> QED
    BY <1>2, <1>3, <2>5, <2>6 DEF RampInv
<1> QED
  BY <1>6, <1>7, <1>8

LEMMA ERamping ==
    ASSUME EInv, NEW v \in Vus, RampingStep(v)
    PROVE  EInv'
<1>1. /\ phase = "ramping" /\ R!Step(v) /\ UNCHANGED <<vars, scenario>>
      /\ TypeOK /\ IInv /\ CounterInv /\ ScenarioInv /\ ClockInv /\ RampInv
  BY DEF RampingStep, EInv, IInv
<1>2. UNCHANGED vars /\ phase' = phase /\ input' = input /\ spawned' = spawned
      /\ schedule' = schedule /\ opened' = opened /\ now' = now
  BY <1>1 DEF scenario, vars
<1>3. IInv' /\ CounterInv'
  BY <1>1, <1>2, InvStep, CounterStep
<1>4. ScenarioInv' /\ ClockInv'
  BY <1>1, <1>2 DEF ScenarioInv, ClockInv
<1>5. RampInv'
  <2>1. CASE R!Check(v)
    BY <1>1, <2>1, ECheck
  <2>2. CASE R!Start(v) \/ R!Wake(v) \/ R!RunOne(v)
    <3>1. /\ state \in [Vus -> {"await_start", "check", "asleep", "run", "ended", "failed"}]
          /\ opened = None => \A w \in Vus : state[w] = "await_start"
      BY <1>1 DEF RampInv, R!RampingTypeOK
    <3>2. PICK st \in {"check", "failed"} : state' = [state EXCEPT ![v] = st]
      BY <2>2 DEF R!Start, R!Wake, R!RunOne, R!To
    <3>3. seen' = seen /\ wake_at' = wake_at /\ opened # None
      BY <2>2, <3>1 DEF R!Start, R!Wake, R!RunOne
    <3>4. R!RampingTypeOK'
      BY <1>1, <3>1, <3>2, <3>3 DEF RampInv, R!RampingTypeOK
    <3>5. \A w \in Vus : state'[w] = "asleep" => state[w] = "asleep"
      BY <3>1, <3>2
    <3>6. R!Awake'
      BY <1>1, <1>2, <3>3, <3>5 DEF RampInv, R!Awake
    <3> QED
      BY <1>2, <3>3, <3>4, <3>6 DEF RampInv
  <2> QED
    BY <1>1, <2>1, <2>2 DEF R!Step
<1> QED
  BY <1>3, <1>4, <1>5 DEF EInv

LEMMA EStep == EInv /\ [ExecNext]_execVars => EInv'
<1> SUFFICES ASSUME EInv, [ExecNext]_execVars PROVE EInv'
  OBVIOUS
<1>1. CASE Resolve
  BY <1>1, EResolve
<1>2. CASE TickStep \/ OpenStep \/ \E v \in Vus : ConstantStep(v)
  BY <1>2, EGate
<1>3. CASE \E v \in Vus : RampingStep(v)
  BY <1>3, ERamping
<1>4. CASE UNCHANGED execVars
  <2>1. UNCHANGED <<vars, ramp, scenario>>
    BY <1>4 DEF execVars
  <2>2. IInv' /\ CounterInv'
    BY <2>1, InvStep, CounterStep DEF EInv
  <2>3. ScenarioInv' /\ ClockInv'
    BY <2>1 DEF EInv, ScenarioInv, ClockInv, vars, gate, vus, scenario
  <2>4. RampInv'
    BY <2>1 DEF EInv, RampInv, R!RampingTypeOK, R!Awake, vars, ramp, scenario
  <2> QED
    BY <2>2, <2>3, <2>4 DEF EInv
<1> QED
  BY <1>1, <1>2, <1>3, <1>4 DEF ExecNext

\* The inductive invariant of the executors holds throughout.
THEOREM ExecInvariant == ExecSpec => []EInv
BY EInit, EStep, PTL DEF ExecSpec

-----------------------------------------------------------------------------
(* What the runs check of the executors. *)

LEMMA TypesFollow == EInv => ExecTypeOK
<1> SUFFICES ASSUME EInv PROVE ExecTypeOK
  OBVIOUS
<1>1. TypeOK /\ CounterBounded
  BY CounterBound DEF EInv, IInv
<1>2. schedule.start \in Nat /\ schedule.stages \in StageLists
  BY DEF EInv, ScenarioInv, Schedules
<1>3. \A i \in DOMAIN schedule.stages :
         schedule.stages[i].duration \in Nat /\ schedule.stages[i].target \in Nat
  BY <1>2, StageTypes
<1> QED
  BY <1>1, <1>2, <1>3 DEF ExecTypeOK, EInv, ScenarioInv, RampInv

LEMMA OptionsFollow == EInv => AcceptedScenariosReady /\ FlagsWin
<1> SUFFICES ASSUME EInv, phase = "options", ~IsRefused(Resolved(input)),
                    NEW i \in DOMAIN Resolved(input).all
             PROVE  /\ Ready(Resolved(input).all[i])
                    /\ input.cli.vus # None => Resolved(input).all[i].executor
                                                  = [kind |-> "constant", vus |-> input.cli.vus]
                    /\ input.cli.iterations # None =>
                          Resolved(input).all[i].iterations = input.cli.iterations
                    /\ input.cli.duration # None =>
                          Resolved(input).all[i].duration = input.cli.duration
  BY DEF AcceptedScenariosReady, FlagsWin
<1>1. input \in Inputs
  BY DEF EInv, ScenarioInv
<1>2. Accepted(Resolved(input).all[i]) /\ Obeys(Resolved(input).all[i], input.cli)
  BY <1>1, ResolvedAccepted
<1> QED
  BY <1>2 DEF Accepted, Obeys

LEMMA ExportFollows == EInv => ExportRoundTrips
<1> SUFFICES ASSUME EInv, phase = "options", ~IsRefused(Resolved(input)),
                    NEW sets, sets = IF input.yaml THEN <<>> ELSE Load(input).thresholds,
                    NEW again, again = [doc |-> ExportDoc(Resolved(input).all, sets),
                                        yaml |-> TRUE, cli |-> NoFlags]
             PROVE  /\ Resolved(again) = [all |-> Resolved(input).all]
                    /\ DistinctSelectors(sets) =>
                          Load(again).thresholds = {sets[i] : i \in DOMAIN sets}
  BY DEF ExportRoundTrips
<1>1. input \in Inputs
  BY DEF EInv, ScenarioInv
<1>2. /\ IsList(Resolved(input).all) /\ Resolved(input).all # <<>>
      /\ \A i \in DOMAIN Resolved(input).all :
            Whole(Resolved(input).all[i]) /\ Resolved(input).all[i].name # None
  BY <1>1, ResolvedAccepted
<1>3. ~IsRefused(Load(input))
  BY DEF Resolved
<1>4. AreThresholds(sets)
  <2>1. AreThresholds(<<>>)
    BY DEF AreThresholds
  <2> QED
    BY <1>1, <1>3, <2>1, LoadType
<1> QED
  BY <1>2, <1>4, ExportAgain

LEMMA ScheduleFollows == EInv => ScheduleFollowed
<1> SUFFICES ASSUME EInv PROVE ScheduleFollowed
  OBVIOUS
<1>1. schedule \in Schedules /\ R!Awake
  BY DEF EInv, ScenarioInv, RampInv
<1>2. NoOversleep
  BY <1>1 DEF NoOversleep
<1>3. TargetsCovered
  <2> SUFFICES ASSUME phase = "ramping", NEW t \in 0..TotalDuration(schedule),
                      NEW i \in StagesAt(schedule, t), NEW v \in 1..TargetAt(schedule, t, i)
               PROVE  v \in spawned
    BY DEF TargetsCovered
  <2>1. /\ TargetAt(schedule, t, i) \in Nat
        /\ TargetAt(schedule, t, i) <= StagesMax(schedule.start, schedule.stages)
    BY <1>1, TargetAtMost
  <2>2. StagesMax(schedule.start, schedule.stages) \in Nat
    BY <1>1, MaxFacts
  <2>3. v \in 1..StagesMax(schedule.start, schedule.stages)
    BY <2>1, <2>2
  <2> QED
    BY <2>3 DEF EInv, ScenarioInv
<1>4. SnapshotConsistent
  <2> SUFFICES ASSUME opened # None,
                      NEW i \in StagesAt(schedule, AtMost(now - opened, TotalDuration(schedule)))
               PROVE  LET t  == now - opened
                          at == AtMost(t, TotalDuration(schedule))
                          s  == SnapshotAt(schedule, t, i)
                      IN /\ s.stage_elapsed >= 0 /\ s.stage_remaining >= 0
                         /\ s.stage_elapsed + s.stage_remaining = schedule.stages[s.index].duration
                         /\ Ends(schedule)[s.index - 1] + s.stage_elapsed = at
                         /\ \/ at = 0 /\ s.current_target = schedule.start
                            \/ /\ s.start_target <= s.current_target
                               /\ s.current_target <= s.end_target
                            \/ /\ s.end_target <= s.current_target
                               /\ s.current_target <= s.start_target
    BY DEF SnapshotConsistent
  <2>1. now - opened \in Nat
    BY GateAssumption DEF EInv, IInv, TypeOK, ClockInv
  <2> DEFINE t == now - opened
  <2>2. t \in Nat /\ i \in StagesAt(schedule, AtMost(t, TotalDuration(schedule)))
    BY <2>1
  <2> HIDE DEF t
  <2>3. LET at == AtMost(t, TotalDuration(schedule))
            x  == SnapshotAt(schedule, t, i)
        IN /\ x.stage_elapsed >= 0 /\ x.stage_remaining >= 0
           /\ x.stage_elapsed + x.stage_remaining = schedule.stages[x.index].duration
           /\ Ends(schedule)[x.index - 1] + x.stage_elapsed = at
           /\ \/ at = 0 /\ x.current_target = schedule.start
              \/ x.start_target <= x.current_target /\ x.current_target <= x.end_target
              \/ x.end_target <= x.current_target /\ x.current_target <= x.start_target
    BY <1>1, <2>2, SnapshotFacts
  <2> QED
    BY <2>3 DEF t
<1> QED
  BY <1>2, <1>3, <1>4 DEF ScheduleFollowed

\* The variables of the gate, the ramp and the scenario have their types, and the
\* gate's counter cannot wrap, whatever the options were.
THEOREM TypesInExecutors == ExecSpec => []ExecTypeOK
BY ExecInvariant, TypesFollow, PTL

\* A constant-vus scenario that comes from the options gets exactly the iterations
\* that they allow: not one too many, not one too few, not one too late.
THEOREM GrantsInExecutors == ExecSpec => []GrantsExact
<1>1. EInv => GrantsExact
  BY Consequences DEF EInv, GrantsExact
<1> QED
  BY <1>1, ExecInvariant, PTL

\* scenarios_from_options accepts no scenario that its executor cannot run.
THEOREM ScenariosReady == ExecSpec => []AcceptedScenariosReady
BY ExecInvariant, OptionsFollow, PTL

\* The flags of the command line win in every scenario, whatever its executor.
THEOREM FlagsAlwaysWin == ExecSpec => []FlagsWin
BY ExecInvariant, OptionsFollow, PTL

\* Flags win, and a scenario that is exported and run again is the same scenario, with
\* the same thresholds as long as no two sets have one selector: whatever it came from.
THEOREM OptionsKept == ExecSpec => []OptionsFaithful
BY ExecInvariant, OptionsFollow, ExportFollows, PTL DEF OptionsFaithful

\* No ramping-vus VU sleeps through its time, there is a VU for every target, and the
\* stage of the progress line is the one that runs: for all stages, also of no length.
THEOREM RampFollowsSchedule == ExecSpec => []ScheduleFollowed
BY ExecInvariant, ScheduleFollows, PTL
=============================================================================
