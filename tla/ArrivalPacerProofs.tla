------------------------- MODULE ArrivalPacerProofs -------------------------
(***************************************************************************)
(* Proofs about the ramping-arrival-rate executor, for any number of VUs,  *)
(* ticks and due iterations: its type invariant, the bound on the backlog, *)
(* the uniqueness of tokens, that nothing due is forgotten when a VU       *)
(* stops, and that it implements the bounded queue of IterationQueue.      *)
(***************************************************************************)
EXTENDS ArrivalPacer, TLAPS

\* What the feeding task and the VUs remember of claimed_total is never ahead
\* of it, and what they computed from it is still a safe bound when used.
LocalsBehind ==
    /\ pacer_claimed <= claimed_total
    /\ pacer_pc = "add" => scheduled_total - pacer_claimed <= MaxVus
    /\ \A v \in Vus : seen[v] <= claimed_total
    /\ \A v \in Vus : pc[v] = "exchange" => seen[v] < scheduled_total

\* Every iteration that became due is scheduled, dropped or being added.
DueAccounted ==
    due_total = scheduled_total + dropped_total
                + (IF pacer_pc \in {"load", "add"} THEN add_due ELSE 0)

\* EachTokenOnce without the generalized union.
TokensPartition ==
    /\ \A v, w \in Vus : \A t \in Nat : t \in tokens[v] /\ t \in tokens[w] => v = w
    /\ \A v \in Vus : \A t \in tokens[v] : 1 <= t /\ t <= claimed_total
    /\ \A t \in 1..claimed_total : \E v \in Vus : t \in tokens[v]

\* The flag is raised when the feeding task has left its loop, and only then;
\* a VU that stopped has seen all tokens claimed.
DoneIsFinal ==
    /\ done <=> pacer_pc \in {"notify_done", "ended"}
    /\ \A v \in Vus : pc[v] = "stopped" => done /\ claimed_total = scheduled_total

\* A VU that runs an iteration owns its token.
RunnersOwn == \A v \in Vus : pc[v] = "run" => tokens[v] # {}

IInv ==
    /\ TypeOK
    /\ BoundedBacklog
    /\ LocalsBehind
    /\ DueAccounted
    /\ TokensPartition
    /\ DoneIsFinal
    /\ RunnersOwn

-----------------------------------------------------------------------------
(* The arithmetic of update_due and of update_active_vus. *)

\* What update_due adds and drops: together they are what was due, and adding
\* keeps the backlog, as the feeding task saw it, within max_vus.
LEMMA ToAddBounds ==
    ASSUME TypeOK, pacer_claimed <= scheduled_total,
           scheduled_total - pacer_claimed <= MaxVus
    PROVE  /\ ToAdd \in Nat
           /\ ToDrop \in Nat
           /\ ToAdd + ToDrop = add_due
           /\ scheduled_total + ToAdd - pacer_claimed <= MaxVus
BY PacerAssumption DEF TypeOK, ToAdd, ToDrop, Monus, Least, Greatest

\* The adaptive policy yields a number of VUs between 1 and max_vus.
LEMMA DesiredInRange ==
    ASSUME TypeOK
    PROVE  DesiredVus \in Vus
BY PacerAssumption DEF TypeOK, DesiredVus, Monus, Least, Greatest, Vus

-----------------------------------------------------------------------------
(* Type correctness. *)

LEMMA TypeInit == Init => TypeOK
<1> SUFFICES ASSUME Init PROVE TypeOK
  OBVIOUS
<1>1. 0 \in 0..MaxTicks /\ 0 \in 0..MaxDue /\ PreAllocatedVus \in Vus
  BY PacerAssumption DEF Vus
<1>2. pc \in [Vus -> VuStates] /\ seen \in [Vus -> Nat]
  BY DEF Init, VuStates
<1>3. tokens \in [Vus -> SUBSET Nat]
  BY DEF Init
<1> QED
  BY <1>1, <1>2, <1>3 DEF Init, TypeOK, PacerStates

LEMMA TypeStep == IInv /\ [Next]_vars => TypeOK'
<1> SUFFICES ASSUME IInv, [Next]_vars PROVE TypeOK'
  OBVIOUS
<1> USE DEF IInv
<1>1. CASE TimeUp
  BY <1>1 DEF TypeOK, TimeUp, counters, pacerVars, vuVars
<1>2. ASSUME NEW due \in 0..MaxDue, Tick(due) PROVE TypeOK'
  BY <1>2, PacerAssumption DEF TypeOK, Tick, counters, vuVars, PacerStates
<1>3. CASE LoadBacklog
  BY <1>3 DEF TypeOK, LoadBacklog, counters, vuVars, PacerStates
<1>4. CASE AddDue
  <2>1. ToAdd \in Nat /\ ToDrop \in Nat
    BY <1>4, ToAddBounds DEF AddDue, TypeOK, BoundedBacklog, LocalsBehind
  <2>2. scheduled_total' \in Nat /\ dropped_total' \in Nat
    BY <1>4, <2>1 DEF AddDue, TypeOK
  <2> QED
    BY <1>4, <2>2 DEF TypeOK, AddDue, vuVars, PacerStates
<1>5. CASE LoadForActive
  BY <1>5 DEF TypeOK, LoadForActive, counters, vuVars, PacerStates
<1>6. CASE StoreActive
  BY <1>6, DesiredInRange DEF TypeOK, StoreActive, vuVars, PacerStates
<1>7. CASE NotifyUpdate
  BY <1>7 DEF TypeOK, NotifyUpdate, counters, vuVars, PacerStates
<1>8. CASE StoreDone
  BY <1>8 DEF TypeOK, StoreDone, vuVars, PacerStates
<1>9. CASE NotifyDone
  BY <1>9 DEF TypeOK, NotifyDone, counters, vuVars, PacerStates
<1>10. ASSUME NEW v \in Vus, VuStep(v) PROVE TypeOK'
  <2> USE DEF counters, pacerVars, Goto, VuStates
  <2>1. CASE CheckDone(v)
    BY <1>10, <2>1 DEF TypeOK, CheckDone
  <2>2. CASE CheckActive(v)
    BY <1>10, <2>2 DEF TypeOK, CheckActive
  <2>3. CASE ClaimOrStop(v)
    BY <1>10, <2>3 DEF TypeOK, ClaimOrStop
  <2>4. CASE ClaimLoad(v)
    BY <1>10, <2>4 DEF TypeOK, ClaimLoad
  <2>5. CASE ClaimExchange(v)
    BY <1>10, <2>5 DEF TypeOK, ClaimExchange
  <2>6. CASE ClaimRetry(v)
    BY <1>10, <2>6 DEF TypeOK, ClaimRetry
  <2>7. CASE Park(v)
    BY <1>10, <2>7 DEF TypeOK, Park
  <2>8. CASE Wake(v)
    BY <1>10, <2>8 DEF TypeOK, Wake
  <2>9. CASE RunOne(v)
    BY <1>10, <2>9 DEF TypeOK, RunOne
  <2> QED
    BY <1>10, <2>1, <2>2, <2>3, <2>4, <2>5, <2>6, <2>7, <2>8, <2>9 DEF VuStep
<1>11. CASE UNCHANGED vars
  BY <1>11 DEF TypeOK, vars, counters, pacerVars, vuVars
<1> QED
  BY <1>1, <1>2, <1>3, <1>4, <1>5, <1>6, <1>7, <1>8, <1>9, <1>10, <1>11
  DEF Next, PacerStep

-----------------------------------------------------------------------------
(* The inductive invariant. *)

LEMMA InvInit == Init => IInv
<1> SUFFICES ASSUME Init PROVE IInv
  OBVIOUS
<1>1. TypeOK
  BY TypeInit
<1>2. BoundedBacklog /\ LocalsBehind /\ DueAccounted
  BY PacerAssumption DEF Init, BoundedBacklog, LocalsBehind, DueAccounted
<1>3. TokensPartition
  BY DEF Init, TokensPartition
<1>4. DoneIsFinal /\ RunnersOwn
  BY DEF Init, DoneIsFinal, RunnersOwn
<1> QED
  BY <1>1, <1>2, <1>3, <1>4 DEF IInv

\* The counters: the bound on the backlog survives the stale loads.
LEMMA CountersStep ==
    IInv /\ [Next]_vars => (BoundedBacklog /\ LocalsBehind /\ DueAccounted)'
<1> SUFFICES ASSUME IInv, [Next]_vars
             PROVE  (BoundedBacklog /\ LocalsBehind /\ DueAccounted)'
  OBVIOUS
<1> USE PacerAssumption DEF IInv, TypeOK, BoundedBacklog, LocalsBehind, DueAccounted
<1>1. CASE TimeUp
  BY <1>1 DEF TimeUp, counters, pacerVars, vuVars
<1>2. ASSUME NEW due \in 0..MaxDue, Tick(due)
      PROVE  (BoundedBacklog /\ LocalsBehind /\ DueAccounted)'
  BY <1>2 DEF Tick, counters, vuVars, DoneIsFinal
<1>3. CASE LoadBacklog
  BY <1>3 DEF LoadBacklog, counters, vuVars
<1>4. CASE AddDue
  <2>1. /\ ToAdd \in Nat
        /\ ToDrop \in Nat
        /\ ToAdd + ToDrop = add_due
        /\ scheduled_total + ToAdd - pacer_claimed <= MaxVus
    BY <1>4, ToAddBounds DEF AddDue
  <2>2. /\ scheduled_total' = scheduled_total + ToAdd
        /\ dropped_total' = dropped_total + ToDrop
        /\ pacer_pc = "add" /\ pacer_pc' = "adapt"
        /\ UNCHANGED <<claimed_total, add_due, pacer_claimed, due_total, pc, seen>>
    BY <1>4 DEF AddDue, vuVars
  <2>3. BoundedBacklog'
    BY <2>1, <2>2
  <2>4. LocalsBehind'
    BY <2>1, <2>2
  <2>5. DueAccounted'
    BY <2>1, <2>2
  <2> QED
    BY <2>3, <2>4, <2>5
<1>5. CASE LoadForActive
  BY <1>5 DEF LoadForActive, counters, vuVars
<1>6. CASE StoreActive
  BY <1>6 DEF StoreActive, vuVars
<1>7. CASE NotifyUpdate
  BY <1>7 DEF NotifyUpdate, counters, vuVars
<1>8. CASE StoreDone
  BY <1>8 DEF StoreDone, vuVars
<1>9. CASE NotifyDone
  BY <1>9 DEF NotifyDone, counters, vuVars
<1>10. ASSUME NEW v \in Vus, VuStep(v)
       PROVE  (BoundedBacklog /\ LocalsBehind /\ DueAccounted)'
  <2> USE DEF counters, pacerVars, Goto
  <2>1. CASE CheckDone(v)
    BY <1>10, <2>1 DEF CheckDone
  <2>2. CASE CheckActive(v)
    BY <1>10, <2>2 DEF CheckActive
  <2>3. CASE ClaimOrStop(v)
    BY <1>10, <2>3 DEF ClaimOrStop
  <2>4. CASE ClaimLoad(v)
    BY <1>10, <2>4 DEF ClaimLoad
  <2>5. CASE ClaimExchange(v)
    BY <1>10, <2>5 DEF ClaimExchange
  <2>6. CASE ClaimRetry(v)
    BY <1>10, <2>6 DEF ClaimRetry
  <2>7. CASE Park(v)
    BY <1>10, <2>7 DEF Park
  <2>8. CASE Wake(v)
    BY <1>10, <2>8 DEF Wake
  <2>9. CASE RunOne(v)
    BY <1>10, <2>9 DEF RunOne
  <2> QED
    BY <1>10, <2>1, <2>2, <2>3, <2>4, <2>5, <2>6, <2>7, <2>8, <2>9 DEF VuStep
<1>11. CASE UNCHANGED vars
  BY <1>11 DEF vars, counters, pacerVars, vuVars
<1> QED
  BY <1>1, <1>2, <1>3, <1>4, <1>5, <1>6, <1>7, <1>8, <1>9, <1>10, <1>11
  DEF Next, PacerStep

\* Only a successful compare-exchange changes the tokens, and the token it
\* hands out is new.
LEMMA TokensStep == IInv /\ [Next]_vars => TokensPartition'
<1> SUFFICES ASSUME IInv, [Next]_vars PROVE TokensPartition'
  OBVIOUS
<1> USE DEF IInv
<1>1. ASSUME UNCHANGED <<claimed_total, tokens>> PROVE TokensPartition'
  BY <1>1 DEF TokensPartition
<1>2. ASSUME NEW v \in Vus, ClaimExchange(v) PROVE TokensPartition'
  <2> DEFINE t0 == claimed_total + 1
  <2>1. claimed_total' = t0 /\ t0 \in Nat /\ claimed_total \in Nat
    BY <1>2 DEF ClaimExchange, TypeOK
  <2>2. \A w \in Vus : tokens'[w] = IF w = v THEN tokens[w] \union {t0} ELSE tokens[w]
    BY <1>2 DEF ClaimExchange, TypeOK
  <2>3. \A w \in Vus : t0 \notin tokens[w]
    BY <2>1 DEF TokensPartition, TypeOK
  <2>4. \A w \in Vus : \A t \in tokens[w] : t \in Nat /\ 1 <= t /\ t <= claimed_total
    BY DEF TokensPartition, TypeOK
  <2>5. ASSUME NEW w \in Vus, NEW t \in tokens'[w], t # t0 PROVE t \in tokens[w]
    <3>1. CASE w = v
      <4>1. tokens'[w] = tokens[w] \union {t0}
        BY <2>2, <3>1
      <4> QED
        BY <4>1, <2>5
    <3>2. CASE w # v
      BY <2>2, <2>5, <3>2
    <3> QED
      BY <3>1, <3>2
  <2>6. ASSUME NEW u \in Vus, NEW w \in Vus, NEW t \in Nat,
               t \in tokens'[u], t \in tokens'[w]
        PROVE  u = w
    <3>1. CASE t = t0
      <4>1. ASSUME u # v PROVE FALSE
        BY <2>2, <2>3, <2>6, <3>1, <4>1
      <4>2. ASSUME w # v PROVE FALSE
        BY <2>2, <2>3, <2>6, <3>1, <4>2
      <4> QED
        BY <4>1, <4>2
    <3>2. CASE t # t0
      <4>1. t \in tokens[u] /\ t \in tokens[w]
        BY <2>6, <2>5, <3>2
      <4> QED
        BY <4>1 DEF TokensPartition
    <3> QED
      BY <3>1, <3>2
  <2>7. ASSUME NEW w \in Vus, NEW t \in tokens'[w]
        PROVE  1 <= t /\ t <= claimed_total'
    <3>1. CASE t = t0
      BY <2>1, <3>1
    <3>2. CASE t # t0
      <4>1. t \in tokens[w]
        BY <2>7, <2>5, <3>2
      <4>2. t \in Nat /\ 1 <= t /\ t <= claimed_total
        BY <2>4, <4>1
      <4> QED
        BY <2>1, <4>2
    <3> QED
      BY <3>1, <3>2
  <2>8. \A t \in 1..claimed_total' : \E w \in Vus : t \in tokens'[w]
    <3>1. TAKE t \in 1..claimed_total'
    <3>2. CASE t = t0
      BY <1>2, <2>2, <3>2
    <3>3. CASE t # t0
      <4>1. t \in 1..claimed_total
        BY <2>1, <3>3
      <4> QED
        BY <2>2, <4>1 DEF TokensPartition
    <3> QED
      BY <3>2, <3>3
  <2> QED
    BY <2>6, <2>7, <2>8 DEF TokensPartition
<1>3. ASSUME NEW v \in Vus, VuStep(v), ~ClaimExchange(v) PROVE TokensPartition'
  BY <1>1, <1>3 DEF VuStep, CheckDone, CheckActive, ClaimOrStop, ClaimLoad,
     ClaimRetry, Park, Wake, RunOne, counters
<1>4. CASE TimeUp \/ PacerStep
  BY <1>1, <1>4 DEF TimeUp, PacerStep, Tick, LoadBacklog, AddDue, LoadForActive,
     StoreActive, NotifyUpdate, StoreDone, NotifyDone, counters, vuVars
<1>5. CASE UNCHANGED vars
  BY <1>1, <1>5 DEF vars, counters, vuVars
<1> QED
  BY <1>2, <1>3, <1>4, <1>5 DEF Next

\* Once the flag is up, no token is scheduled; a claim needs an unclaimed one.
LEMMA DoneStep == IInv /\ [Next]_vars => DoneIsFinal'
<1> SUFFICES ASSUME IInv, [Next]_vars PROVE DoneIsFinal'
  OBVIOUS
<1> USE DEF IInv, TypeOK, DoneIsFinal
<1>1. CASE TimeUp
  BY <1>1 DEF TimeUp, counters, pacerVars, vuVars
<1>2. CASE PacerStep
  BY <1>2 DEF PacerStep, Tick, LoadBacklog, AddDue, LoadForActive, StoreActive,
     NotifyUpdate, StoreDone, NotifyDone, counters, vuVars
<1>3. ASSUME NEW v \in Vus, VuStep(v) PROVE DoneIsFinal'
  <2> USE DEF counters, pacerVars, Goto
  <2>1. CASE CheckDone(v)
    BY <1>3, <2>1 DEF CheckDone
  <2>2. CASE CheckActive(v)
    BY <1>3, <2>2 DEF CheckActive
  <2>3. CASE ClaimOrStop(v)
    BY <1>3, <2>3 DEF ClaimOrStop, BoundedBacklog
  <2>4. CASE ClaimLoad(v)
    BY <1>3, <2>4 DEF ClaimLoad
  <2>5. CASE ClaimExchange(v)
    BY <1>3, <2>5 DEF ClaimExchange, LocalsBehind, BoundedBacklog
  <2>6. CASE ClaimRetry(v)
    BY <1>3, <2>6 DEF ClaimRetry
  <2>7. CASE Park(v)
    BY <1>3, <2>7 DEF Park
  <2>8. CASE Wake(v)
    BY <1>3, <2>8 DEF Wake
  <2>9. CASE RunOne(v)
    BY <1>3, <2>9 DEF RunOne
  <2> QED
    BY <1>3, <2>1, <2>2, <2>3, <2>4, <2>5, <2>6, <2>7, <2>8, <2>9 DEF VuStep
<1>4. CASE UNCHANGED vars
  BY <1>4 DEF vars, counters, pacerVars, vuVars
<1> QED
  BY <1>1, <1>2, <1>3, <1>4 DEF Next

\* An iteration is run only after a successful compare-exchange.
LEMMA RunnersStep == IInv /\ [Next]_vars => RunnersOwn'
<1> SUFFICES ASSUME IInv, [Next]_vars PROVE RunnersOwn'
  OBVIOUS
<1> USE DEF IInv, TypeOK, RunnersOwn
<1>1. CASE TimeUp \/ PacerStep
  BY <1>1 DEF TimeUp, PacerStep, Tick, LoadBacklog, AddDue, LoadForActive, StoreActive,
     NotifyUpdate, StoreDone, NotifyDone, counters, vuVars
<1>2. ASSUME NEW v \in Vus, ClaimExchange(v) PROVE RunnersOwn'
  <2>1. \A w \in Vus : tokens[w] \subseteq tokens'[w]
    BY <1>2 DEF ClaimExchange
  <2>2. tokens'[v] # {}
    BY <1>2 DEF ClaimExchange
  <2>3. \A w \in Vus : w # v => pc'[w] = pc[w]
    BY <1>2 DEF ClaimExchange, Goto
  <2> QED
    BY <2>1, <2>2, <2>3
<1>3. ASSUME NEW v \in Vus, VuStep(v), ~ClaimExchange(v) PROVE RunnersOwn'
  BY <1>3 DEF VuStep, CheckDone, CheckActive, ClaimOrStop, ClaimLoad, ClaimRetry,
     Park, Wake, RunOne, Goto, counters
<1>4. CASE UNCHANGED vars
  BY <1>4 DEF vars, vuVars
<1> QED
  BY <1>1, <1>2, <1>3, <1>4 DEF Next

\* The invariant the theorems below are drawn from is inductive.
THEOREM InductiveInvariant == Spec => []IInv
<1>1. Init => IInv
  BY InvInit
<1>2. IInv /\ [Next]_vars => IInv'
  BY TypeStep, CountersStep, TokensStep, DoneStep, RunnersStep DEF IInv
<1> QED
  BY <1>1, <1>2, PTL DEF Spec

-----------------------------------------------------------------------------
(* The theorems. *)

\* Every variable keeps its type; in particular update_active_vus never leaves
\* active_vus outside 1..max_vus.
THEOREM TypeCorrect == Spec => []TypeOK
BY InductiveInvariant, PTL DEF IInv

\* The queue of due iterations never exceeds max_vus tokens, although
\* update_due works with a claimed_total that other VUs have moved on.
THEOREM BacklogBounded == Spec => []BoundedBacklog
BY InductiveInvariant, PTL DEF IInv

LEMMA PartitionUnion ==
    ASSUME TypeOK, TokensPartition
    PROVE  UNION {tokens[v] : v \in Vus} = 1..claimed_total
<1>1. ASSUME NEW t \in UNION {tokens[v] : v \in Vus} PROVE t \in 1..claimed_total
  <2>1. PICK v \in Vus : t \in tokens[v]
    BY <1>1
  <2>2. t \in Nat /\ 1 <= t /\ t <= claimed_total
    BY <2>1 DEF TypeOK, TokensPartition
  <2> QED
    BY <2>2 DEF TypeOK
<1>2. ASSUME NEW t \in 1..claimed_total PROVE t \in UNION {tokens[v] : v \in Vus}
  BY <1>2 DEF TokensPartition
<1> QED
  BY <1>1, <1>2

LEMMA PartitionOnce == IInv => EachTokenOnce
<1> SUFFICES ASSUME IInv PROVE EachTokenOnce
  OBVIOUS
<1>1. ASSUME NEW v \in Vus, NEW w \in Vus, v # w
      PROVE  tokens[v] \intersect tokens[w] = {}
  <2>1. \A t \in tokens[v] : t \in Nat
    BY DEF IInv, TypeOK
  <2> QED
    BY <1>1, <2>1 DEF IInv, TokensPartition
<1> QED
  BY <1>1, PartitionUnion DEF IInv, EachTokenOnce

\* The compare-exchange loop of claim_next hands every token to one VU, and no
\* token is skipped, however many VUs compete.
THEOREM TokensUnique == Spec => []EachTokenOnce
BY InductiveInvariant, PartitionOnce, PTL

LEMMA DrainedFromInv == IInv => DrainedOnStop
<1> SUFFICES ASSUME IInv, NEW v \in Vus, pc[v] = "stopped"
             PROVE  done /\ UNION {tokens[w] : w \in Vus} = 1..(due_total - dropped_total)
  BY DEF DrainedOnStop
<1>1. done /\ claimed_total = scheduled_total
  BY DEF IInv, DoneIsFinal
<1>2. due_total = scheduled_total + dropped_total
  BY <1>1 DEF IInv, DoneIsFinal, DueAccounted, TypeOK
<1>3. due_total - dropped_total = claimed_total
  BY <1>1, <1>2 DEF IInv, TypeOK
<1> QED
  BY <1>1, <1>3, PartitionUnion DEF IInv

\* When a VU's loop ends, nothing that became due has been forgotten.
THEOREM StopsDrained == Spec => []DrainedOnStop
BY InductiveInvariant, DrainedFromInv, PTL

-----------------------------------------------------------------------------
(* The executor implements the bounded queue. *)

LEMMA QueueInit == Init => Queue!Init
BY DEF Init, Queue!Init, Ended

\* A step that changes neither the counters nor who has ended is a stutter.
LEMMA QueueStutter ==
    ASSUME TypeOK, UNCHANGED <<scheduled_total, claimed_total, tokens, done>>,
           \A w \in Vus : Ended(w)' <=> Ended(w)
    PROVE  UNCHANGED Queue!qvars
BY DEF Queue!qvars

\* A VU that ends is added to those who left.
LEMMA QueueLeft ==
    ASSUME TypeOK, NEW v \in Vus, pc' = [pc EXCEPT ![v] = pc'[v]], Ended(v)'
    PROVE  {w \in Vus : Ended(w)}' = {w \in Vus : Ended(w)} \union {v}
BY DEF TypeOK, Ended

LEMMA QueueStep == IInv /\ IInv' /\ [Next]_vars => [Queue!Next]_(Queue!qvars)
<1> SUFFICES ASSUME IInv, IInv', [Next]_vars PROVE [Queue!Next]_(Queue!qvars)
  OBVIOUS
<1> USE DEF IInv
<1>1. CASE TimeUp
  BY <1>1, QueueStutter DEF TimeUp, counters, vuVars, Ended
<1>2. CASE PacerStep
  <2>1. UNCHANGED <<pc, tokens>>
    BY <1>2 DEF PacerStep, Tick, LoadBacklog, AddDue, LoadForActive, StoreActive,
       NotifyUpdate, StoreDone, NotifyDone, counters, vuVars
  <2>2. UNCHANGED {w \in Vus : Ended(w)}
    BY <2>1 DEF Ended
  <2>3. CASE AddDue
    <3>1. scheduled_total' = scheduled_total + ToAdd /\ ToAdd \in Nat
      BY <2>3, ToAddBounds DEF AddDue, TypeOK, BoundedBacklog, LocalsBehind
    <3>2. UNCHANGED <<claimed_total, done>> /\ ~done
      BY <2>3 DEF AddDue, DoneIsFinal
    <3>3. CASE ToAdd = 0
      BY <2>1, <2>2, <3>1, <3>2, <3>3 DEF Queue!qvars, TypeOK
    <3>4. CASE ToAdd # 0
      <4>1. scheduled_total' > scheduled_total /\ scheduled_total' - claimed_total <= MaxVus
        BY <3>1, <3>2, <3>4 DEF TypeOK, BoundedBacklog
      <4> QED
        BY <2>1, <2>2, <3>2, <4>1 DEF Queue!Next, Queue!Offer
    <3> QED
      BY <3>3, <3>4
  <2>4. CASE StoreDone
    BY <2>1, <2>2, <2>4 DEF StoreDone, Queue!Next, Queue!Close
  <2>5. CASE ~AddDue /\ ~StoreDone
    <3>1. UNCHANGED <<scheduled_total, claimed_total, done>>
      BY <1>2, <2>5 DEF PacerStep, Tick, LoadBacklog, LoadForActive, StoreActive,
         NotifyUpdate, NotifyDone, counters
    <3> QED
      BY <2>1, <2>2, <3>1 DEF Queue!qvars
  <2> QED
    BY <2>3, <2>4, <2>5
<1>3. ASSUME NEW v \in Vus, VuStep(v) PROVE [Queue!Next]_(Queue!qvars)
  <2>1. CASE ClaimExchange(v)
    <3>1. UNCHANGED {w \in Vus : Ended(w)}
      BY <2>1 DEF ClaimExchange, Goto, TypeOK, Ended
    <3>2. v \notin {w \in Vus : Ended(w)}
      BY <2>1 DEF ClaimExchange, Ended
    <3>3. claimed_total < scheduled_total
      BY <1>3, <2>1 DEF ClaimExchange, LocalsBehind
    <3>4. claimed_total' = claimed_total + 1
          /\ tokens' = [tokens EXCEPT ![v] = @ \union {claimed_total + 1}]
          /\ UNCHANGED <<scheduled_total, done>>
      BY <2>1 DEF ClaimExchange
    <3> QED
      BY <1>3, <3>1, <3>2, <3>3, <3>4 DEF Queue!Next, Queue!Take
  <2>2. CASE ClaimOrStop(v)
    <3>1. UNCHANGED <<scheduled_total, claimed_total, tokens, done>>
      BY <2>2 DEF ClaimOrStop, counters
    <3>2. CASE done /\ claimed_total >= scheduled_total
      <4>1. pc' = [pc EXCEPT ![v] = pc'[v]] /\ Ended(v)'
        BY <1>3, <2>2, <3>2 DEF ClaimOrStop, Goto, TypeOK, Ended
      <4>2. {w \in Vus : Ended(w)}' = {w \in Vus : Ended(w)} \union {v}
        BY <4>1, QueueLeft
      <4>3. claimed_total = scheduled_total
        BY <3>2 DEF TypeOK, BoundedBacklog
      <4> QED
        BY <3>1, <3>2, <4>2, <4>3 DEF Queue!Next, Queue!Leave
    <3>3. CASE ~(done /\ claimed_total >= scheduled_total)
      <4>1. \A w \in Vus : Ended(w)' <=> Ended(w)
        BY <2>2, <3>3 DEF ClaimOrStop, Goto, TypeOK, Ended
      <4> QED
        BY <3>1, <4>1, QueueStutter
    <3> QED
      BY <3>2, <3>3
  <2>3. CASE RunOne(v)
    <3>1. UNCHANGED <<scheduled_total, claimed_total, tokens, done>>
      BY <2>3 DEF RunOne, counters
    <3>2. CASE pc'[v] = "failed"
      <4>1. pc' = [pc EXCEPT ![v] = pc'[v]] /\ Ended(v)'
        BY <1>3, <2>3, <3>2 DEF RunOne, Goto, TypeOK, Ended
      <4>2. {w \in Vus : Ended(w)}' = {w \in Vus : Ended(w)} \union {v}
        BY <4>1, QueueLeft
      <4>3. tokens[v] # {}
        BY <1>3, <2>3 DEF RunOne, RunnersOwn
      <4> QED
        BY <3>1, <4>2, <4>3 DEF Queue!Next, Queue!Abandon
    <3>3. CASE pc'[v] # "failed"
      <4>1. \A w \in Vus : Ended(w)' <=> Ended(w)
        BY <1>3, <2>3, <3>3 DEF RunOne, Goto, TypeOK, Ended
      <4> QED
        BY <3>1, <4>1, QueueStutter
    <3> QED
      BY <3>2, <3>3
  <2>4. CASE ~ClaimExchange(v) /\ ~ClaimOrStop(v) /\ ~RunOne(v)
    <3>1. UNCHANGED <<scheduled_total, claimed_total, tokens, done>>
      BY <1>3, <2>4 DEF VuStep, CheckDone, CheckActive, ClaimLoad, ClaimRetry, Park,
         Wake, counters
    <3>2. \A w \in Vus : Ended(w)' <=> Ended(w)
      BY <1>3, <2>4 DEF VuStep, CheckDone, CheckActive, ClaimLoad, ClaimRetry, Park,
         Wake, Goto, TypeOK, Ended
    <3> QED
      BY <3>1, <3>2, QueueStutter
  <2> QED
    BY <2>1, <2>2, <2>3, <2>4
<1>4. CASE UNCHANGED vars
  BY <1>4, QueueStutter DEF vars, counters, vuVars, Ended
<1> QED
  BY <1>1, <1>2, <1>3, <1>4 DEF Next

\* The tokens of update_due and claim_next are bounded in number, unique, and none
\* is left behind.
THEOREM TokensKept == Spec => []TokensSound
BY BacklogBounded, TokensUnique, StopsDrained, PTL DEF TokensSound

\* The refinement: every behaviour of the atomics, the feeding task and the VU
\* loops is a behaviour of the bounded queue.
THEOREM ImplementsQueue == Spec => QueueSpec
<1>1. IInv /\ IInv' /\ [Next]_vars => [Queue!Next]_(Queue!qvars)
  BY QueueStep
<1> QED
  BY <1>1, QueueInit, InductiveInvariant, PTL DEF Spec, QueueSpec, Queue!Spec
=============================================================================
