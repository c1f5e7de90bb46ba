---------------------------- MODULE ArrivalPacer ----------------------------
(***************************************************************************)
(* The ramping-arrival-rate executor: the lock-free token counter          *)
(* ArrivalPacer (wrkr-core/src/pacer.rs), the task that feeds it every     *)
(* 10 ms (wrkr-core/src/run.rs, end of run_scenarios) and the loop in      *)
(* which every virtual user claims tokens and runs iterations              *)
(* (wrkr-lua/src/vu.rs, VuWork::RampingArrivalRate).                       *)
(*                                                                         *)
(* One step is one access to shared state.  Accesses are merged only where *)
(* nobody else can tell: scheduled_total, dropped_total and active_vus are *)
(* written by the feeding task alone, and a pair of loads of claimed_total *)
(* and scheduled_total, both of which only grow, has the outcomes of one   *)
(* load of the pair followed by a compare-exchange that may fail.          *)
(*                                                                         *)
(* tokio::sync::Notify is external: notify_waiters wakes exactly the       *)
(* futures that notified() has already created.                            *)
(***************************************************************************)
EXTENDS Integers

CONSTANTS PreAllocatedVus, \* pre_allocated_vus
          MaxVus,          \* max_vus: this many VU tasks are spawned
          MaxTicks,        \* ticks of the feeding task that fit in the schedule
          MaxDue           \* most iterations that become due in one tick

\* What scenarios_from_options has checked of a ramping-arrival-rate scenario.
ASSUME PacerAssumption ==
    /\ MaxVus \in Nat \ {0}
    /\ PreAllocatedVus \in 1..MaxVus
    /\ MaxTicks \in Nat
    /\ MaxDue \in Nat

\* The virtual users of the scenario, named by their scenario_vu.
Vus == 1..MaxVus

VARIABLES
    scheduled_total, claimed_total, dropped_total, active_vus, done,
    parked,        \* VUs whose Notified future exists and has not been woken
    over,          \* elapsed >= schedule.total_duration()
    pacer_pc,      \* control state of the feeding task
    ticks,         \* ticks taken so far
    add_due,       \* the argument of the update_due in progress
    pacer_claimed, \* the feeding task's last load of claimed_total
    pc,            \* control state of each VU
    seen,          \* each VU's last load of claimed_total
    due_total,     \* history: sum of all add_due so far
    tokens         \* history: the tokens each VU has claimed

pacerVars == <<pacer_pc, ticks, add_due, pacer_claimed, due_total>>
vuVars    == <<pc, seen, tokens>>
counters  == <<scheduled_total, claimed_total, dropped_total, active_vus, done>>
vars      == <<counters, parked, over, pacerVars, vuVars>>

Init ==
    /\ scheduled_total = 0
    /\ claimed_total = 0
    /\ dropped_total = 0
    /\ active_vus = PreAllocatedVus
    /\ done = FALSE
    /\ parked = {}
    /\ over = FALSE
    /\ pacer_pc = "tick"
    /\ ticks = 0
    /\ add_due = 0
    /\ pacer_claimed = 0
    /\ pc = [v \in Vus |-> "loop"]
    /\ seen = [v \in Vus |-> 0]
    /\ due_total = 0
    /\ tokens = [v \in Vus |-> {}]

-----------------------------------------------------------------------------
(* Time.  The schedule's total duration passes while everybody runs. *)

TimeUp ==
    /\ ~over
    /\ over' = TRUE
    /\ UNCHANGED <<counters, parked, pacerVars, vuVars>>

-----------------------------------------------------------------------------
(* The feeding task. *)

\* saturating_sub
Monus(a, b) == IF a >= b THEN a - b ELSE 0

Least(a, b) == IF a <= b THEN a ELSE b

Greatest(a, b) == IF a >= b THEN a ELSE b

\* interval.tick() fires before the schedule's end; `due` iterations have
\* become due.  Whatever the rate and the carry, `due` is some small number.
Tick(due) ==
    /\ pacer_pc = "tick"
    /\ ~over
    /\ ticks < MaxTicks
    /\ ticks' = ticks + 1
    /\ add_due' = due
    /\ due_total' = due_total + due
    /\ pacer_pc' = IF due = 0 THEN "adapt" ELSE "load"
    /\ UNCHANGED <<counters, parked, over, pacer_claimed, vuVars>>

LoadBacklog ==
    /\ pacer_pc = "load"
    /\ pacer_claimed' = claimed_total
    /\ pacer_pc' = "add"
    /\ UNCHANGED <<counters, parked, over, ticks, add_due, due_total, vuVars>>

\* allowed_to_add, from a claimed_total that may be out of date by now.
ToAdd ==
    LET backlog == Monus(scheduled_total, pacer_claimed)
    IN  Least(add_due, Monus(Greatest(MaxVus, 1), backlog))

\* dropped
ToDrop == Monus(add_due, ToAdd)

\* Mutant of AddDue: what is dropped is scheduled all the same.
AddDueTwice ==
    /\ pacer_pc = "add"
    /\ scheduled_total' = scheduled_total + ToAdd + ToDrop
    /\ dropped_total' = dropped_total + ToDrop
    /\ pacer_pc' = "adapt"
    /\ UNCHANGED <<claimed_total, active_vus, done, parked, over>>
    /\ UNCHANGED <<ticks, add_due, pacer_claimed, due_total, vuVars>>

AddDue ==
    /\ pacer_pc = "add"
    /\ scheduled_total' = scheduled_total + ToAdd
    /\ dropped_total' = dropped_total + ToDrop
    /\ pacer_pc' = "adapt"
    /\ UNCHANGED <<claimed_total, active_vus, done, parked, over>>
    /\ UNCHANGED <<ticks, add_due, pacer_claimed, due_total, vuVars>>

LoadForActive ==
    /\ pacer_pc = "adapt"
    /\ pacer_claimed' = claimed_total
    /\ pacer_pc' = "store"
    /\ UNCHANGED <<counters, parked, over, ticks, add_due, due_total, vuVars>>

\* Mutant of DesiredVus: the clamp is missing.
DesiredVusUnclamped ==
    LET backlog == Monus(scheduled_total, pacer_claimed)
    IN  IF backlog = 0 THEN PreAllocatedVus ELSE Greatest(PreAllocatedVus, backlog + 1)

\* update_active_vus: the adaptive policy, clamped to 1..max_vus.
DesiredVus ==
    LET backlog == Monus(scheduled_total, pacer_claimed)
        desired == IF backlog = 0 THEN PreAllocatedVus
                   ELSE Greatest(PreAllocatedVus, backlog + 1)
    IN  Greatest(1, Least(desired, MaxVus))

\* With nothing due, update_due returns without waking anybody.
StoreActive ==
    /\ pacer_pc = "store"
    /\ active_vus' = DesiredVus
    /\ pacer_pc' = IF add_due = 0 THEN "tick" ELSE "notify"
    /\ UNCHANGED <<scheduled_total, claimed_total, dropped_total, done>>
    /\ UNCHANGED <<parked, over, ticks, add_due, pacer_claimed, due_total, vuVars>>

\* The wake-up that ends update_due.
NotifyUpdate ==
    /\ pacer_pc = "notify"
    /\ parked' = {}
    /\ pacer_pc' = "tick"
    /\ UNCHANGED <<counters, over, ticks, add_due, pacer_claimed, due_total, vuVars>>

\* The tick that finds elapsed >= total_duration leaves the loop and stores
\* the flag of mark_done...
StoreDone ==
    /\ pacer_pc = "tick"
    /\ over
    /\ done' = TRUE
    /\ pacer_pc' = "notify_done"
    /\ UNCHANGED <<scheduled_total, claimed_total, dropped_total, active_vus>>
    /\ UNCHANGED <<parked, over, ticks, add_due, pacer_claimed, due_total, vuVars>>

\* Mutant of NotifyDone: the flag is set but nobody is woken.
NotifyDoneSilent ==
    /\ pacer_pc = "notify_done"
    /\ pacer_pc' = "ended"
    /\ UNCHANGED <<counters, parked, over, ticks, add_due, pacer_claimed, due_total, vuVars>>

\* ...and then wakes every waiter, for the last time.
NotifyDone ==
    /\ pacer_pc = "notify_done"
    /\ parked' = {}
    /\ pacer_pc' = "ended"
    /\ UNCHANGED <<counters, over, ticks, add_due, pacer_claimed, due_total, vuVars>>

PacerStep ==
    \/ \E due \in 0..MaxDue : Tick(due)
    \/ LoadBacklog
    \/ AddDue
    \/ LoadForActive
    \/ StoreActive
    \/ NotifyUpdate
    \/ StoreDone
    \/ NotifyDone

-----------------------------------------------------------------------------
(* A virtual user. *)

Goto(v, to) == pc' = [pc EXCEPT ![v] = to]

\* Top of the loop: once the schedule and the pacer are done, go on claiming
\* whether or not this VU is active.
CheckDone(v) ==
    /\ pc[v] = "loop"
    /\ Goto(v, IF over /\ done THEN "claim" ELSE "active")
    /\ UNCHANGED <<counters, parked, over, pacerVars, seen, tokens>>

\* Only some VUs are active; the others wait for an update.
CheckActive(v) ==
    /\ pc[v] = "active"
    /\ Goto(v, IF v > active_vus THEN "await_update" ELSE "claim")
    /\ UNCHANGED <<counters, parked, over, pacerVars, seen, tokens>>

\* claim_next, first half of the loop body: false ends the VU's loop.
ClaimOrStop(v) ==
    /\ pc[v] = "claim"
    /\ Goto(v, IF done /\ claimed_total >= scheduled_total THEN "stopped" ELSE "load")
    /\ UNCHANGED <<counters, parked, over, pacerVars, seen, tokens>>

\* claim_next, second half: nothing to claim means waiting for a wake-up.
ClaimLoad(v) ==
    /\ pc[v] = "load"
    /\ seen' = [seen EXCEPT ![v] = claimed_total]
    /\ Goto(v, IF claimed_total < scheduled_total THEN "exchange" ELSE "await_claim")
    /\ UNCHANGED <<counters, parked, over, pacerVars, tokens>>

\* Mutant of ClaimExchange: a plain store instead of a compare-exchange.
ClaimStore(v) ==
    /\ pc[v] = "exchange"
    /\ claimed_total' = seen[v] + 1
    /\ tokens' = [tokens EXCEPT ![v] = @ \union {seen[v] + 1}]
    /\ Goto(v, "run")
    /\ UNCHANGED <<scheduled_total, dropped_total, active_vus, done>>
    /\ UNCHANGED <<parked, over, pacerVars, seen>>

\* compare_exchange_weak succeeds: the VU owns the next token.
ClaimExchange(v) ==
    /\ pc[v] = "exchange"
    /\ claimed_total = seen[v]
    /\ claimed_total' = seen[v] + 1
    /\ tokens' = [tokens EXCEPT ![v] = @ \union {seen[v] + 1}]
    /\ Goto(v, "run")
    /\ UNCHANGED <<scheduled_total, dropped_total, active_vus, done>>
    /\ UNCHANGED <<parked, over, pacerVars, seen>>

\* It fails when another VU was faster, or spuriously.
ClaimRetry(v) ==
    /\ pc[v] = "exchange"
    /\ Goto(v, "claim")
    /\ UNCHANGED <<counters, parked, over, pacerVars, seen, tokens>>

\* notify.notified() creates the future that the VU is about to await.
Park(v) ==
    /\ pc[v] \in {"await_update", "await_claim"}
    /\ parked' = parked \union {v}
    /\ Goto(v, IF pc[v] = "await_update" THEN "parked_update" ELSE "parked_claim")
    /\ UNCHANGED <<counters, over, pacerVars, seen, tokens>>

\* The future is ready: back to the loop of run_vu or of claim_next.
Wake(v) ==
    /\ pc[v] \in {"parked_update", "parked_claim"}
    /\ v \notin parked
    /\ Goto(v, IF pc[v] = "parked_update" THEN "loop" ELSE "claim")
    /\ UNCHANGED <<counters, parked, over, pacerVars, seen, tokens>>

\* run_one and record_iteration; an error of the script ends the VU's task.
RunOne(v) ==
    /\ pc[v] = "run"
    /\ \E next \in {"loop", "failed"} : Goto(v, next)
    /\ UNCHANGED <<counters, parked, over, pacerVars, seen, tokens>>

VuStep(v) ==
    \/ CheckDone(v)
    \/ CheckActive(v)
    \/ ClaimOrStop(v)
    \/ ClaimLoad(v)
    \/ ClaimExchange(v)
    \/ ClaimRetry(v)
    \/ Park(v)
    \/ Wake(v)
    \/ RunOne(v)

-----------------------------------------------------------------------------

Next == TimeUp \/ PacerStep \/ \E v \in Vus : VuStep(v)

\* Time passes, the runtime polls every ready task, an iteration of the
\* script ends, and a weak compare-exchange does not fail spuriously forever.
Fairness ==
    /\ WF_vars(TimeUp)
    /\ WF_vars(PacerStep)
    /\ \A v \in Vus : WF_vars(VuStep(v)) /\ SF_vars(ClaimExchange(v))

Spec == Init /\ [][Next]_vars /\ Fairness

-----------------------------------------------------------------------------
(* Properties. *)

PacerStates == {"tick", "load", "add", "adapt", "store", "notify", "notify_done", "ended"}

VuStates == {"loop", "active", "claim", "load", "exchange", "run", "await_update",
             "await_claim", "parked_update", "parked_claim", "stopped", "failed"}

Ended(v) == pc[v] \in {"stopped", "failed"}

\* Every variable has its type.  The adaptive policy of update_active_vus keeps
\* active_vus between 1 and max_vus, and a parked VU is one that awaits.
TypeOK ==
    /\ scheduled_total \in Nat
    /\ claimed_total \in Nat
    /\ dropped_total \in Nat
    /\ active_vus \in Vus
    /\ done \in BOOLEAN
    /\ parked \subseteq {v \in Vus : pc[v] \in {"parked_update", "parked_claim"}}
    /\ over \in BOOLEAN
    /\ pacer_pc \in PacerStates
    /\ ticks \in 0..MaxTicks
    /\ add_due \in 0..MaxDue
    /\ pacer_claimed \in Nat
    /\ pc \in [Vus -> VuStates]
    /\ seen \in [Vus -> Nat]
    /\ due_total \in Nat
    /\ tokens \in [Vus -> SUBSET Nat]

\* "We bound backlog to avoid accumulating a large queue": however the VUs'
\* claims fall between update_due's load of claimed_total and its fetch_add,
\* no more than max_vus tokens wait, and none is claimed before it exists.
BoundedBacklog ==
    /\ claimed_total <= scheduled_total
    /\ scheduled_total - claimed_total <= MaxVus

\* The compare-exchange of claim_next gives a token to one VU only, and no
\* token is skipped: the VUs' tokens partition 1..claimed_total.
EachTokenOnce ==
    /\ \A v, w \in Vus : v # w => tokens[v] \intersect tokens[w] = {}
    /\ UNION {tokens[v] : v \in Vus} = 1..claimed_total

\* A VU leaves its loop only after the feeding task is done and every iteration
\* that ever became due has been claimed by some VU or counted as dropped.
DrainedOnStop ==
    \A v \in Vus : pc[v] = "stopped" =>
        /\ done
        /\ UNION {tokens[w] : w \in Vus} = 1..(due_total - dropped_total)

\* However the feeding task and the VUs interleave, tokens are scheduled within the
\* bound, claimed once, and all claimed before anybody stops.
TokensSound == BoundedBacklog /\ EachTokenOnce /\ DrainedOnStop

\* A VU that awaits a wake-up before the last notify_waiters is woken: what
\* update_due and mark_done guarantee to those who wait in time.
ParkedInTimeWakes ==
    \A v \in Vus : (v \in parked /\ pacer_pc # "ended") ~> (v \notin parked)

\* The atomics implement the bounded queue of IterationQueue.
Queue == INSTANCE IterationQueue
            WITH Workers <- Vus,
                 Capacity <- MaxVus,
                 scheduled <- scheduled_total,
                 taken <- claimed_total,
                 owned <- tokens,
                 closed <- done,
                 left <- {v \in Vus : Ended(v)}

\* Every behaviour of the executor is one of the bounded queue: tokens are
\* taken in order and once, and VUs leave a closed and empty queue or fail.
QueueSpec == Queue!Spec

\* "No more tokens will be scheduled; drain any remaining then stop": once the
\* pacer is done, every VU ends.
DrainsThenStops == done ~> \A v \in Vus : Ended(v)
=============================================================================
