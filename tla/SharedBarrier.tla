--------------------------- MODULE SharedBarrier ----------------------------
(***************************************************************************)
(* All of wrkr/shared: the key/value half (SharedStore) and barrier_wait   *)
(* (wrkr-shared/src/store.rs).  The halves share the mutex and nothing     *)
(* else: a script uses the one or the other, by the initial uses.          *)
(*                                                                         *)
(* tokio::sync::Barrier is external: wait counts the caller; the last of   *)
(* the parties starts the next generation and announces the one that is    *)
(* complete, the others wait until theirs or a later one is announced.     *)
(***************************************************************************)
EXTENDS SharedStore, FiniteSets

CONSTANTS Names,    \* names of barriers
          Parties   \* arguments of barrier that scripts use

ASSUME PartiesAssumption ==
    /\ Parties \subseteq Nat
    /\ IsFiniteSet(Clients)

VARIABLES
    uses,        \* "keys" or "barriers"
    parties,     \* parties[b]: of the entry in inner.barriers, 0 if there is none
    arrived,     \* arrived[b]: callers counted in the current generation
    generation,  \* generation[b]: of the barrier; earlier ones are announced
    stage,       \* stage[c]: "out", "arrive" or "wait" of a barrier
    at,          \* at[c]: the barrier of the client's last call
    mine,        \* mine[c]: the generation in which c was counted
    passed,      \* passed[b]: history, calls that returned
    dropped      \* history: clients whose key was deleted after shared.wait saw it

barriers == <<uses, parties, arrived, generation, stage, at, mine, passed>>
allVars == <<vars, barriers, dropped>>

BarrierInit ==
    /\ Init
    /\ uses \in {"keys", "barriers"}
    /\ parties = [b \in Names |-> 0]
    /\ arrived = [b \in Names |-> 0]
    /\ generation = [b \in Names |-> 0]
    /\ stage = [c \in Clients |-> "out"]
    /\ at \in [Clients -> Names]
    /\ mine = [c \in Clients |-> 0]
    /\ passed = [b \in Names |-> 0]
    /\ dropped = {}

\* The key of these clients is deleted before shared.wait reads it.
Dropping == {c \in Clients : pc[c] = "wait_get" /\ values[key[c]] # Missing /\ values'[key[c]] = Missing}

\* A step of the key/value half.
Keyed ==
    /\ dropped' = {c \in dropped \union Dropping : pc'[c] = "wait_get"}
    /\ UNCHANGED barriers

ContinueStep(c) == uses = "keys" /\ Continue(c) /\ Keyed

BeginStep(c) == uses = "keys" /\ Begin(c) /\ Keyed

-----------------------------------------------------------------------------

\* Mutant of BarrierWait: other parties replace the entry.
BarrierReplace(c, b, n) ==
    /\ uses = "barriers"
    /\ stage[c] = "out" /\ calls[c] < MaxCalls
    /\ n > 0
    /\ parties' = [parties EXCEPT ![b] = n]
    /\ arrived' = [arrived EXCEPT ![b] = IF parties[b] = n THEN @ ELSE 0]
    /\ stage' = [stage EXCEPT ![c] = "arrive"]
    /\ at' = [at EXCEPT ![c] = b]
    /\ calls' = [calls EXCEPT ![c] = @ + 1]
    /\ UNCHANGED <<store, pc, key, seen, written, result, uses, generation, mine, passed, dropped>>

\* barrier_wait finds or creates the entry, under the mutex.  Parties that are zero or
\* not the entry's are refused, which changes nothing.
BarrierWait(c, b, n) ==
    /\ uses = "barriers"
    /\ stage[c] = "out" /\ calls[c] < MaxCalls
    /\ n > 0
    /\ parties[b] \in {0, n}
    /\ parties' = [parties EXCEPT ![b] = n]
    /\ stage' = [stage EXCEPT ![c] = "arrive"]
    /\ at' = [at EXCEPT ![c] = b]
    /\ calls' = [calls EXCEPT ![c] = @ + 1]
    /\ UNCHANGED <<store, pc, key, seen, written, result, uses, arrived, generation, mine, passed, dropped>>

\* wait of the last of the parties: all go on.
ArriveLast(c) ==
    LET b == at[c] IN
    /\ stage[c] = "arrive"
    /\ arrived[b] + 1 = parties[b]
    /\ arrived' = [arrived EXCEPT ![b] = 0]
    /\ generation' = [generation EXCEPT ![b] = @ + 1]
    /\ stage' = [stage EXCEPT ![c] = "out"]
    /\ passed' = [passed EXCEPT ![b] = @ + 1]
    /\ UNCHANGED <<vars, uses, parties, at, mine, dropped>>

\* wait of the others.
ArriveFirst(c) ==
    LET b == at[c] IN
    /\ stage[c] = "arrive"
    /\ arrived[b] + 1 # parties[b]
    /\ arrived' = [arrived EXCEPT ![b] = @ + 1]
    /\ stage' = [stage EXCEPT ![c] = "wait"]
    /\ mine' = [mine EXCEPT ![c] = generation[b]]
    /\ UNCHANGED <<vars, uses, parties, generation, at, passed, dropped>>

\* The generation, or a later one, is announced.
Released(c) == generation[at[c]] > mine[c]

Leave(c) ==
    /\ stage[c] = "wait"
    /\ Released(c)
    /\ stage' = [stage EXCEPT ![c] = "out"]
    /\ passed' = [passed EXCEPT ![at[c]] = @ + 1]
    /\ UNCHANGED <<vars, uses, parties, arrived, generation, at, mine, dropped>>

BarrierStep(c) == ArriveLast(c) \/ ArriveFirst(c) \/ Leave(c)

BarrierNext ==
    \E c \in Clients :
        \/ BeginStep(c)
        \/ ContinueStep(c)
        \/ \E b \in Names, n \in Parties : BarrierWait(c, b, n)
        \/ BarrierStep(c)

\* The runtime polls every ready task.
BarrierSpec ==
    /\ BarrierInit /\ [][BarrierNext]_allVars
    /\ \A c \in Clients : WF_allVars(ContinueStep(c) \/ BarrierStep(c))

-----------------------------------------------------------------------------
(* Properties. *)

WaitingAt(b) == {c \in Clients : stage[c] = "wait" /\ at[c] = b}

\* A barrier opens for whole groups of its parties: with those it has opened for but who
\* have not gone yet, the calls that returned are parties times generations, and all of
\* the others, fewer than the parties, are counted in the current generation.
BarrierWhole ==
    \A b \in Names :
        LET free == {c \in WaitingAt(b) : mine[c] < generation[b]}
        IN /\ passed[b] + Cardinality(free) = parties[b] * generation[b]
           /\ Cardinality(WaitingAt(b) \ free) = arrived[b]
           /\ arrived[b] = 0 \/ arrived[b] < parties[b]

\* Once a barrier has opened for a client, it gets through, even if others of the group
\* are so fast that the barrier opens again before.
BarrierReturns ==
    \A c \in Clients :
        (stage[c] = "wait" /\ mine[c] < generation[at[c]]) ~> (stage[c] = "out")

\* shared.wait reads the key again after wait_for_key saw it.  It returns nil only if
\* the key was deleted in between.
WaitSeesKey == \A c \in Clients : pc[c] = "wait_get" => Present(key[c]) \/ c \in dropped

\* Whoever waits gets through once what it waits for has happened: the key exists for
\* good, or the barrier has opened.
WaitersReturn == WaitReturns /\ BarrierReturns
=============================================================================
