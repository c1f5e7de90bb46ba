--------------------------- MODULE IterationQueue ---------------------------
(***************************************************************************)
(* What an open-model executor promises its virtual users, without the     *)
(* atomics and wake-ups that implement it: a bounded queue of iteration    *)
(* tokens, numbered from 1 in the order they were scheduled.  A token is   *)
(* taken by one worker only, in order; a worker leaves cleanly only after  *)
(* the queue is closed and empty.  A worker whose iteration raised an      *)
(* error may leave at any time.                                            *)
(***************************************************************************)
EXTENDS Integers

CONSTANTS Workers,   \* the workers that take tokens
          Capacity   \* how many scheduled tokens may wait at a time

VARIABLES scheduled, \* tokens 1..scheduled have been scheduled
          taken,     \* tokens 1..taken have been taken
          owned,     \* owned[w] is the set of tokens worker w took
          closed,    \* no more tokens will be scheduled
          left       \* workers that have left

qvars == <<scheduled, taken, owned, closed, left>>

Init ==
    /\ scheduled = 0
    /\ taken = 0
    /\ owned = [w \in Workers |-> {}]
    /\ closed = FALSE
    /\ left = {}

Offer ==
    /\ ~closed
    /\ scheduled' > scheduled
    /\ scheduled' - taken <= Capacity
    /\ UNCHANGED <<taken, owned, closed, left>>

Take(w) ==
    /\ w \notin left
    /\ taken < scheduled
    /\ taken' = taken + 1
    /\ owned' = [owned EXCEPT ![w] = @ \union {taken + 1}]
    /\ UNCHANGED <<scheduled, closed, left>>

Close ==
    /\ closed' = TRUE
    /\ UNCHANGED <<scheduled, taken, owned, left>>

\* A worker leaves cleanly.
Leave(w) ==
    /\ closed
    /\ taken = scheduled
    /\ left' = left \union {w}
    /\ UNCHANGED <<scheduled, taken, owned, closed>>

\* A worker leaves because the iteration of a token it owns raised an error.
Abandon(w) ==
    /\ owned[w] # {}
    /\ left' = left \union {w}
    /\ UNCHANGED <<scheduled, taken, owned, closed>>

Next ==
    \/ Offer
    \/ Close
    \/ \E w \in Workers : Take(w) \/ Leave(w) \/ Abandon(w)

Spec == Init /\ [][Next]_qvars
=============================================================================
