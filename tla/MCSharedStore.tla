--------------------------- MODULE MCSharedStore ----------------------------
(* Small instances of SharedBarrier and SharedStore. *)
EXTENDS SharedBarrier

\* What set stores: any value that is no integer counts as 0.
MCOther == {Other}
=============================================================================
