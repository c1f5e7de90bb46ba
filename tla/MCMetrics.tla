----------------------------- MODULE MCMetrics ------------------------------
(* A small instance of MetricsParts. *)
EXTENDS MetricsParts, RecordingInputs

OwnShards == <<"s1", "s2">>

\* Nothing tells one task of the registry from another.
TaskSymmetry == Permutations(Tasks)
=============================================================================
