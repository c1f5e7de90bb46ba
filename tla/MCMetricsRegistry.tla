------------------------- MODULE MCMetricsRegistry --------------------------
(* Small instances of MetricsRegistry. *)
EXTENDS MetricsRegistry

\* Every metric in a shard of its own, or two of them in the same one.
OwnShards == <<"s1", "s2">>
OneShard  == <<"s1", "s1">>
=============================================================================
