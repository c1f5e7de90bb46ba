----------------------------- MODULE ActiveVus ------------------------------
(***************************************************************************)
(* The gauges vu_active and vu_active_max of a scenario:                   *)
(* VuContext::enter_active_vu and ActiveVuGuard::drop                      *)
(* (wrkr-core/src/vu.rs) over Registry::get_handle                         *)
(* (wrkr-metrics/src/registry.rs).  All VUs of a scenario enter at about   *)
(* the same time, right after the start signal.                            *)
(*                                                                         *)
(* get_handle is two steps: it looks the series up, and, if there was      *)
(* none, inserts a new one, whatever is there by then.  The locks it holds *)
(* meanwhile are shared ones and exclude nobody here (see                  *)
(* MetricsRegistry).                                                       *)
(***************************************************************************)
EXTENDS Integers, FiniteSets

CONSTANT Vus \* the VUs of one scenario

ASSUME GaugeAssumption == IsFiniteSet(Vus)

Metrics == {"active", "peak"}

VARIABLES
    gauges,   \* gauges[m]: the series of m in the registry, a number; 0 if none
    value,    \* value[g]: the value of gauge g, be it in the registry or not
    entering, \* the control state of each VU
    handle,   \* the gauge the VU got from its last get_handle
    mine,     \* new_active
    cur,      \* the VU's last reading of the peak
    remade,   \* history: a series was inserted over another one
    inside,   \* history: VUs counted by fetch_add and not yet by fetch_sub
    max_inside \* history: the largest size that `inside` had

registry  == <<gauges, value, remade>>
locals    == <<entering, handle, mine, cur>>
history   == <<inside, max_inside>>
gaugeVars == <<registry, locals, history>>

\* Gauges are numbered in the order of their creation; each VU creates at most
\* one for either metric.
Gauges == 1 .. 2 * Cardinality(Vus)

\* The gauges that have been created.
Created == {g \in Gauges : \E m \in Metrics : g <= gauges[m]}

GaugeInit ==
    /\ gauges = [m \in Metrics |-> 0]
    /\ value = [g \in Gauges |-> 0]
    /\ entering = [v \in Vus |-> "find_active"]
    /\ handle = [v \in Vus |-> 0]
    /\ mine = [v \in Vus |-> 0]
    /\ cur = [v \in Vus |-> 0]
    /\ remade = FALSE
    /\ inside = {}
    /\ max_inside = 0

MoveTo(v, to) == entering' = [entering EXCEPT ![v] = to]

-----------------------------------------------------------------------------
(* Registry::get_handle *)

\* The series is there, or it will have to be made.
Find(v, m, at, found, missing) ==
    /\ entering[v] = at
    /\ handle' = [handle EXCEPT ![v] = gauges[m]]
    /\ MoveTo(v, IF gauges[m] # 0 THEN found ELSE missing)
    /\ UNCHANGED <<registry, mine, cur, history>>

\* Mutant of Make: the insertion keeps a series that is there by now.
MakeIfAbsent(v, m, at, next) ==
    LET gauge == Cardinality(Created) + 1 IN
    /\ entering[v] = at
    /\ gauges' = [gauges EXCEPT ![m] = IF @ = 0 THEN gauge ELSE @]
    /\ handle' = [handle EXCEPT ![v] = gauge]
    /\ MoveTo(v, next)
    /\ UNCHANGED <<value, remade, mine, cur, history>>

\* A new gauge is inserted, over one that is there by now.
Make(v, m, at, next) ==
    LET gauge == Cardinality(Created) + 1 IN
    /\ entering[v] = at
    /\ gauges' = [gauges EXCEPT ![m] = gauge]
    /\ remade' = (remade \/ gauges[m] # 0)
    /\ handle' = [handle EXCEPT ![v] = gauge]
    /\ MoveTo(v, next)
    /\ UNCHANGED <<value, mine, cur, history>>

-----------------------------------------------------------------------------
(* enter_active_vu *)

FindActive(v) == Find(v, "active", "find_active", "add", "make_active")

MakeActive(v) == Make(v, "active", "make_active", "add")

\* fetch_add
Add(v) ==
    /\ entering[v] = "add"
    /\ value' = [value EXCEPT ![handle[v]] = @ + 1]
    /\ mine' = [mine EXCEPT ![v] = value[handle[v]] + 1]
    /\ MoveTo(v, "find_peak")
    /\ inside' = inside \union {v}
    /\ max_inside' = IF Cardinality(inside') > max_inside
                     THEN Cardinality(inside') ELSE max_inside
    /\ UNCHANGED <<gauges, remade, handle, cur>>

FindPeak(v) == Find(v, "peak", "find_peak", "load_peak", "make_peak")
MakePeak(v) == Make(v, "peak", "make_peak", "load_peak")

LoadPeak(v) ==
    /\ entering[v] = "load_peak"
    /\ cur' = [cur EXCEPT ![v] = value[handle[v]]]
    /\ MoveTo(v, "raise_peak")
    /\ UNCHANGED <<registry, handle, mine, history>>

\* Mutant of RaisePeak: a plain store.
StorePeak(v) ==
    /\ entering[v] = "raise_peak"
    /\ value' = [value EXCEPT ![handle[v]] = IF mine[v] > cur[v] THEN mine[v] ELSE @]
    /\ MoveTo(v, "inside")
    /\ UNCHANGED <<gauges, remade, handle, mine, cur, history>>

\* The loop: stop if the peak is high enough, try a compare-exchange if not,
\* and look again if it fails, spuriously or not.
RaisePeak(v) ==
    /\ entering[v] = "raise_peak"
    /\ \/ /\ mine[v] <= cur[v]
          /\ MoveTo(v, "inside")
          /\ UNCHANGED <<value, cur>>
       \/ /\ mine[v] > cur[v]
          /\ value[handle[v]] = cur[v]
          /\ value' = [value EXCEPT ![handle[v]] = mine[v]]
          /\ MoveTo(v, "inside")
          /\ UNCHANGED cur
       \/ /\ mine[v] > cur[v]
          /\ cur' = [cur EXCEPT ![v] = value[handle[v]]]
          /\ UNCHANGED <<value, entering>>
    /\ UNCHANGED <<gauges, remade, handle, mine, history>>

-----------------------------------------------------------------------------
(* ActiveVuGuard::drop looks the gauge up again. *)

FindDrop(v) == Find(v, "active", "inside", "sub", "make_drop")

\* fetch_sub
Sub(v) ==
    /\ entering[v] = "sub"
    /\ value' = [value EXCEPT ![handle[v]] = @ - 1]
    /\ inside' = inside \ {v}
    /\ MoveTo(v, "out")
    /\ UNCHANGED <<gauges, remade, handle, mine, cur, max_inside>>

VuStep(v) ==
    \/ FindActive(v)
    \/ MakeActive(v)
    \/ Add(v)
    \/ FindPeak(v)
    \/ MakePeak(v)
    \/ LoadPeak(v)
    \/ RaisePeak(v)
    \/ FindDrop(v)
    \/ Sub(v)

GaugeNext == \E v \in Vus : VuStep(v)

GaugeSpec == GaugeInit /\ [][GaugeNext]_gaugeVars

-----------------------------------------------------------------------------
(* Properties. *)

GaugeStates == {"find_active", "make_active", "add", "find_peak", "make_peak", "load_peak",
           "raise_peak", "inside", "sub", "out"}

\* Every variable has its type; in particular a VU updates a gauge that exists:
\* the series of vu_active is there when a guard is dropped.
GaugeTypeOK ==
    /\ gauges \in [Metrics -> Gauges \union {0}]
    /\ value \in [Gauges -> Int]
    /\ entering \in [Vus -> GaugeStates]
    /\ handle \in [Vus -> Gauges \union {0}]
    /\ mine \in [Vus -> Int]
    /\ cur \in [Vus -> Int]
    /\ remade \in BOOLEAN
    /\ inside \subseteq Vus
    /\ max_inside \in Nat

Settled == \A v \in Vus : entering[v] \in {"inside", "out"}

\* The value a summary shows for a metric.
Shown(m) == value[gauges[m]]

\* As long as no series was inserted over another, the gauge is the number of
\* VUs inside whatever the order of the atomics, and the compare-exchange loop
\* keeps the largest number there has been.
ExactUnlessRaced ==
    ~remade =>
        /\ gauges["active"] # 0 => Shown("active") = Cardinality(inside)
        /\ Settled /\ Vus # {} => Shown("peak") = max_inside

Entered == {v \in Vus : entering[v] \notin {"find_active", "make_active", "add"}}

\* Raced or not, neither gauge ever shows more VUs than have entered so far.
NeverOverstated ==
    \A m \in Metrics : gauges[m] # 0 => Shown(m) <= Cardinality(Entered)

\* The compare-exchange loop never lowers a peak.
PeakNeverFalls ==
    [][\A g \in Gauges : g = gauges["peak"] => value'[g] >= value[g]]_gaugeVars

\* "Track the peak active VUs during the run", "CAS loop to keep the max without
\* races": when everybody has entered, the peak is the largest number of VUs
\* that were active at a time.
PeakTracked == Settled /\ Vus # {} => Shown("peak") = max_inside
=============================================================================
