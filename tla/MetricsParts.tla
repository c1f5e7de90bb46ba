---------------------------- MODULE MetricsParts ----------------------------
(***************************************************************************)
(* The three models of the metrics: the locks of the registry              *)
(* (MetricsRegistry), the gauges of active VUs (ActiveVus) and what VUs    *)
(* record (Recording).  They share Registry::get_handle and look at        *)
(* different sides of it, so that a behaviour is one of one of them:       *)
(* `part` says of which.                                                   *)
(***************************************************************************)
EXTENDS MetricsRegistry, ActiveVus, Recording

VARIABLE part

PartsInit ==
    /\ part \in {"registry", "gauges", "recording"}
    /\ Init
    /\ GaugeInit
    /\ RecordInit
    /\ part # "recording" => plan = CHOOSE p \in Plans : TRUE

PartsNext ==
    \/ /\ part = "registry"
       /\ Next
       /\ UNCHANGED <<part, gaugeVars, recordVars>>
    \/ /\ part = "gauges"
       /\ GaugeNext
       /\ UNCHANGED <<part, vars, recordVars>>
    \/ /\ part = "recording"
       /\ RecordNext
       /\ UNCHANGED <<part, vars, gaugeVars>>

partsVars == <<part, vars, gaugeVars, recordVars>>

PartsSpec == PartsInit /\ [][PartsNext]_partsVars

-----------------------------------------------------------------------------
(* Properties. *)

\* The registry, the gauges and what is recorded have their types; a tag set has one
\* value per key.
TypesOK == TypeOK /\ GaugeTypeOK /\ RecordTypeOK

\* Raced or not, no gauge shows more VUs than have entered (ActiveVus), and no live
\* total more than the calls that have begun (Recording).
NeverAhead == NeverOverstated /\ LiveNeverAhead

\* A threshold is violated exactly if what was recorded violates it (Recording).
ThresholdsAgree == part = "recording" => VerdictsAgree

\* The compare-exchange loop never lowers a peak (ActiveVus), and no live total falls
\* unless a series was inserted over another (Recording).
NeverFall == PeakNeverFalls /\ LiveNeverFalls
=============================================================================
