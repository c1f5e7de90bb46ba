---------------------------- MODULE MCExecutors -----------------------------
(* Inputs for TLC: every combination of a few values for each field that a   *)
(* scenario's executor reads, from a script or from YAML, with and without   *)
(* flags.                                                                    *)
EXTENDS Executors

Stage(d, t) == Table([duration |-> d, target |-> t])

NoScenario ==
    [exec |-> Nil, tags |-> Nil, executor |-> Nil, vus |-> Nil, iterations |-> Nil,
     duration |-> Nil, start_vus |-> <<Nil, Nil>>, start_rate |-> <<Nil, Nil>>,
     time_unit |-> <<Nil, Nil>>, pre_allocated_vus |-> <<Nil, Nil>>,
     max_vus |-> <<Nil, Nil>>, stages |-> Nil]

StageLists ==
    {Nil, Other, Table(<<>>), Table(<<Stage(Nil, Lit(1))>>),
     Table(<<Stage(Span(0), Lit(2))>>),
     Table(<<Stage(Lit(3), Lit(1))>>),
     Table(<<Stage(Lit(2), Lit(3)), Stage(Span(0), Lit(1)), Stage(Lit(2), Lit(2))>>),
     Table(<<Stage(Span(0), Lit(2)), Stage(Span(0), Lit(3)), Stage(Lit(3), Float(0, TRUE))>>)}

ConstantScenarios ==
    {[NoScenario EXCEPT !.executor = e, !.vus = n, !.iterations = i, !.duration = d, !.tags = t] :
        e \in {Nil, Text("per-vu-iterations"), Text("unknown"), Lit(1)},
        n \in {Nil, Lit(0), Lit(2)}, i \in {Nil, Float(2, TRUE), Lit(-1)},
        d \in {Nil, Span(0), Lit(1), Text("soon")},
        t \in {Nil, Table([a |-> Lit(1), b |-> Other])}}

RampingScenarios ==
    {[NoScenario EXCEPT !.executor = Text("ramping-vus"), !.stages = st,
                        !.start_vus = s, !.iterations = i] :
        st \in StageLists, i \in {Nil, Lit(1)},
        s \in {<<Nil, Nil>>, <<Nil, Lit(2)>>, <<Lit(0), Lit(3)>>, <<Float(1, FALSE), Nil>>}}

ArrivalScenarios ==
    {[NoScenario EXCEPT !.executor = Text(e), !.stages = st, !.time_unit = <<u, Nil>>,
                        !.pre_allocated_vus = <<p, Nil>>, !.max_vus = <<Nil, m>>] :
        e \in {"ramping-arrival-rate", "ramping-rps"},
        st \in StageLists, u \in {Nil, Span(0), Lit(2)}, p \in {Nil, Lit(0), Lit(2)},
        m \in {Nil, Lit(1), Lit(3)}}

Entry(n, t) == [name |-> n, value |-> t]
Lists ==
    {<<>>, <<Entry("a", Other)>>}
    \union {<<Entry("a", Table(s))>> : s \in ConstantScenarios \union RampingScenarios
                                              \union ArrivalScenarios}
    \union {<<Entry("a", Table(s)), Entry("b", Table([NoScenario EXCEPT !.vus = n]))>> :
              s \in RampingScenarios, n \in {Nil, Lit(0)}}

Thresholds ==
    {<<>>,
     <<[key |-> [metric |-> "m", tags |-> {}], exprs |-> <<Text("x"), Text("y")>>],
       [key |-> [metric |-> "m", tags |-> {"a"}], exprs |-> <<Text("x")>>]>>,
     <<[key |-> [metric |-> "m", tags |-> {}], exprs |-> <<Text("x")>>],
       [key |-> [metric |-> "m", tags |-> {}], exprs |-> <<Text("y")>>]>>,
     <<[key |-> [metric |-> "m", tags |-> {}], exprs |-> <<Lit(1)>>]>>}

Tops == {[vus |-> n, iterations |-> i, duration |-> d, thresholds |-> <<>>] :
            n \in {Nil, Lit(2)}, i \in {Nil, Lit(2)}, d \in {Nil, Lit(1)}}
        \union {[vus |-> Nil, iterations |-> Nil, duration |-> Nil, thresholds |-> t] :
                  t \in Thresholds}

Flags == {NoFlags, [NoFlags EXCEPT !.vus = 3], [NoFlags EXCEPT !.vus = 0],
          [NoFlags EXCEPT !.iterations = 3], [NoFlags EXCEPT !.iterations = 0],
          [NoFlags EXCEPT !.duration = 1, !.vus = 1]}

Scripts ==
    {[doc |-> [vus |-> t.vus, iterations |-> t.iterations, duration |-> t.duration,
               thresholds |-> t.thresholds, scenarios |-> l],
      yaml |-> FALSE, cli |-> c] : t \in Tops, l \in Lists, c \in Flags}

YamlScenario ==
    [name |-> None, exec |-> None, tags |-> <<>>, executor |-> None, vus |-> None,
     iterations |-> None, duration |-> Nil, start_vus |-> None, stages |-> <<>>,
     start_rate |-> None, time_unit |-> Nil, pre_allocated_vus |-> None, max_vus |-> None]

YamlScenarios ==
    {[YamlScenario EXCEPT !.vus = n, !.duration = d] :
        n \in {None, 0, 2}, d \in {Nil, Lit(0), Lit(-1), Float(0, FALSE)}}
    \union
    {[YamlScenario EXCEPT !.executor = e, !.time_unit = u,
                          !.stages = <<[duration |-> Nil, target |-> 1],
                                       [duration |-> d, target |-> 2]>>] :
        e \in {"ramping-vus", "ramping-rps"}, u \in {Nil, Lit(0)}, d \in {Nil, Span(3)}}

Yamls ==
    {[doc |-> [scenarios |-> l, thresholds |-> t], yaml |-> TRUE, cli |-> c] :
        l \in {<<a>> : a \in YamlScenarios} \union {<<a, a>> : a \in YamlScenarios},
        t \in {<<>>, [k \in {[metric |-> "m", tags |-> {}]} |-> <<>>]}, c \in Flags}

MCInputs == Scripts \union Yamls
=============================================================================
