--------------------------- MODULE RecordingInputs --------------------------
(* What scripts and options may hold, for small instances of Recording. *)
EXTENDS Integers, Sequences, TLC

CONSTANTS v1, v2

KeysByName == <<"error_kind", "group", "method", "name", "protocol", "scenario", "status">>

\* A scenario tag that others may set, and one that is never merged.
TagsOfScenarios == <<<<"name", "all">>, <<"group", "none">>>>

Integer(n) == [t |-> "integer", n |-> n]
Request == [op |-> "http", tags |-> <<>>, name |-> "", ok |-> TRUE, latency |-> 0,
            received |-> 2, sent |-> 1, error |-> ""]
Trend   == [op |-> "add", metric |-> "mine", kind |-> "Histogram", tags |-> <<>>,
            value |-> Integer(2)]

Named   == [Request EXCEPT !.tags = <<<<"protocol", "x">>, <<"group", "own">>>>, !.name = "n"]
Failing == [Request EXCEPT !.ok = FALSE, !.latency = 3, !.error = "timeout"]
Grpc    == [Failing EXCEPT !.op = "grpc"]

Check(passed) == [op |-> "check", name |-> "c", passed |-> passed]

Rate    == [Trend EXCEPT !.kind = "Rate", !.value = [t |-> "boolean", n |-> 1]]
Customs == {Trend, Rate,
            [Trend EXCEPT !.value = Integer(11)],
            [Trend EXCEPT !.kind = "Counter", !.value = Integer(-1)],
            [Trend EXCEPT !.kind = "Gauge", !.value = Integer(-1)]}

Plan(scenario, groups, menu, n1, ticks) ==
    [scenario |-> scenario, groups |-> groups, menu |-> menu,
     calls |-> (v1 :> n1 @@ v2 :> 1), ticks |-> ticks]

Alone == v1 :> "s1"
Both  == v1 :> "s1" @@ v2 :> "s1"
Apart == v1 :> "s1" @@ v2 :> "s2"

\* Requests, in one scenario and in two; nested groups; checks and custom metrics of
\* every kind; and, with few calls, the progress task.
SomePlans ==
    {Plan(Both, {"g"}, {Named}, 2, 0),
     Plan(Both, {}, {Named, Grpc}, 1, 0),
     Plan(Apart, {"g"}, {Request, Check(FALSE)}, 2, 0),
     Plan(Both, {"g", "h"}, {Trend}, 3, 0),
     Plan(Both, {}, Customs \union {Check(TRUE), Check(FALSE)}, 2, 0),
     Plan(Alone, {}, {Request, Failing, Check(TRUE)}, 2, 2),
     Plan(Both, {}, {Check(FALSE)}, 1, 2)}

Part(k, v) == [form |-> "pair", k |-> k, v |-> v]
Key(m)     == [name |-> m, braces |-> FALSE, closed |-> FALSE, parts |-> <<>>]
Scoped(m, parts) == [name |-> m, braces |-> TRUE, closed |-> TRUE, parts |-> parts]

SomeKeys ==
    {Key("mine"), Key("requests_total"), Key(""), Scoped("mine", <<Part("k", "")>>),
     Scoped("request_latency", <<Part("protocol", "http")>>),
     Scoped("request_latency", <<Part("method", "GET"), Part("group", "g")>>)}

Expr(agg, op, n) == [agg |-> agg, p |-> 50, op |-> op, value |-> n]

SomeExprs ==
    {Expr("count", "==", 2), Expr("count", "<", 1), Expr("avg", "<=", 1), Expr("p", "<", 3),
     Expr("rate", ">=", 1), Expr("max", ">", 1), Expr("sum", "<", 1)}
=============================================================================
