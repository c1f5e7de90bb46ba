----------------------------- MODULE Thresholds -----------------------------
(***************************************************************************)
(* Thresholds: how their keys and expressions are parsed                   *)
(* (wrkr-core/src/thresholds.rs) and what they say of the series of a      *)
(* metric (thresholds_eval.rs, and the folds of wrkr-metrics/src/          *)
(* registry.rs).                                                           *)
(*                                                                         *)
(* A key is written as its tokens: a name and, between braces, parts that  *)
(* are blank, a word without `=`, or a pair.  Whitespace, which the parser *)
(* strips, is left out.  Series are a function from pairs <<metric, tags>>, *)
(* tags a set of pairs, to values; the value of a histogram is a bag of    *)
(* what was recorded, and an observed value a fraction <<n, d>>.           *)
(***************************************************************************)
EXTENDS Integers, FiniteSets, SequencesExt

CONSTANT Alphabet \* the tag keys in the order of their names

\* Nothing was observed.
Nothing == <<>>

\* What does not parse.
Refused  == [ok |-> FALSE]
NoNumber == -1

\* A key or a value with whitespace, a brace, a comma or an equals sign in it.
Odd == "odd"

Before(order, a, b) ==
    \E i, j \in DOMAIN order : i < j /\ order[i] = a /\ order[j] = b

\* Pairs with different keys, in the order of the keys.
Sorted(tags, order) ==
    CHOOSE s \in [DOMAIN tags -> ToSet(tags)] :
        \A i, j \in DOMAIN tags : i < j => Before(order, s[i][1], s[j][1])

\* SelectSeq, with a set.
Only(s, S) ==
    LET kept[i \in 0 .. Len(s)] ==
            IF i = 0 THEN <<>>
            ELSE IF s[i] \in S THEN Append(kept[i - 1], s[i]) ELSE kept[i - 1]
    IN kept[Len(s)]

\* The tags with other keys.
Without(tags, keys) == Only(tags, {t \in ToSet(tags) : t[1] \notin keys})

-----------------------------------------------------------------------------
(* thresholds.rs *)

BadPair(p) == p.form = "word" \/ {p.k, p.v} \cap {"", Odd} # {}

\* parse_threshold_metric_key: the metric and its selector, sorted by key names.
ParseKey(raw) ==
    LET pairs == Only(raw.parts, {p \in ToSet(raw.parts) : p.form # "blank"})
        tags  == [i \in DOMAIN pairs |-> <<pairs[i].k, pairs[i].v>>]
    IN IF raw.name = "" THEN Refused
       ELSE IF ~raw.braces THEN [ok |-> TRUE, metric |-> raw.name, tags |-> <<>>]
       ELSE IF \/ ~raw.closed
               \/ \E i \in DOMAIN pairs : BadPair(pairs[i])
               \/ \E i, j \in DOMAIN tags : i # j /\ tags[i][1] = tags[j][1]
               \/ tags = <<>>
            THEN Refused
       ELSE [ok |-> TRUE, metric |-> raw.name, tags |-> Sorted(tags, Alphabet)]

Ops  == {"<=", ">=", "==", "<", ">"}
Aggs == {"avg", "min", "max", "count", "rate", "p"}

\* parse_threshold_expr: whether it parses; p is the percentile.
Parses(expr) ==
    /\ expr.op \in Ops
    /\ expr.agg \in Aggs
    /\ expr.agg = "p" => expr.p \in 1 .. 100
    /\ expr.value # NoNumber

-----------------------------------------------------------------------------
(* TagSelector *)

\* resolve_tags: keys not known yet get the next ids.
InternKeys(ids, tags) ==
    LET new == Without(tags, ToSet(ids)) IN ids \o [i \in DOMAIN new |-> new[i][1]]

\* TagSet::project, in the order of the keys it is given.
Project(tags, keys) ==
    LET present == Only(keys, {t[1] : t \in tags})
    IN [i \in DOMAIN present |-> CHOOSE t \in tags : t[1] = present[i]]

\* TagSelector::matches: the selector's keys are projected in the order of their
\* names, its tags are a tag set, in the order of the keys' ids.
Matches(ids, selector, tags) ==
    \/ selector = <<>>
    \/ Project(tags, [i \in DOMAIN selector |-> selector[i][1]])
          = Sorted(selector, InternKeys(ids, selector))

-----------------------------------------------------------------------------
(* observed_value *)

\* The sum of the values of a function.
Sum(f) ==
    LET over[S \in SUBSET DOMAIN f] ==
            IF S = {} THEN 0
            ELSE LET x == CHOOSE x \in S : TRUE IN f[x] + over[S \ {x}]
    IN over[DOMAIN f]

\* How often something is in a bag.
Copies(v, bag) == IF v \in DOMAIN bag THEN bag[v] ELSE 0

\* fold_histogram_summary merges the series' histograms.
Merged(found) ==
    [v \in UNION {DOMAIN found[p] : p \in DOMAIN found} |->
        Sum([p \in DOMAIN found |-> Copies(v, found[p])])]

\* summarize_histogram.  value_at_quantile is hdrhistogram's: the least value with
\* at least the fraction of the samples at or below it.
Count(h)       == Sum(h)
Mean(h)        == <<Sum([v \in DOMAIN h |-> v * h[v]]), Count(h)>>
AtMost(h, v)   == Sum(Restrict(h, {w \in DOMAIN h : w <= v}))
Quantile(h, p) == Min({v \in DOMAIN h : 100 * AtMost(h, v) >= p * Count(h)})

Percentiles == {50, 75, 90, 95, 99}

\* A histogram without a sample has a count and nothing else.
OfHistogram(expr, h) ==
    IF expr.agg = "count" THEN <<Count(h), 1>>
    ELSE IF Count(h) = 0 THEN Nothing
    ELSE CASE expr.agg = "avg" -> Mean(h)
           [] expr.agg = "min" -> <<Min(DOMAIN h), 1>>
           [] expr.agg = "max" -> <<Max(DOMAIN h), 1>>
           [] expr.agg = "p" /\ expr.p \in Percentiles -> <<Quantile(h, expr.p), 1>>
           [] OTHER -> Nothing

\* fold_rate_sum
OfRate(expr, found) ==
    LET total == Sum([p \in DOMAIN found |-> found[p].total])
        hits  == Sum([p \in DOMAIN found |-> found[p].hits])
    IN CASE expr.agg = "count" -> <<total, 1>>
         [] expr.agg = "rate" /\ total > 0 -> <<hits, total>>
         [] OTHER -> Nothing

\* fold_counter_sum
OfCounter(expr, found) ==
    IF expr.agg = "count" THEN <<Sum(found), 1>> ELSE Nothing

Observed(kind, expr, found) ==
    CASE kind = "Histogram" -> OfHistogram(expr, Merged(found))
      [] kind = "Rate" -> OfRate(expr, found)
      [] kind = "Counter" -> OfCounter(expr, found)
      [] OTHER -> Nothing

\* Mutant of Compare: == is taken for <=.
CompareLoose(observed, op, value) ==
    LET n == observed[1]  v == value * observed[2]
    IN CASE op = "<" -> n < v [] op = ">" -> n > v [] op = ">=" -> n >= v [] OTHER -> n <= v

Compare(observed, op, value) ==
    LET n == observed[1]  v == value * observed[2]
    IN CASE op = "<"  -> n < v
         [] op = "<=" -> n <= v
         [] op = ">"  -> n > v
         [] op = ">=" -> n >= v
         [] op = "==" -> n = v

-----------------------------------------------------------------------------
(* evaluate_thresholds *)

\* One set: its violated expressions, or an error.  If there is no such metric all are
\* violated, and none is parsed.
Evaluate(ids, kinds, series, set) ==
    LET found == Restrict(series, {p \in DOMAIN series :
                                      p[1] = set.metric /\ Matches(ids, set.tags, p[2])})
        observed(e) == IF DOMAIN found = {} THEN Nothing
                       ELSE Observed(kinds[set.metric], e, found)
        passed(e) == observed(e) # Nothing /\ Compare(observed(e), e.op, e.value)
    IN IF set.metric \notin DOMAIN kinds THEN [ok |-> TRUE, violated |-> set.exprs]
       ELSE IF \E e \in set.exprs : ~Parses(e) THEN Refused
       ELSE [ok |-> TRUE, violated |-> {e \in set.exprs : ~passed(e)}]
=============================================================================
