--------------------------- MODULE RuleEvaluation ---------------------------
(***************************************************************************)
(* How rule-engine-service evaluates a published rule on the metrics of a  *)
(* customer (rules/domain.py).  A number is a fraction <<numerator,        *)
(* denominator>>, a text a model value, null is None.  A metric is a       *)
(* scalar [series |-> FALSE, value] or a series with its previous value,   *)
(* its growth rate and its history; metrics are found by <<code, period>>. *)
(* The spelling of codes and operators is left out.                        *)
(*                                                                         *)
(* Bound: a group of the rule contains conditions and no groups; the code  *)
(* nests as deep as the document.                                          *)
(***************************************************************************)
EXTENDS Integers, Sequences, FiniteSets, Functions

CONSTANT None

Number == Int \X (Nat \ {0})

ASSUME NoneAssumption == None \notin Number
-----------------------------------------------------------------------------
Absolute(n) == IF n < 0 THEN -n ELSE n

Less(x, y)  == x[1] * y[2] < y[1] * x[2]
Same(x, y)  == x[1] * y[2] = y[1] * x[2]
Plus(x, y)  == <<x[1] * y[2] + y[1] * x[2], x[2] * y[2]>>
Minus(x, y) == <<x[1] * y[2] - y[1] * x[2], x[2] * y[2]>>

(* A percentage above 1 is written in hundredths. *)
Configured(x, unit) ==
    IF unit = "PERCENT" /\ Absolute(x[1]) > x[2] THEN <<x[1], 100 * x[2]>> ELSE x

Equal(actual, expected, unit) ==
    IF actual \in Number /\ expected \in Number
    THEN Same(actual, Configured(expected, unit)) ELSE actual = expected
-----------------------------------------------------------------------------
(* Conditions *)

Orders    == {">", ">=", "<", "<="}
Changes   == {"INCREASE_BY", "DECREASE_BY"}
Operators == Orders \cup Changes \cup {"=", "!=", "BETWEEN", "IN", "NOT_IN", "PERSISTENT_FOR"}

(* What _compare raises nothing on. *)
Comparable(operator, observed, value) ==
    CASE operator \in Orders    -> observed \in Number /\ value \in Number
      [] operator = "BETWEEN"   -> {observed, value[1], value[2]} \subseteq Number
      [] OTHER                  -> TRUE

Compares(operator, observed, value, unit) ==
    CASE operator = ">"       -> Less(Configured(value, unit), observed)
      [] operator = ">="      -> ~Less(observed, Configured(value, unit))
      [] operator = "<"       -> Less(observed, Configured(value, unit))
      [] operator = "<="      -> ~Less(Configured(value, unit), observed)
      [] operator = "="       -> Equal(observed, value, unit)
      [] operator = "!="      -> ~Equal(observed, value, unit)
      [] operator = "BETWEEN" -> /\ ~Less(observed, Configured(value[1], unit))
                                 /\ ~Less(Configured(value[2], unit), observed)
      [] operator = "IN"      -> \E v \in value : Equal(observed, v, unit)
      [] operator = "NOT_IN"  -> \A v \in value : ~Equal(observed, v, unit)

Present(metric) == IF metric.series /\ metric.value = None THEN metric.rate ELSE metric.value

(* Of a scalar the change is its value. *)
Change(metric, operator, unit) ==
    LET up    == operator = "INCREASE_BY"
        zero  == <<0, 1>>
        delta == IF up THEN Minus(metric.value, metric.previous)
                 ELSE Minus(metric.previous, metric.value)
    IN  IF ~metric.series THEN IF up THEN metric.value ELSE Minus(zero, metric.value)
        ELSE IF unit = "PERCENT"
        THEN <<delta[1] * metric.previous[2], delta[2] * Absolute(metric.previous[1])>>
        ELSE delta

(* PERSISTENT_FOR asks for a number of periods in which the observation is *)
(* true (test = None) or compares.                                         *)
Persists(observed, value, unit) ==
    IF value.test = None THEN observed # None /\ ~Equal(observed, <<0, 1>>, None)
    ELSE /\ Comparable(value.test, observed, value.value)
         /\ Compares(value.test, observed, value.value, unit)

Since(metric, value, unit, i) ==
    \A j \in i .. Len(metric.history) : Persists(metric.history[j], value, unit)

Streak(metric, value, unit) ==
    Cardinality({i \in DOMAIN metric.history : Since(metric, value, unit, i)})

Readable(c, metric) ==
    CASE c.operator \in Changes ->
            /\ {c.value, metric.value} \subseteq Number
            /\ metric.series => /\ metric.previous \in Number
                                /\ c.unit = "PERCENT" => metric.previous[1] # 0
      [] c.operator = "PERSISTENT_FOR" ->
            IF metric.series
            THEN \A i \in DOMAIN metric.history : Since(metric, c.value, c.unit, i + 1) =>
                    c.value.test = None \/ Comparable(c.value.test, metric.history[i], c.value.value)
            ELSE c.value.test = None => metric.value \in Number
      [] OTHER -> Comparable(c.operator, Present(metric), c.value)

Holds(c, metric) ==
    CASE c.operator \in Changes ->
            ~Less(Change(metric, c.operator, c.unit), Configured(c.value, c.unit))
      [] c.operator = "PERSISTENT_FOR" ->
            IF metric.series THEN Streak(metric, c.value, c.unit) >= c.value.periods
            ELSE IF c.value.test = None THEN metric.value[1] >= c.value.periods * metric.value[2]
            ELSE c.value.periods <= 0
      [] OTHER -> Compares(c.operator, Present(metric), c.value, c.unit)

(* The metric of the period, else the one without a period. *)
KeyOf(c, metrics) ==
    IF <<c.metric, c.period>> \in DOMAIN metrics THEN <<c.metric, c.period>> ELSE <<c.metric, None>>

Available(c, metrics) ==
    KeyOf(c, metrics) \in DOMAIN metrics /\ Readable(c, metrics[KeyOf(c, metrics)])

(* A condition that is not available is false. *)
Passes(c, metrics) == Available(c, metrics) /\ Holds(c, metrics[KeyOf(c, metrics)])
-----------------------------------------------------------------------------
(* Rules *)

IsGroup(node) == "conditions" \in DOMAIN node

Combine(logic, results) ==
    CASE logic = "AND" -> \A i \in DOMAIN results : results[i]
      [] logic = "OR"  -> \E i \in DOMAIN results : results[i]
      [] logic = "NOT" -> ~results[1]

Result(node, metrics) ==
    IF IsGroup(node)
    THEN Combine(node.logic, [i \in DOMAIN node.conditions |-> Passes(node.conditions[i], metrics)])
    ELSE Passes(node, metrics)

Matched(rule, metrics) ==
    Combine(rule.logic, [i \in DOMAIN rule.conditions |-> Result(rule.conditions[i], metrics)])

Leaves(rule) ==
    UNION {IF IsGroup(node) THEN Range(node.conditions) ELSE {node} : node \in Range(rule.conditions)}

(* validate_rule_definition *)
ValidGroup(group) ==
    /\ group.logic \in {"AND", "OR", "NOT"}
    /\ Len(group.conditions) > 0
    /\ group.logic = "NOT" => Len(group.conditions) = 1

Valid(rule) ==
    /\ ValidGroup(rule)
    /\ \A node \in Range(rule.conditions) : IsGroup(node) => ValidGroup(node)
    /\ \A c \in Leaves(rule) : c.operator \in Operators /\ c.value # None

(* The base score and the weights of the metrics that passed, in 0 .. 1. *)
Confidence(rule, metrics) ==
    LET passed == {c.metric : c \in {c \in Leaves(rule) : Passes(c, metrics)}}
        score  == FoldFunctionOnSet(LAMBDA w, sum : Plus(Configured(w, "PERCENT"), sum),
                                    Configured(rule.base, "PERCENT"), rule.weights,
                                    DOMAIN rule.weights \cap passed)
    IN  IF Less(score, <<0, 1>>) THEN <<0, 1>> ELSE IF Less(<<1, 1>>, score) THEN <<1, 1>> ELSE score

(* POST /rules/evaluate, and what feature-store takes of its answer. *)
Matches(served, metrics) == {rule \in served : Matched(rule, metrics)}

Strength(served, metrics) ==
    LET scores == {Confidence(rule, metrics) : rule \in Matches(served, metrics)} \cup {<<0, 1>>}
    IN  CHOOSE x \in scores : \A y \in scores : ~Less(x, y)
=============================================================================
