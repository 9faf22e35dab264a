------------------------- MODULE MCDecisionPipeline -------------------------
(* Small instances of DecisionPipeline for TLC. *)
EXTENDS DecisionPipeline, RuleTruth, TLC

(* A rule that asks for growth, and one for its absence: it matches where   *)
(* the growth is not known.                                                 *)
Growing == [metric |-> "INFLOW_GROWTH", period |-> None, operator |-> ">", unit |-> "PERCENT",
            value |-> <<15, 1>>]
Rising  == [metric |-> "inflow_amount", period |-> "90D", operator |-> "INCREASE_BY", unit |-> None,
            value |-> <<1, 1>>]
MCServed ==
    {[logic |-> "AND", conditions |-> <<Growing, Rising>>, base |-> <<50, 1>>,
      weights |-> [metric \in {"INFLOW_GROWTH"} |-> <<25, 1>>]],
     [logic |-> "AND", conditions |-> <<[logic |-> "NOT", conditions |-> <<Growing>>]>>,
      base |-> <<1, 4>>, weights |-> [metric \in {} |-> <<0, 1>>]]}

(* On small rules and metrics, DecisionPipelineProofs' theorem and the rules  *)
(* it excludes.                                                             *)
Value == {None, <<1, 10>>, <<1, 2>>}
SmallMetrics ==
    {[key \in keys |-> [series |-> TRUE, value |-> v, previous |-> p, rate |-> None, history |-> <<v>>]] :
        keys \in SUBSET {<<"a", None>>, <<"b", "90D">>}, v \in Value, p \in Value}
SmallConditions ==
    {[metric |-> m, period |-> "90D", operator |-> o, unit |-> "PERCENT",
      value |-> CASE o = "IN" -> {<<50, 1>>} [] o = "PERSISTENT_FOR" -> [periods |-> 1, test |-> ">", value |-> <<20, 1>>]
                  [] OTHER -> <<50, 1>>] :
        m \in {"a", "b"}, o \in {">=", "=", "!=", "IN", "INCREASE_BY", "PERSISTENT_FOR"}}
SmallNodes == SmallConditions \cup {[logic |-> l, conditions |-> <<c>>] : l \in {"OR", "NOT"}, c \in SmallConditions}
SmallRules == {[logic |-> l, conditions |-> <<n, c>>] : l \in {"AND", "OR"}, n \in SmallNodes, c \in SmallConditions}

ASSUME SmallRulesAreThreeValued ==
    \A rule \in SmallRules :
        /\ Valid(rule)
        /\ Positive(rule) => \A given \in SmallMetrics : Matched(rule, given) <=> RuleIsTrue(rule, given)
ASSUME SomeRulesAreNot ==
    \E rule \in SmallRules, given \in SmallMetrics : Matched(rule, given) /\ ~RuleIsTrue(rule, given)

(* A growth from the day before to the first. *)
MCInit == Init /\ ledger = {[day |-> 0, amount |-> 1], [day |-> 1, amount |-> 2]}
MCSpec == MCInit /\ [][Next]_vars

(* Where sessions end after their answers: two pipelines. *)
SmallWhenEarly == early => starts <= 2

Symmetry == Permutations(Runs)
=============================================================================
