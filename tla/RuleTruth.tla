------------------------------ MODULE RuleTruth ------------------------------
(***************************************************************************)
(* What docs/rule-studio.md:652-662 says a rule means: a condition is      *)
(* TRUE, FALSE or UNKNOWN, groups follow the logic of three values, and a  *)
(* rule matches when it is TRUE.  The code has two values (RuleEvaluation).*)
(***************************************************************************)
EXTENDS RuleEvaluation

ByEquality == {"=", "!=", "IN", "NOT_IN"}

(* UNKNOWN where the metric is missing or does not allow the comparison;   *)
(* an absent value stays UNKNOWN for the operators by equality, too.       *)
Known(c, metrics) ==
    /\ Available(c, metrics)
    /\ c.operator \in ByEquality => Present(metrics[KeyOf(c, metrics)]) # None

Truth(c, metrics) ==
    IF ~Known(c, metrics) THEN "UNKNOWN"
    ELSE IF Holds(c, metrics[KeyOf(c, metrics)]) THEN "TRUE" ELSE "FALSE"

Combination(logic, truths) ==
    CASE logic = "AND" -> IF \E i \in DOMAIN truths : truths[i] = "FALSE" THEN "FALSE"
                          ELSE IF \A i \in DOMAIN truths : truths[i] = "TRUE" THEN "TRUE"
                          ELSE "UNKNOWN"
      [] logic = "OR"  -> IF \E i \in DOMAIN truths : truths[i] = "TRUE" THEN "TRUE"
                          ELSE IF \A i \in DOMAIN truths : truths[i] = "FALSE" THEN "FALSE"
                          ELSE "UNKNOWN"
      [] logic = "NOT" -> IF truths[1] = "TRUE" THEN "FALSE"
                          ELSE IF truths[1] = "FALSE" THEN "TRUE" ELSE "UNKNOWN"

NodeTruth(node, metrics) ==
    IF IsGroup(node)
    THEN Combination(node.logic, [i \in DOMAIN node.conditions |-> Truth(node.conditions[i], metrics)])
    ELSE Truth(node, metrics)

RuleIsTrue(rule, metrics) ==
    Combination(rule.logic,
                [i \in DOMAIN rule.conditions |-> NodeTruth(rule.conditions[i], metrics)]) = "TRUE"

(* Rules that say nothing of the absence of something. *)
PositiveCondition(c) ==
    /\ c.operator \notin {"!=", "NOT_IN"}
    /\ c.operator = "=" => c.value # None
    /\ c.operator = "IN" => None \notin c.value

PositiveNode(node) ==
    IF IsGroup(node)
    THEN /\ node.logic \in {"AND", "OR"}
         /\ \A i \in DOMAIN node.conditions : PositiveCondition(node.conditions[i])
    ELSE PositiveCondition(node)

Positive(rule) ==
    /\ rule.logic \in {"AND", "OR"}
    /\ \A i \in DOMAIN rule.conditions : PositiveNode(rule.conditions[i])
=============================================================================
