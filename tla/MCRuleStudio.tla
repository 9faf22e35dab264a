---------------------------- MODULE MCRuleStudio ----------------------------
(* Small instances of RuleStudio for TLC. *)
EXTENDS RuleAudit

CONSTANTS analyst, approver, admin, good, bad, r1, r2

ThreeActors == {analyst, approver, admin}
TwoActors == {approver, admin}
OnlyAdmin == {admin}
MCAuthors == {analyst, admin}          \* BUSINESS_ANALYST, ADMIN
MCApprovers == {approver, admin}       \* RULE_APPROVER, ADMIN
MCDefinitions == {good, bad}
MCValid == {good}

(* The second rule is only created, or duplicated from the first. *)
OnlyCreated(r) == version'[r] = version[r] \/ ~Exists(r)

MCSpec == Init /\ [][Next /\ OnlyCreated(r2)]_vars
=============================================================================
