----------------------------- MODULE RuleAudit ------------------------------
(***************************************************************************)
(* The audit trail of the Rule Studio read as a history: what an auditor   *)
(* who has rule_audit_logs and nothing else can reconstruct.               *)
(***************************************************************************)
EXTENDS RuleStudio

\* The status an audited action leaves its version in.
StatusAfter ==
    [CREATED |-> "DRAFT", UPDATED |-> "DRAFT", ROLLED_BACK |-> "DRAFT",
     VALIDATED |-> "VALIDATED", SIMULATED |-> "SIMULATED", SUBMITTED |-> "SUBMITTED",
     APPROVED |-> "APPROVED", PUBLISHED |-> "PUBLISHED", ACTIVATED |-> "ACTIVE",
     DISABLED |-> "DISABLED"]

\* One row read: its version takes the status of the action and an activation
\* implicitly retires the version that was active.
ReadRow(status, row) ==
    [v \in Versions |->
        IF v = row.version THEN StatusAfter[row.action]
        ELSE IF row.action = "ACTIVATED" /\ status[v] = "ACTIVE" THEN "RETIRED"
        ELSE status[v]]

\* What the first rows tell, however many are read.
Reading(log) ==
    LET read[n \in 0..Len(log)] ==
            IF n = 0 THEN [v \in Versions |-> "ABSENT"] ELSE ReadRow(read[n - 1], log[n])
    IN  read

Replay(log) == Reading(log)[Len(log)]

\* The trail is complete: replaying it gives the status of every version of
\* every rule, through edits, rollbacks and replacements.
AuditReplaysToState ==
    \A r \in RuleIds : \A v \in Versions : Replay(audit[r])[v] = version[r][v].status
=============================================================================
