----------------------------- MODULE RuleStudio -----------------------------
(***************************************************************************)
(* The Rule Studio: the governed lifecycle of business rules kept by       *)
(* rule-management-service and rule-simulation-service, and the read made  *)
(* by rule-engine-service to find the versions it evaluates.               *)
(*                                                                         *)
(* One action is one HTTP request that commits.  Every request on an       *)
(* existing rule but a duplication starts by locking the row of the rule   *)
(* (find_rule(lock=True)) and get_session commits it or rolls all of it    *)
(* back, so a request is one step and a refused request (409, 403, 422) is *)
(* no step.  RuleStudioRequests opens that step up.                        *)
(***************************************************************************)
EXTENDS Naturals, Sequences

CONSTANTS
    RuleIds,           \* business keys of the rules (rules.rule_id)
    Actors,            \* principals: username or subject of the token
    Authors,           \* holders of a role of RULE_AUTHOR_ROLES
    Approvers,         \* holders of a role of RULE_APPROVER_ROLES
    Simulators,        \* holders of a role of SIMULATION_ROLES
    Null,              \* a column or a row that is not there
    Definitions,       \* rule documents a client may send
    ValidDefinitions,  \* those validate_rule_definition accepts
    MaxVersion         \* bound: versions one rule may reach

ASSUME RolesAssumption ==
    /\ Authors \subseteq Actors
    /\ Approvers \subseteq Actors
    /\ Simulators \subseteq Actors
    /\ Null \notin Actors

ASSUME DefinitionsAssumption ==
    /\ ValidDefinitions \subseteq Definitions
    /\ Null \notin Definitions

ASSUME BoundAssumption == MaxVersion \in Nat \ {0}

VARIABLES
    rule,        \* table rules: status, current_version, active_version (0: null)
    version,     \* table rule_versions: status, created_by, definition
    submission,  \* rule_approvals with decision SUBMITTED: who submitted a version
    approval,    \* rule_approvals with decision APPROVED: who approved a version
    simulated,   \* versions with at least one row in rule_simulations
    audit        \* rule_audit_logs of each rule, in order

vars == <<rule, version, submission, approval, simulated, audit>>

-----------------------------------------------------------------------------
(* Rows *)

Versions == 1..MaxVersion

LifecycleStatus == {"DRAFT", "VALIDATED", "SIMULATED", "SUBMITTED", "APPROVED",
                    "PUBLISHED", "ACTIVE", "DISABLED", "RETIRED"}

\* A rule or a version whose row does not exist has the status "ABSENT".
Status == LifecycleStatus \cup {"ABSENT"}

AuditAction == {"CREATED", "UPDATED", "ROLLED_BACK", "VALIDATED", "SIMULATED",
                "SUBMITTED", "APPROVED", "PUBLISHED", "ACTIVATED", "DISABLED"}

RuleRow == [status: Status, current: 0..MaxVersion, active: 0..MaxVersion]

VersionRow == [status: Status, author: Actors \cup {Null},
               definition: Definitions \cup {Null}]

AuditRow == [version: Versions, action: AuditAction]

AbsentRule == [status |-> "ABSENT", current |-> 0, active |-> 0]

AbsentVersion == [status |-> "ABSENT", author |-> Null, definition |-> Null]

\* The states in which update_rule and rollback_rule answer 409 RULE_LOCKED.
InReview == {"SUBMITTED", "APPROVED", "PUBLISHED"}

Exists(r) == rule[r].status # "ABSENT"

Latest(r) == version[r][rule[r].current]     \* latest_version()

\* What rule-engine-service evaluates (active_versions): the rule is ACTIVE,
\* the version is ACTIVE and it is the one the rule points to.
Served(r) == {v \in Versions : /\ rule[r].status = "ACTIVE"
                               /\ version[r][v].status = "ACTIVE"
                               /\ rule[r].active = v}

TypeOK ==
    /\ rule \in [RuleIds -> RuleRow]
    /\ version \in [RuleIds -> [Versions -> VersionRow]]
    /\ submission \in [RuleIds -> [Versions -> Actors \cup {Null}]]
    /\ approval \in [RuleIds -> [Versions -> Actors \cup {Null}]]
    /\ simulated \in [RuleIds -> SUBSET Versions]
    /\ audit \in [RuleIds -> Seq(AuditRow)]

Init ==
    /\ rule = [r \in RuleIds |-> AbsentRule]
    /\ version = [r \in RuleIds |-> [v \in Versions |-> AbsentVersion]]
    /\ submission = [r \in RuleIds |-> [v \in Versions |-> Null]]
    /\ approval = [r \in RuleIds |-> [v \in Versions |-> Null]]
    /\ simulated = [r \in RuleIds |-> {}]
    /\ audit = [r \in RuleIds |-> <<>>]

-----------------------------------------------------------------------------
(* What the requests write *)

\* Fault: the trail names the version after the one acted on.
LogOffByOne(r, v, action) ==
    audit' = [audit EXCEPT ![r] = Append(@, [version |-> v + 1, action |-> action])]

Log(r, v, action) ==
    audit' = [audit EXCEPT ![r] = Append(@, [version |-> v, action |-> action])]

\* persist_definition and what its callers do around it: version v of r is a
\* DRAFT of author a, the rule is a DRAFT and v its latest version.  active_version and
\* the older version rows are left as they are.
PersistDraft(r, v, a, d, action) ==
    /\ rule' = [rule EXCEPT ![r].status = "DRAFT", ![r].current = v]
    /\ version' = [version EXCEPT ![r][v] =
                      [status |-> "DRAFT", author |-> a, definition |-> d]]
    /\ Log(r, v, action)
    /\ UNCHANGED <<submission, approval, simulated>>

\* The part of transition() every event shares: the rule and its latest version move from
\* one status to another together.
Move(r, from, to) ==
    /\ rule[r].status = from
    /\ rule' = [rule EXCEPT ![r].status = to]
    /\ version' = [version EXCEPT ![r][rule[r].current].status = to]

-----------------------------------------------------------------------------
(* Faults: what the requests below must not be.  Each breaks one property. *)

UpdateDuringReview(r, a, d) ==   \* no RULE_LOCKED
    /\ a \in Authors
    /\ Exists(r)
    /\ d \in ValidDefinitions
    /\ rule[r].current < MaxVersion
    /\ PersistDraft(r, rule[r].current + 1, a, d, "UPDATED")

ApproveOwn(r, a) ==              \* the author approves
    /\ a \in Approvers
    /\ Move(r, "SUBMITTED", "APPROVED")
    /\ approval' = [approval EXCEPT ![r][rule[r].current] = a]
    /\ Log(r, rule[r].current, "APPROVED")
    /\ UNCHANGED <<submission, simulated>>

PublishKeepsPrevious(r, a) ==    \* the previous version is not retired
    /\ a \in Approvers
    /\ rule[r].status = "APPROVED"
    /\ rule' = [rule EXCEPT ![r].status = "ACTIVE", ![r].active = rule[r].current]
    /\ version' = [version EXCEPT ![r][rule[r].current].status = "ACTIVE"]
    /\ Log(r, rule[r].current, "ACTIVATED")
    /\ UNCHANGED <<submission, approval, simulated>>

DisableRuleOnly(r, a) ==         \* the version stays ACTIVE
    /\ a \in Approvers
    /\ rule[r].status = "ACTIVE"
    /\ rule' = [rule EXCEPT ![r].status = "DISABLED"]
    /\ Log(r, rule[r].current, "DISABLED")
    /\ UNCHANGED <<version, submission, approval, simulated>>

DisableSilently(r, a) ==         \* no audit row
    /\ a \in Approvers
    /\ Move(r, "ACTIVE", "DISABLED")
    /\ UNCHANGED <<submission, approval, simulated, audit>>

-----------------------------------------------------------------------------
(* New versions *)

\* POST /rules
Create(r, a, d) ==
    /\ a \in Authors
    /\ d \in ValidDefinitions
    /\ ~Exists(r)
    /\ PersistDraft(r, 1, a, d, "CREATED")

\* POST /rules/{s}/duplicate: the latest version of s, read without a lock, becomes
\* version 1 of a new rule through create_rule, which validates it again.
Duplicate(s, r, a) ==
    /\ a \in Authors
    /\ Exists(s)
    /\ Latest(s).definition \in ValidDefinitions
    /\ ~Exists(r)
    /\ PersistDraft(r, 1, a, Latest(s).definition, "CREATED")

\* PUT /rules/{r}
Update(r, a, d) ==
    /\ a \in Authors
    /\ Exists(r)
    /\ rule[r].status \notin InReview
    /\ d \in ValidDefinitions
    /\ rule[r].current < MaxVersion
    /\ PersistDraft(r, rule[r].current + 1, a, d, "UPDATED")

\* POST /rules/{r}/rollback: any existing version is a legal target and its
\* definition is copied without being validated again.
Rollback(r, a, target) ==
    /\ a \in Approvers
    /\ Exists(r)
    /\ rule[r].status \notin InReview
    /\ version[r][target].status # "ABSENT"
    /\ rule[r].current < MaxVersion
    /\ PersistDraft(r, rule[r].current + 1, a, version[r][target].definition, "ROLLED_BACK")

-----------------------------------------------------------------------------
(* Lifecycle of the latest version *)

\* POST /rules/{r}/validate
Validate(r, a) ==
    /\ a \in Authors
    /\ Move(r, "DRAFT", "VALIDATED")
    /\ Latest(r).definition \in ValidDefinitions
    /\ Log(r, rule[r].current, "VALIDATED")
    /\ UNCHANGED <<submission, approval, simulated>>

\* POST /rules/{r}/simulate: simulate_persisted_history stores the simulation
\* and an audit row, then the transition demands a stored simulation and writes
\* an audit row of its own.  From another status than VALIDATED all of it is
\* rolled back.
Simulate(r, a) ==
    /\ a \in Simulators
    /\ Move(r, "VALIDATED", "SIMULATED")
    /\ simulated' = [simulated EXCEPT ![r] = @ \cup {rule[r].current}]
    /\ rule[r].current \in simulated'[r]
    /\ audit' = [audit EXCEPT ![r] = Append(Append(@,
                    [version |-> rule[r].current, action |-> "SIMULATED"]),
                    [version |-> rule[r].current, action |-> "SIMULATED"])]
    /\ UNCHANGED <<submission, approval>>

\* POST /rules/{r}/submit
Submit(r, a) ==
    /\ a \in Authors
    /\ Move(r, "SIMULATED", "SUBMITTED")
    /\ submission' = [submission EXCEPT ![r][rule[r].current] = a]
    /\ Log(r, rule[r].current, "SUBMITTED")
    /\ UNCHANGED <<approval, simulated>>

\* POST /rules/{r}/approve
Approve(r, a) ==
    /\ a \in Approvers
    /\ Move(r, "SUBMITTED", "APPROVED")
    /\ Latest(r).author # a
    /\ approval' = [approval EXCEPT ![r][rule[r].current] = a]
    /\ Log(r, rule[r].current, "APPROVED")
    /\ UNCHANGED <<submission, simulated>>

\* POST /rules/{r}/publish: the events publish and activate in one transaction.
\* Activation retires the other ACTIVE versions of the rule, without audit.
Publish(r, a) ==
    LET new == rule[r].current IN
    /\ a \in Approvers
    /\ rule[r].status = "APPROVED"
    /\ rule' = [rule EXCEPT ![r].status = "ACTIVE", ![r].active = new]
    /\ version' = [version EXCEPT ![r] = [v \in Versions |->
                      IF v = new
                      THEN [version[r][v] EXCEPT !.status = "ACTIVE"]
                      ELSE IF version[r][v].status = "ACTIVE"
                      THEN [version[r][v] EXCEPT !.status = "RETIRED"]
                      ELSE version[r][v]]]
    /\ audit' = [audit EXCEPT ![r] = Append(Append(@,
                    [version |-> new, action |-> "PUBLISHED"]),
                    [version |-> new, action |-> "ACTIVATED"])]
    /\ UNCHANGED <<submission, approval, simulated>>

\* POST /rules/{r}/disable: active_version keeps its value.
Disable(r, a) ==
    /\ a \in Approvers
    /\ Move(r, "ACTIVE", "DISABLED")
    /\ Log(r, rule[r].current, "DISABLED")
    /\ UNCHANGED <<submission, approval, simulated>>

Next ==
    \E r \in RuleIds, a \in Actors :
        \/ \E d \in Definitions : Create(r, a, d)
        \/ \E s \in RuleIds : Duplicate(s, r, a)
        \/ \E d \in Definitions : Update(r, a, d)
        \/ \E target \in Versions : Rollback(r, a, target)
        \/ Validate(r, a)
        \/ Simulate(r, a)
        \/ Submit(r, a)
        \/ Approve(r, a)
        \/ Publish(r, a)
        \/ Disable(r, a)

Spec == Init /\ [][Next]_vars

-----------------------------------------------------------------------------
(* Safety *)

\* A rule never has two ACTIVE versions, and the ACTIVE one is the version the
\* rule points to: activation retires the previous one in the same transaction,
\* whatever edits and rollbacks happened since it went live.
SingleActive ==
    \A r \in RuleIds : \A v \in Versions :
        version[r][v].status = "ACTIVE" => rule[r].active = v

\* Whatever the engine evaluates was simulated and submitted as that version,
\* and approved by somebody who did not write it.
ServedIsGoverned ==
    \A r \in RuleIds : \A v \in Served(r) :
        /\ v \in simulated[r]
        /\ submission[r][v] # Null
        /\ approval[r][v] \notin {Null, version[r][v].author}

\* The two tables agree: the status of a rule is the status of its latest
\* version, versions are numbered without holes, and only the latest one can
\* be under review.
RowsAgree ==
    \A r \in RuleIds :
        /\ Exists(r) <=> rule[r].current > 0
        /\ Exists(r) => rule[r].status = Latest(r).status
        /\ \A v \in Versions : version[r][v].status = "ABSENT" <=> v > rule[r].current
        /\ \A v \in Versions : v # rule[r].current => version[r][v].status \notin InReview

\* RuleEvaluator.evaluate raises on an invalid document and takes the answer for
\* every other rule with it: no persisted document may be invalid, although
\* rollback_rule does not validate.
PersistedAreValid ==
    \A r \in RuleIds, v \in Versions :
        version[r][v].status # "ABSENT" => version[r][v].definition \in ValidDefinitions

\* publish and activate are one transaction: no committed state shows a rule
\* that is PUBLISHED and not yet ACTIVE, from which no endpoint would move it.
NoHalfPublication ==
    \A r \in RuleIds, v \in Versions : "PUBLISHED" \notin {rule[r].status, version[r][v].status}

\* From submission to publication the version under review cannot be replaced
\* by another: what is approved is what was submitted, what is published is
\* what was approved.
ReviewIsOfOneVersion ==
    [][\A r \in RuleIds : rule[r].status \in InReview =>
            /\ rule'[r].current = rule[r].current
            /\ \A v \in Versions : /\ version'[r][v].definition = version[r][v].definition
                                   /\ version'[r][v].author = version[r][v].author]_vars

\* What the documentation says of a rollback to a version that was ACTIVE and was replaced
\* (it calls such a version DISABLED, the code RETIRED): it is ACTIVE again when the request
\* is done, and it alone is served.  rollback_rule makes a DRAFT of its document instead,
\* and the rule is withdrawn until that draft has been through the review.
RollbackRestores ==
    [][\A r \in RuleIds, target \in Versions :
            /\ version[r][target].status = "RETIRED"
            /\ \E a \in Approvers : Rollback(r, a, target)
            => Served(r)' = {target}]_vars

\* A request on one rule leaves the rows of every other rule alone: the versions
\* an activation retires are those of the same rule, a duplication only reads its source.
RulesAreIndependent ==
    [][\A r, s \in RuleIds :
            (rule'[r] # rule[r] \/ version'[r] # version[r]) /\ s # r =>
                /\ rule'[s] = rule[s]
                /\ version'[s] = version[s]
                /\ audit'[s] = audit[s]]_vars

-----------------------------------------------------------------------------
(* The inductive invariant *)

Reviewed == {"APPROVED", "ACTIVE", "DISABLED", "RETIRED"}

\* The records the status of a version presupposes.
Earned(r, v) ==
    LET s == version[r][v].status IN
    /\ s \in {"SIMULATED", "SUBMITTED"} \cup Reviewed => v \in simulated[r]
    /\ s \in {"SUBMITTED"} \cup Reviewed => submission[r][v] # Null
    /\ s \in Reviewed => approval[r][v] \notin {Null, version[r][v].author}

\* A version has them, and keeps them when it is replaced, disabled or left behind
\* by an edit.
StatusEarned == \A r \in RuleIds, v \in Versions : Earned(r, v)

\* Everything above at once: what each request relies on and re-establishes.
IInv == TypeOK /\ RowsAgree /\ SingleActive /\ StatusEarned /\ NoHalfPublication /\ PersistedAreValid

-----------------------------------------------------------------------------
(* The Rule Studio implements a governed release *)

\* The phase of a version with this status.
PhaseOf ==
    [s \in Status |->
        CASE s = "ABSENT" -> "none"
          [] s \in {"DRAFT", "VALIDATED", "SIMULATED", "SUBMITTED"} -> "open"
          [] s \in {"APPROVED", "PUBLISHED"} -> "reviewed"
          [] s = "ACTIVE" -> "live"
          [] s \in {"DISABLED", "RETIRED"} -> "closed"]

PhaseBar == [r \in RuleIds |-> [v \in Versions |-> PhaseOf[version[r][v].status]]]
AuthorBar == [r \in RuleIds |-> [v \in Versions |-> version[r][v].author]]
ServedBar == [r \in RuleIds |-> Served(r)]

GR == INSTANCE GovernedRelease WITH
        Artifacts <- RuleIds, Numbers <- Versions, People <- Actors, Nobody <- Null,
        phase <- PhaseBar, author <- AuthorBar, reviewer <- approval, served <- ServedBar

\* Every run of the Rule Studio, read through the phases of its versions, is a
\* run of the governed release.
ImplementsGovernedRelease == GR!GRSpec
=============================================================================
