\* One rule, three versions: edits, rollbacks and replacements of a live version; a second
\* rule, created or duplicated.
SPECIFICATION MCSpec
CONSTANTS
    RuleIds = {r1, r2}
    r1 = r1
    r2 = r2
    analyst = analyst
    approver = approver
    admin = admin
    good = good
    bad = bad
    Null = Null
    Actors <- ThreeActors
    Authors <- MCAuthors
    Approvers <- MCApprovers
    Simulators <- MCAuthors
    Definitions <- MCDefinitions
    ValidDefinitions <- MCValid
    MaxVersion = 3
INVARIANTS
    TypeOK
    SingleActive
    ServedIsGoverned
    AuditReplaysToState
PROPERTIES
    ReviewIsOfOneVersion
    ImplementsGovernedRelease
CHECK_DEADLOCK FALSE
