\* Batches one after the other, with updates that change the version and the terms apart.
SPECIFICATION Spec
CONSTANTS
    b1 = b1
    b2 = b2
    c1 = c1
    c2 = c2
    trade = trade
    leasing = leasing
    v1 = v1
    v2 = v2
    low = low
    high = high
    studio = studio
    foreign = foreign
    Invalid = Invalid
    Batches <- OneBatch
    Mvp <- OneType
    Published <- NoRules
    Editions <- TwoEditions
    Terms <- TwoTerms
    Yaml <- MCYaml
    Edits <- TermEdits
    Orders <- OneCustomer
    Room <- MCRoom
    MaxTime = 2
INVARIANT
    DecidedByItsVersion
CHECK_DEADLOCK FALSE
