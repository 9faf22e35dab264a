\* Two batches of the same two customers.
SPECIFICATION Spec
CONSTANTS
    b1 = b1
    b2 = b2
    c1 = c1
    c2 = c2
    trade = trade
    leasing = leasing
    v1 = v1
    v2 = v2
    low = low
    high = high
    studio = studio
    foreign = foreign
    Invalid = Invalid
    Batches <- TwoBatches
    Mvp <- OneType
    Published <- NoRules
    Editions <- TwoEditions
    Terms <- TwoTerms
    Yaml <- MCYaml
    Edits <- BareEdits
    Orders <- TwoCustomers
    Room <- MCRoom
    MaxTime = 0
PROPERTIES
    EveryBatchEnds
CHECK_DEADLOCK FALSE
