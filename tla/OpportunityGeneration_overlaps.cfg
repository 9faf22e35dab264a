\* Two batches of two customers overlap, fail, and meet updates of the rules they use.
SPECIFICATION Spec
CONSTANTS
    b1 = b1
    b2 = b2
    c1 = c1
    c2 = c2
    trade = trade
    leasing = leasing
    v1 = v1
    v2 = v2
    low = low
    high = high
    studio = studio
    foreign = foreign
    Invalid = Invalid
    Batches <- TwoBatches
    Mvp <- OneType
    Published <- ForeignRules
    Editions <- TwoEditions
    Terms <- TwoTerms
    Yaml <- MCYaml
    Edits <- MCEdits
    Orders <- TwoCustomers
    Room <- MCRoom
    MaxTime = 1
INVARIANTS
    TypeOK
    DecidedByItsRule
PROPERTIES
    HistoryOnlyGrows
    AloneItEnds
CHECK_DEADLOCK FALSE
