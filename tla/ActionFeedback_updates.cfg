\* Creations race for a key and with updates, while labels are made, by one request or by two.
SPECIFICATION Spec
CONSTANTS
    Opportunities = {o1, o2}
    Keys = {k1, k2}
    Types <- MCTypes
    Outcomes <- MCOutcomes
    Statuses = {}
    Posts = {p1, p2}
    Patches = {q1, q2}
    Materializers = {m1, m2}
    From = 1
    Until = 3
    None = None
    MaxTime = 4
CONSTRAINT TwoMakersWithOneCreation
INVARIANTS
    TypeOK
    AnswersAgree
    ConvertedAfterEngagement
    DashboardIsBacked
    LabelIsRecorded
PROPERTY LastOutcomeWins
SYMMETRY Symmetry
CHECK_DEADLOCK FALSE
