\* Two materializers of one snapshot mix its columns.
SPECIFICATION Spec
CONSTANTS
    Opportunities = {o1}
    Keys = {k1}
    Types <- LabelTypes
    Outcomes <- MCOutcomes
    Statuses = {}
    Posts = {p1}
    Patches = {q1, q2}
    Materializers = {m1, m2}
    From = 1
    Until = 4
    None = None
    MaxTime = 5
INVARIANT LabelIsOfItsReference
SYMMETRY Symmetry
CHECK_DEADLOCK FALSE
