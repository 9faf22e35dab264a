\* Two versions, two requests at a time; ada has every role, bob reviews and releases.
SPECIFICATION Spec
CONSTANTS
    Versions = {v1, v2}
    Bootstrap = boot
    Authors = {ada}
    Reviewers = {ada, bob}
    Releasers = {ada, bob}
    Workers = {w1, w2}
    Nobody = nobody
SYMMETRY Symmetric
INVARIANTS
    TypeOK
    OneServed
    ReleaseIsReviewed
PROPERTIES
    ReleaseSynchronises
