\* Two flows of one tab, two callbacks, one poll at a time (the theorems are
\* for any number), data races and reused buffers included.
SPECIFICATION Spec
CONSTANTS
    SessionIds = {s1, s2}
    Callbacks = {c1, c2}
    Polls = {k1}
    Lifetime = 1
    MaxPollTime = 1
    Reordered = TRUE
    BuffersReused = TRUE
    None = none
SYMMETRY Interchangeable
INVARIANTS
    TypeOK
    ConnectedIsApproved
