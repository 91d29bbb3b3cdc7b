\* Two flows of one tab, two polls at a time, buffers reused: each flow ends, and
\* no session that its id leads to stays.
SPECIFICATION FairSpec
CONSTANTS
    SessionIds = {s1, s2}
    Callbacks = {c1}
    Polls = {k1, k2}
    Lifetime = 0
    MaxPollTime = 1
    Reordered = FALSE
    BuffersReused = TRUE
    None = none
PROPERTIES
    FlowEnds
    SessionsReclaimed
