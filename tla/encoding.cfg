SPECIFICATION Spec
CONSTANTS
    Scorers = {s1, s2}
    Modules = {m1, m2}
    Scores = {88, 101}
    NoHash = NoHash
    NoOpening = NoOpening
    Port = TRUE
INVARIANTS
    ProtocolCommitmentsOpen
CHECK_DEADLOCK FALSE
