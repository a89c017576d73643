SPECIFICATION FairSpec
CONSTANT MaxSteps = 3
INVARIANTS
    TypeOK
    PassIsEarned
    StrictKeepsToSteps
    BlockedIsLeftAlone
    FailureIsLocated
PROPERTY ReplayEnds
\* A replay ends.
CHECK_DEADLOCK FALSE
