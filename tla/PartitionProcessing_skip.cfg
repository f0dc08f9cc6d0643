SPECIFICATION Spec
CONSTANTS
    Replicas = {r1, r2}
    Nobody = Nobody
    Leaked = Leaked
    OffsetInterval = 2
    EqualEpochAnswers = {TRUE, FALSE}
    MaxEvents = 3
    MaxFaults = 2
CHECK_DEADLOCK FALSE
INVARIANT PicksUpWhereItLeftOff
