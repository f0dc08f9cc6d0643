SPECIFICATION FairSpec
CONSTANTS
    Replicas = {r1, r2}
    Nobody = Nobody
    Leaked = Leaked
    OffsetInterval = 2
    EqualEpochAnswers = {TRUE}
    MaxEvents = 4
    MaxFaults = 3
CHECK_DEADLOCK FALSE
INVARIANT NewestRunHasHighestEpoch
INVARIANT PrimaryIsNeverOutbid
INVARIANT RedeliveryBounded
PROPERTY ImplementsCheckpointedReader
PROPERTY ResumesAfterFailover
PROPERTY DeposedRunEnds
