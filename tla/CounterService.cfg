SPECIFICATION FairSpec
CONSTANTS
    Replicas = {r1, r2, r3}
    Nobody = Nobody
    MaxCommits = 5
    MaxFaults = 4
PROPERTY ImplementsCommitCounter
PROPERTY CountingGoesOn
CHECK_DEADLOCK FALSE
