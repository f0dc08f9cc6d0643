SPECIFICATION FairSpec
CONSTANT
    MaxFailures = 4
INVARIANT DownloadedIsTheResult
INVARIANT StaleOnlyAfterFailure
PROPERTY EndsUnlessBlocked
CHECK_DEADLOCK FALSE
