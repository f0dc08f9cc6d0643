SPECIFICATION FairSpec
CONSTANTS
    wifiPairs = 3
    Working = {1}
    Timeout = 7
    BlockDelay = 2
    LoopDelay = 1
    OnlineTime = 13
    Wrap = 31
    MaxDrops = 2
    NtpWait = 2
    NtpRetries = 3
    ConnectDelay = 1
    ConnectTime = 1
    FailureDelay = 1
    ReadTimeout = 1
    ResponseLimit = 3
    PublishDelay = 5
INVARIANT TypeOK
INVARIANT RetriedInTime
PROPERTY AttemptsSpaced
PROPERTY TimelessOnlyUnanswered
PROPERTY KeepsPublishing
