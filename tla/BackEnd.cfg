SPECIFICATION BackEndFairSpec
CONSTANTS
    Methods = {"writeLine", "reboot", "firmwareUpdate"}
    MaxCalls = 2
    MaxPolls = 2
INVARIANT BackEndTypeOK
INVARIANT NoOvertaking
INVARIANT OneTimerPerUpdate
INVARIANT TwinTellsLastUpdate
PROPERTY UpdateCompletes
PROPERTY MonitorFallsSilent
CHECK_DEADLOCK FALSE
