SPECIFICATION MessagesFairSpec
CONSTANTS
    MaxClicks = 4
    MaxInFlight = 1
    MaxMessages = 2
    MaxReceivers = 2
    MaxExpiries = 1
    MaxAlerts = 1
    MaxLosses = 1
    MaxRestarts = 1
    MaxUses = 4
INVARIANT OneTimer
INVARIANT TickFindsClient
INVARIANT NoClientForgotten
INVARIANT OneMessagePerClick
INVARIANT AlertSeen
PROPERTY ReceivingEnds
PROPERTY AlertsReachConsole
CHECK_DEADLOCK FALSE
