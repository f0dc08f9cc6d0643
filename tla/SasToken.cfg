SPECIFICATION TokenSpec
CONSTANTS
    Compress <- MCCompress
    Initial <- MCInitial
    Devices <- MCDevices
    TARGET_URL <- MCTarget
    EVENT_HUB_END_POINT <- MCEndPoint
    Scheme <- MCScheme
    sasExpiryDate <- MCExpiry
    HostName <- MCHostName
    DeviceId <- MCDeviceId
    SharedAccessKey <- MCKeyName
INVARIANT TokenTypeOK
INVARIANT HubAcceptsToken
INVARIANT OnlyTerminatorOutside
CHECK_DEADLOCK FALSE
