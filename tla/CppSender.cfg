SPECIFICATION FairSpec
CONSTANTS
    MESSAGE_COUNT = 4
    DOWORK_LOOP_NUM = 3
INVARIANT CallbackFindsMessage
INVARIANT AllReleasedAtEnd
PROPERTY QuitEnds
CHECK_DEADLOCK FALSE
