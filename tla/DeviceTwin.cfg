SPECIFICATION TwinFairSpec
CONSTANTS
    MaxClicks = 2
    MaxExercises = 2
    MaxEdits = 1
    MaxBegun = 3
INVARIANT OneConnectionPerDevice
INVARIANT UpdatedUnlessTouched
PROPERTY ScheduledUpdateEnds
PROPERTY ChangesReported
CHECK_DEADLOCK FALSE
