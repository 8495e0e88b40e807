\* Start-up, button, sleep and connection in all three builds.
CONSTANTS
    Publishers = {"main", "loop"}
    Updaters = {}
    Builds = {"LAB0", "LAB1", "LAB2"}
    SleepTicks = 2
    MaxPresses = 2
SPECIFICATION FairSpec
INVARIANTS
    ResetFindsTimer
    NoActionGoingDown
PROPERTIES
    CurrentTimerHonoursReset
    PressHandled
    TriesToSleep
CHECK_DEADLOCK FALSE
