SPECIFICATION FairSpec
CONSTANTS
    Task = {1, 2, 3}
    Threads = 2
    Scalings = {10}
    HoldTicks = 2
INVARIANTS TaskOutlivesJob
PROPERTIES HoldTakesTime ControlComesBack
CHECK_DEADLOCK FALSE
