CONSTANTS
    Publishers = {p1, p2}
    Updaters = {u1, u2}
SPECIFICATION ConnFairSpec
INVARIANTS
    Turnstile
    ConnectionWithinLibraries
    TornDownAtEnd
PROPERTIES
    WaitersReleased
    CleanupHonoured
    ImplementsLifecycle
CHECK_DEADLOCK FALSE
