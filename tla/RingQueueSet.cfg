\* Two senders that interleave with each other, with interrupts and with the
\* reader; a storage that fills up; a semaphore that joins, leaves and joins
\* again while an event of it is still in the set, which is short enough to be
\* full.
SPECIFICATION FairSetSpec
CONSTANTS
    s1 = s1
    s2 = s2
    Senders = {s1, s2}
    Capacity = 2
    SetLength = 4
    MaxSends = 4
    MaxSetCalls = 3
INVARIANTS
    UnreadIsSelectable
    
PROPERTY EverythingIsRead
CHECK_DEADLOCK FALSE
