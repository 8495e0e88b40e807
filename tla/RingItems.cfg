\* A storage of 40 bytes for items, in which 12 bytes are the most a no-split
\* buffer takes and 24 an allow-split buffer, and one of 6 for bytes.
SPECIFICATION Spec
CONSTANTS
    ItemRequest = 39
    ByteRequest = 6
    ItemSizes = {0, 3, 12, 24}
    MaxSizes = {0, 2}
    Hoarding = FALSE
INVARIANTS
    HeldIsKept
    DrainedTakesMax
    StorageIsSound
PROPERTY ImplementsQueue
