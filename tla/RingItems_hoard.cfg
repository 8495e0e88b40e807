\* As RingItems.cfg, with a client that may hold several items of a full
\* buffer and return the newest of them first.
SPECIFICATION Spec
CONSTANTS
    ItemRequest = 39
    ByteRequest = 6
    ItemSizes = {0, 3, 12, 24}
    MaxSizes = {0, 2}
    Hoarding = TRUE
INVARIANT HeldIsKept
