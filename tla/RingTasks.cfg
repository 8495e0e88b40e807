\* Two senders and two receivers, one of each patient; a storage of three
\* parts, items of one or two, one call from an interrupt. A byte buffer has a
\* single receiver.
SPECIFICATION FairSpec
CONSTANTS
    Capacity = 3
    MaxParts = 2
    s1 = s1
    s2 = s2
    r1 = r1
    r2 = r2
    isr = isr
    Senders = {s1, s2}
    Receivers = {r1, r2}
    Holders = {r1, r2, isr}
    Patient = {s1, r1}
    ByteReceivers = {r1}
    Interrupt = isr
    MaxInterrupts = 1
INVARIANTS
    ItemsAnnounced
    SpaceAnnounced
PROPERTIES
    ReadersProgress
    WritersProgress
