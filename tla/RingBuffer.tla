----------------------------- MODULE RingBuffer -----------------------------
(***************************************************************************)
(* The storage of a ring buffer, espressif_code/freertos/ringbuf.c: the    *)
(* functions that the public calls run inside a critical section, as       *)
(* operators on a record that stands for Ringbuffer_t.                     *)
(*                                                                         *)
(*   kind          which functions xRingbufferCreate installed             *)
(*   size, max     xSize and xMaxItemSize                                  *)
(*   write, read, free   the pointers, as offsets from pucHead in bytes    *)
(*   full          rbBUFFER_FULL_FLAG                                      *)
(*   waiting       xItemsWaiting                                           *)
(*   hdr           what lies at every aligned offset when it is read as an *)
(*                 ItemHeader_t: a header, or Junk (payload, or memory     *)
(*                 never written). Headers of reclaimed items stay.        *)
(*                                                                         *)
(* Payload bytes are left out: where an item lies decides what it holds.   *)
(***************************************************************************)
EXTENDS Integers, Sequences, FiniteSets

Word == 4       \* portBYTE_ALIGNMENT
Header == 8     \* rbHEADER_SIZE, two words
Align(n) == ((n + Word - 1) \div Word) * Word

Kinds == {"nosplit", "allowsplit", "bytebuf"}
ItemFlags == {"FREE", "DUMMY", "SPLIT"}
Junk == [len |-> -1, flags |-> {}]
Cells(size) == {o \in 0 .. size - Word : o % Word = 0}

\* mutant: the worst case of an allow-split buffer takes one header only
MaxForgetsSplit(kind, request) ==
    LET size == IF kind = "bytebuf" THEN request ELSE Align(request)
    IN  [kind |-> kind, size |-> size,
         max |-> CASE kind = "nosplit" -> Align(size \div 2) - Header
                   [] kind = "allowsplit" -> size - Header
                   [] kind = "bytebuf" -> size,
         write |-> 0, read |-> 0, free |-> 0, full |-> FALSE, waiting |-> 0,
         hdr |-> [o \in Cells(IF kind = "bytebuf" THEN 0 ELSE size) |-> Junk]]

Create(kind, request) ==
    LET size == IF kind = "bytebuf" THEN request ELSE Align(request)
    IN  [kind |-> kind, size |-> size,
         max |-> CASE kind = "nosplit" -> Align(size \div 2) - Header
                   [] kind = "allowsplit" -> size - 2 * Header
                   [] kind = "bytebuf" -> size,
         write |-> 0, read |-> 0, free |-> 0, full |-> FALSE, waiting |-> 0,
         hdr |-> [o \in Cells(IF kind = "bytebuf" THEN 0 ELSE size) |-> Junk]]

(* A buffer for so many items of that size.                                *)
CreateNoSplit(itemSize, num) ==
    Create("nosplit", (Align(itemSize) + Header) * num)

------------------------------------------------------------------------------
(* Sending *)

GetFreeSize(b) ==
    IF b.full THEN 0
    ELSE IF b.free > b.write THEN b.free - b.write
    ELSE b.free - b.write + b.size

CheckItemFitsDefault(b, n) ==
    LET total == Align(n) + Header
    IN  \/ b.write = b.free /\ ~b.full
        \/ b.free > b.write /\ total <= b.free - b.write
        \/ /\ b.free < b.write
           /\ \/ total <= b.size - b.write
              \/ /\ b.kind = "allowsplit"
                 /\ total + Header <= b.size - (b.write - b.free)
              \/ b.kind = "nosplit" /\ total <= b.free

CheckItemFitsByteBuffer(b, n) ==
    \/ b.write = b.free /\ ~b.full
    \/ b.free > b.write /\ n <= b.free - b.write
    \/ b.free < b.write /\ n <= b.size - (b.write - b.free)

CheckItemFits(b, n) ==
    IF b.kind = "bytebuf" THEN CheckItemFitsByteBuffer(b, n)
                          ELSE CheckItemFitsDefault(b, n)

Part(off, len, flags) == [off |-> off, len |-> len, flags |-> flags]

(* The headers an item of n bytes is written under: it wraps behind a      *)
(* dummy header when the rest of the storage is too short.                 *)
LayoutNoSplit(b, n) ==
    IF Align(n) + Header <= b.size - b.write
    THEN <<Part(b.write, n, {})>>
    ELSE <<Part(b.write, 0, {"DUMMY"}), Part(0, n, {})>>

(* The first part fills the rest of the storage; a rest that takes only a  *)
(* header becomes a dummy.                                                 *)
LayoutAllowSplit(b, n) ==
    LET rest == b.size - b.write - Header
    IN  IF Align(n) <= rest THEN <<Part(b.write, n, {})>>
        ELSE IF rest > 0
        THEN <<Part(b.write, rest, {"SPLIT"}), Part(0, n - rest, {})>>
        ELSE <<Part(b.write, 0, {"DUMMY"}), Part(0, n, {})>>

Layout(b, n) ==
    IF b.kind = "allowsplit" THEN LayoutAllowSplit(b, n) ELSE LayoutNoSplit(b, n)

(* A pointer too close to the tail for a header goes back to the head.     *)
Wrapped(b, p) == IF b.size - p < Header THEN 0 ELSE p

After(b, off, len) == Wrapped(b, off + Header + Align(len))

(* Writing a header and its payload ends every header they overlap.        *)
Put(hdr, part) ==
    [o \in DOMAIN hdr |->
        IF o = part.off THEN [len |-> part.len, flags |-> part.flags]
        ELSE IF o > part.off - Header /\ o < part.off + Header + part.len
        THEN Junk ELSE hdr[o]]

CopyItemDefault(b, n) ==
    LET layout == Layout(b, n)
        last == layout[Len(layout)]
        end == After(b, last.off, last.len)
        written == {i \in DOMAIN layout : "DUMMY" \notin layout[i].flags}
    IN  [b EXCEPT !.hdr = Put(Put(@, layout[1]), last),
                  !.write = end,
                  !.waiting = @ + Cardinality(written),
                  !.full = @ \/ end = b.free]

CopyItemByteBuf(b, n) ==
    LET end == (b.write + n) % b.size
    IN  [b EXCEPT !.write = end,
                  !.waiting = @ + n,
                  !.full = @ \/ end = b.free]

CopyItem(b, n) ==
    IF b.kind = "bytebuf" THEN CopyItemByteBuf(b, n) ELSE CopyItemDefault(b, n)

------------------------------------------------------------------------------
(* Receiving. A get returns the buffer after it and the item taken.        *)

CheckItemAvail(b) ==
    /\ ~(b.kind = "bytebuf" /\ b.read # b.free)
    /\ b.waiting > 0
    /\ b.read # b.write \/ b.full

\* mutant: a dummy is handed out like an item
DummyHandedOut(b) ==
    LET h == b.hdr[b.read]
    IN  [rb |-> [b EXCEPT !.waiting = @ - 1, !.read = After(b, b.read, h.len)],
         item |-> Part(b.read, h.len, h.flags)]

GetItemDefault(b) ==
    LET at == IF "DUMMY" \in b.hdr[b.read].flags THEN 0 ELSE b.read
        h == b.hdr[at]
    IN  [rb |-> [b EXCEPT !.waiting = @ - 1, !.read = After(b, at, h.len)],
         item |-> Part(at, h.len, h.flags)]

(* Everything up to the write pointer or the tail, or maxSize bytes of it  *)
(* (0 is no limit).                                                        *)
GetItemByteBuf(b, maxSize) ==
    LET run == IF b.read > b.write \/ b.full THEN b.size - b.read
                                             ELSE b.write - b.read
        n == IF maxSize = 0 \/ run <= maxSize THEN run ELSE maxSize
    IN  [rb |-> [b EXCEPT !.waiting = @ - n, !.read = (@ + n) % b.size],
         item |-> Part(b.read, n, {})]

------------------------------------------------------------------------------
(* Returning *)

(* Where the header after the one at an offset lies.                       *)
Follower(b) ==
    [o \in DOMAIN b.hdr |-> IF "DUMMY" \in b.hdr[o].flags THEN 0
                            ELSE After(b, o, b.hdr[o].len)]

(* Where one gets from an offset in so many steps.                         *)
Walk(step, start, steps) ==
    LET at[i \in 0 .. steps] == IF i = 0 THEN start ELSE step[at[i - 1]]
    IN  at

(* Every turn of the loops over headers passes at least a header.          *)
Turns(b) == b.size \div Header

(* The loop that moves the free pointer over returned items and dummies,   *)
(* as far as the read pointer. Dummies passed are marked free.             *)
AdvanceFree(b) ==
    LET follower == Follower(b)
        passed == {o \in DOMAIN b.hdr :
                    /\ o # b.read
                    /\ b.hdr[o].flags \cap {"FREE", "DUMMY"} # {}}
        step == [o \in DOMAIN b.hdr |-> IF o \in passed THEN follower[o] ELSE o]
        at == Walk(step, b.free, Turns(b))
        dummies == {o \in passed : "DUMMY" \in b.hdr[o].flags
                                    /\ \E i \in 0 .. Turns(b) : at[i] = o}
        marked == [o \in DOMAIN b.hdr |->
            IF o \in dummies
            THEN [b.hdr[o] EXCEPT !.flags = @ \cup {"FREE"}] ELSE b.hdr[o]]
    IN  [b EXCEPT !.free = at[Turns(b)], !.hdr = marked]

(* The header of a returned item; a first half is no longer one.           *)
MarkFree(b, off) ==
    LET flags == (b.hdr[off].flags \ {"SPLIT"}) \cup {"FREE"}
    IN  [b EXCEPT !.hdr[off].flags = flags]

\* mutant: the free pointer follows the read pointer, as in a byte buffer
FreeFollowsRead(b, off) ==
    [MarkFree(b, off) EXCEPT !.free = b.read, !.full = FALSE]

\* mutant: a full buffer that is freed in one go stays full
StaysFull(b, off) ==
    LET freed == AdvanceFree(MarkFree(b, off))
    IN  [freed EXCEPT !.full = @ /\ freed.free = b.write]

ReturnItemDefault(b, off) ==
    LET freed == AdvanceFree(MarkFree(b, off))
    IN  [freed EXCEPT
            !.full = @ /\ freed.free = b.write /\ freed.free # b.read]

ReturnItemByteBuf(b) == [b EXCEPT !.free = b.read, !.full = FALSE]

ReturnItem(b, off) ==
    IF b.kind = "bytebuf" THEN ReturnItemByteBuf(b) ELSE ReturnItemDefault(b, off)

------------------------------------------------------------------------------
(* xRingbufferGetCurFreeSize *)

(* xFreeSize is signed and xMaxItemSize is a size_t: the comparison at 498 *)
(* and 528 takes a negative size for a very large one.                     *)
Limited(b, n) == IF n < 0 \/ n > b.max THEN b.max ELSE n

GetCurMaxSizeNoSplit(b) ==
    LET tail == b.size - b.write
        room == IF b.write < b.free THEN b.free - b.write
                ELSE IF tail > b.free THEN tail ELSE b.free
    IN  IF b.full THEN 0 ELSE Limited(b, room - Header)

GetCurMaxSizeAllowSplit(b) ==
    LET room == IF b.write = 0 /\ b.free = 0 THEN b.size - Header
                ELSE IF b.write < b.free THEN b.free - b.write - Header
                ELSE b.free + (b.size - b.write) - 2 * Header
    IN  IF b.full THEN 0 ELSE Limited(b, room)

GetCurMaxSizeByteBuf(b) ==
    LET room == b.free - b.write
    IN  IF b.full THEN 0 ELSE IF room <= 0 THEN room + b.size ELSE room

GetCurMaxSize(b) ==
    CASE b.kind = "nosplit" -> GetCurMaxSizeNoSplit(b)
      [] b.kind = "allowsplit" -> GetCurMaxSizeAllowSplit(b)
      [] b.kind = "bytebuf" -> GetCurMaxSizeByteBuf(b)

------------------------------------------------------------------------------
(* What the public functions tell of the storage                           *)

GetMaxItemSize(b) == b.max

GetInfo(b) == [free |-> b.free, read |-> b.read, write |-> b.write,
               waiting |-> b.waiting]

(* The test looks at the header under the read pointer, whatever it is.    *)
IsNextItemWrapped(b) == "SPLIT" \in b.hdr[b.read].flags
==============================================================================
