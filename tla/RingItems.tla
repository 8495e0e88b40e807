------------------------------ MODULE RingItems ------------------------------
(***************************************************************************)
(* One ring buffer of any of the three types, used by a client that sends, *)
(* receives and returns items in any order. Every call's critical section  *)
(* is one step on the storage of RingBuffer; who waits for which semaphore *)
(* is the business of RingTasks.                                           *)
(***************************************************************************)
EXTENDS RingBuffer

CONSTANTS
    ItemRequest,    \* the xBufferSize asked for a buffer of items
    ByteRequest,    \* the xBufferSize asked for a byte buffer
    ItemSizes,      \* the sizes of the items that are sent
    MaxSizes,       \* xMaxSize of xRingbufferReceiveUpTo
    Hoarding        \* may the client hold all of a full buffer, in several items

ASSUME ItemsAssumption ==
    /\ ItemRequest \in Nat /\ ItemRequest > 2 * Header
    /\ ByteRequest \in Nat \ {0}
    /\ ItemSizes \subseteq Nat
    /\ MaxSizes \subseteq Nat
    /\ Hoarding \in BOOLEAN

VARIABLES
    rb,     \* the ring buffer
    held    \* the items the client received and did not return

vars == <<rb, held>>

Init ==
    /\ \/ \E kind \in Kinds :
            rb = Create(kind, IF kind = "bytebuf" THEN ByteRequest
                              ELSE ItemRequest)
       \/ rb = CreateNoSplit(ItemRequest \div 2 - Header, 2)
    /\ held = {}

(* xRingbufferSend and xRingbufferSendFromISR, when the item fits. Sending *)
(* nothing to a byte buffer has no effect.                                 *)
Send(n) ==
    /\ n <= rb.max
    /\ ~(rb.kind = "bytebuf" /\ n = 0)
    /\ CheckItemFits(rb, n)
    /\ rb' = CopyItem(rb, n)
    /\ UNCHANGED held

(* A client that does not hoard leaves something unread of a full buffer   *)
(* while it holds more than one item.                                      *)
Restrained(got) ==
    Hoarding \/ Cardinality(held \cup got.items) <= 1
             \/ ~(got.rb.full /\ got.rb.waiting = 0)

Keep(got) ==
    /\ Restrained(got)
    /\ rb' = got.rb
    /\ held' = held \cup got.items

(* prvReceiveGeneric for xRingbufferReceive and xRingbufferReceiveUpTo,    *)
(* from a task or an interrupt                                             *)
GotOne(b, maxSize) ==
    LET got == IF b.kind = "bytebuf" THEN GetItemByteBuf(b, maxSize)
                                     ELSE GetItemDefault(b)
    IN  [rb |-> got.rb, items |-> {got.item}]

(* xRingbufferReceiveSplit takes the second part along with the first.     *)
GotBoth(b) ==
    LET head == GetItemDefault(b)
        tail == GetItemDefault(head.rb)
    IN  IF "SPLIT" \in head.item.flags
        THEN [rb |-> tail.rb, items |-> {head.item, tail.item}]
        ELSE [rb |-> head.rb, items |-> {head.item}]

Receive ==
    /\ CheckItemAvail(rb)
    /\ Keep(GotOne(rb, 0))

ReceiveUpTo(maxSize) ==
    /\ rb.kind = "bytebuf" /\ maxSize > 0
    /\ CheckItemAvail(rb)
    /\ Keep(GotOne(rb, maxSize))

ReceiveSplit ==
    /\ rb.kind = "allowsplit"
    /\ CheckItemAvail(rb)
    /\ Keep(GotBoth(rb))

(* vRingbufferReturnItem and its twin for interrupts                       *)
Return(item) ==
    /\ rb' = ReturnItem(rb, item.off)
    /\ held' = held \ {item}

Next ==
    \/ \E n \in ItemSizes : Send(n)
    \/ Receive
    \/ \E n \in MaxSizes : ReceiveUpTo(n)
    \/ ReceiveSplit
    \/ \E item \in held : Return(item)

Spec == Init /\ [][Next]_vars

------------------------------------------------------------------------------
(* The queue that lies in the storage, read off the headers from the free  *)
(* pointer to the write pointer.                                           *)

Bytes(b) ==
    LET live == IF b.full THEN b.size ELSE b.size - GetFreeSize(b)
    IN  [i \in 1 .. live |->
            [off |-> (b.free + i - 1) % b.size,
             state |-> IF i <= live - b.waiting THEN "client" ELSE "unread"]]

Lowest(S) == CHOOSE i \in S : \A j \in S : i <= j

(* The parts under the headers from the free to the write pointer; a dummy *)
(* is none.                                                                *)
Items(b) ==
    LET at == Walk(Follower(b), b.free, Turns(b))
        ends == {i \in 0 .. Turns(b) : at[i] = b.write /\ (b.full => i > 0)}
        unread == IF b.waiting = 0 THEN Lowest(ends)
                  ELSE Lowest({i \in 0 .. Turns(b) : at[i] = b.read})
        part(i) ==
            [off |-> at[i],
             state |-> IF "FREE" \in b.hdr[at[i]].flags THEN "freed"
                       ELSE IF i < unread THEN "client" ELSE "unread"]
        first[i \in 0 .. Turns(b)] ==
            IF i = 0 THEN <<>>
            ELSE IF "DUMMY" \in b.hdr[at[i - 1]].flags THEN first[i - 1]
            ELSE Append(first[i - 1], part(i - 1))
    IN  IF ends = {} THEN <<[off |-> -1, state |-> "lost"]>>
        ELSE first[Lowest(ends)]

Contents(b) == IF b.kind = "bytebuf" THEN Bytes(b) ELSE Items(b)

States(b) ==
    LET contents == Contents(b)
    IN  [i \in DOMAIN contents |-> contents[i].state]

(* Two items, as CreateNoSplit rounds them, may take more than the request.*)
MostParts ==
    LET items == (2 * Align(ItemRequest \div 2)) \div Header
        bytes == ByteRequest
    IN  IF items > bytes THEN items ELSE bytes

Queue == INSTANCE RingQueue WITH
    parts <- States(rb),
    Holders <- {"client"},
    Capacity <- MostParts,
    MaxParts <- MostParts

------------------------------------------------------------------------------

(* The pointers and the count stay within the storage.                     *)
TypeOK ==
    /\ rb.kind \in Kinds
    /\ {rb.write, rb.read, rb.free} \subseteq 0 .. rb.size - 1
    /\ rb.full \in BOOLEAN
    /\ rb.waiting \in 0 .. rb.size
    /\ \A item \in held : item.off \in 0 .. rb.size - 1

(* What the configASSERTs of the copying, getting and returning functions  *)
(* state: a header fits at the write pointer, what the read pointer finds  *)
(* is an item of a possible size, the second half of a split item lies     *)
(* before the first, and a held item is neither a dummy nor returned.      *)
AssertsHold ==
    rb.kind # "bytebuf" =>
        /\ rb.write % Word = 0 /\ rb.size - rb.write >= Header
        /\ CheckItemAvail(rb) =>
            LET first == GetItemDefault(rb).item
                second == GetItemDefault(GetItemDefault(rb).rb).item
            IN  /\ first.len \in 0 .. rb.max
                /\ "SPLIT" \in first.flags =>
                    /\ second.len \in 0 .. rb.max
                    /\ second.off < first.off
                    /\ "SPLIT" \notin second.flags
        /\ \A item \in held :
            /\ rb.hdr[item.off].len = item.len
            /\ rb.hdr[item.off].flags \cap {"DUMMY", "FREE"} = {}

(* An item that was received keeps its place until it is returned: the     *)
(* storage from the free to the write pointer still covers it, wherever    *)
(* the other items went (ringbuf.h: a call to vRingbufferReturnItem is     *)
(* required to free the item retrieved).                                   *)
HeldIsKept ==
    LET contents == Contents(rb)
    IN  \A item \in held : \E i \in DOMAIN contents :
            contents[i] = [off |-> item.off, state |-> "client"]

(* The storage is the bounded queue it promises to be: parts come out      *)
(* oldest first, none is lost, none appears, and space is reclaimed in the *)
(* order it was written, whatever the order of the returns.                *)
ImplementsQueue == Queue!QueueSpec

(* What waits in the storage can be received, and only that: the count,    *)
(* the pointers and the full flag never disagree on it.                    *)
UnreadIsAvailable ==
    LET unread == Queue!UnreadAt(States(rb))
    IN  /\ GetInfo(rb).waiting = Cardinality(unread)
        /\ CheckItemAvail(rb) <=>
            unread # {} /\ ~(rb.kind = "bytebuf" /\ held # {})

(* An item that fits has room where the copy puts it, behind a dummy or    *)
(* cut in two as the case may be: it ends before the tail and before the   *)
(* oldest part not reclaimed. An empty buffer accepts every size up to     *)
(* xMaxItemSize without looking, which is safe only because of what        *)
(* xRingbufferCreate takes for the worst case.                             *)
FitsMeansRoom ==
    \A n \in 0 .. GetMaxItemSize(rb) : CheckItemFits(rb, n) =>
        IF rb.kind = "bytebuf" THEN n <= GetFreeSize(rb)
        ELSE LET layout == Layout(rb, n)
                 last == layout[Len(layout)]
                 end == last.off + Header + Align(last.len)
             IN  /\ end <= rb.size
                 /\ (Len(layout) = 2 \/ rb.free > rb.write) => end <= rb.free

(* A client that has received and returned everything can send an item of  *)
(* any size again, wherever the pointers happen to stand.                  *)
DrainedTakesMax ==
    rb.waiting = 0 /\ held = {} => CheckItemFits(rb, GetMaxItemSize(rb))

(* ringbuf.h: the current free size is the maximum size an item can have   *)
(* if it was currently sent to the ring buffer. Left out is a free space   *)
(* too small for the headers, where the signed comparison of               *)
(* prvGetCurMaxSizeNoSplit and its twin goes wrong.                        *)
CurFreeSizeFits ==
    LET headers == CASE rb.kind = "nosplit" -> Header
                     [] rb.kind = "allowsplit" -> 2 * Header
                     [] rb.kind = "bytebuf" -> 0
    IN  (~rb.full /\ GetFreeSize(rb) >= headers) =>
            CheckItemFits(rb, GetCurMaxSize(rb))

(* A reader that asks before it receives learns whether the next item goes *)
(* on at the head of the storage, where its second part waits too, and is  *)
(* not misled by a dummy or by the header of an older item                 *)
(* (xRingbufferIsNextItemWrapped). With nothing unread the answer is about *)
(* an item it holds, or about nothing.                                     *)
WrapIsTold ==
    rb.kind # "bytebuf" /\ rb.waiting > 0 =>
        LET next == GetItemDefault(rb)
            told == GetInfo(rb)
            then == GetInfo(next.rb)
        IN  /\ IsNextItemWrapped(rb) <=> "SPLIT" \in next.item.flags
            /\ IsNextItemWrapped(rb) =>
                   /\ then.read = 0
                   /\ then.waiting > 0 /\ then.waiting = told.waiting - 1
                   /\ then.free = told.free /\ then.write = told.write

(* The storage can be trusted from any state: no assertion fails, the      *)
(* counts and the pointers agree on what is unread, an item that fits has  *)
(* its room, and what the buffer tells of itself (its free size, its       *)
(* longest item, whether the next one is cut in two) can be relied on.     *)
StorageIsSound ==
    /\ TypeOK /\ AssertsHold /\ UnreadIsAvailable
    /\ FitsMeansRoom /\ CurFreeSizeFits /\ WrapIsTold
==============================================================================
