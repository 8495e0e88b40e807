# A verification project for the M5StickC workshop firmware

TLA+ models of the firmware under `src/`, the TLC runs that check them and the
theorems about them that TLAPS proves. In what follows
`app/` is `src/m5stickc/aws_demos/application_code/`.

    tlc -workers 2 -config LabConnection.cfg LabConnection     # any run of PROJECT.json
    tlapm LabConnection_proofs.tla                             # any proof module

## 1. The system

The firmware runs on a single-core FreeRTOS build of the ESP32
(`CONFIG_FREERTOS_UNICORE=y`, sdkconfig:337). One of three labs is compiled in:

* **LAB0**, the default (`m5stickc_lab_config.h:22`): the device sleeps 15 s after
  the last button event.
* **LAB1**: button A publishes an MQTT message. The press that wakes the device is
  published during the start-up.
* **LAB2**: a simulated air conditioner, kept in step with a Thing Shadow.

### Components

| Component | State it keeps | Operations | Meets the others through |
|---|---|---|---|
| connection layer, `app/m5stickc_lab_connection.c` | three binary semaphores, the MQTT connection handle, `connectionEstablished`, the libraries it initialised, its callback parameters | `connection_init` starts a detached thread that runs `m5stickc_lab_run`; `ready_wait`, `publish`, `update_shadow`, `cleanup` | the semaphores; callbacks of the Shadow library |
| demo program, `app/m5stickc_demo.c` | `m5stickc_lab1_semaphore`, registered handlers | `m5stickc_demo_init`, `m5button_event_handler`, `prvSleepTimerCallback`, `prvDeepSleep`, the battery display | calls all the labs; runs in three tasks |
| lab 0, `app/m5stickc_lab0_sleep.c` | `xSleepTimer` | `lab0_init` creates and starts it, `lab0_event` resets it | FreeRTOS timer daemon |
| lab 1, `app/m5stickc_lab1_aws_iot_button.c` | the device's identifier, topics | `lab1_init`, `lab1_action` | connection layer |
| lab 2, `app/m5stickc_lab2_shadow.c` | reported and desired state, one static report buffer, an AirCon timer per network connect | network callbacks, `prvAirConTimerCallback`, `_shadowDeltaCallback`, `_reportShadow` | connection layer; timer daemon; MQTT task |
| ring buffer, `app/espressif_code/freertos/ringbuf.c` | storage with three pointers and a full flag, item headers, a count, two binary semaphores | create, send, receive (whole, split, up to a size), return, from tasks and interrupts; free size; queue sets; delete | any number of tasks and interrupts |
| smart config acknowledgement, `app/espressif_code/smartconfig_ack/` | `s_sc_ack_send` | `sc_ack_send`, `sc_ack_send_stop`, the sending task | one flag |
| SHA ports, `app/espressif_code/mbedtls/port/esp_sha*.c` | a mode, counters and a digest state per context; the lock of the engine | the mbedTLS hash calls; one compression function each, in hardware and in software | the engine, shared by all contexts |
| bignum port, `port/esp_bignum.c` | the lock of the RSA accelerator, its registers, the semaphore its interrupt gives | multiplication, modular multiplication and exponentiation | the accelerator, shared by all tasks |
| mbedTLS helpers, `port/mbedtls_debug.c`, `esp_mem.c`, `esp_hardware.c` | the threshold and the log level | enable and disable the log, the log callback; an allocator, a random source | the TLS library |
| main, `app/main.c` | the flash partition for settings, the queue of UART events | `app_main`, the start of the Bluetooth stack, `getUserMessage`, the network event hook | starts everything; the event loop |
| TCP/IP adapter, `app/espressif_code/tcpip_adapter/` | the old address of each interface | what the Wi-Fi library calls, most of it stubs | FreeRTOS+TCP |
| ethernet port, FreeRTOS extras, configuration headers | none | empty or forwarding functions, compile-time values | |

### Behaviours that are hard to test

* Three to five tasks (start-up, event loop, timer daemon, connection thread, MQTT
  task) meet at binary semaphores, some of which are destroyed while others wait.
* Every step of bringing a connection up may fail and must be undone in order.
* Button, timer and network events arrive during the start-up and the tear-down.
* Two tasks write one report buffer; what is sent is what it holds later.
* A stopped acknowledgement can be revived by the next one; contexts of several tasks
  compete for one SHA engine and are cloned, restarted and freed while they hold it.
* Tasks take turns at one RSA accelerator, whose operands, mode, interrupt and
  semaphore outlive an operation; products too long for it are split again and again.
* Semaphores of a ring buffer join and leave a queue set of fixed length while they are given
  and taken.
* A product may replace one of its factors, whose sign and limbs are still needed.
* The network may never come up.
* The power fails between the two halves of repairing the flash.
* Temperatures are 8 bits wide, voltages 16, documents as long as their buffer or not.
* In the ring buffer, sizes, wraps, dummies, split items and out-of-order returns
  all meet in one full flag, and two binary semaphores stand in for counts.

The complete list, each at its line, is `hazards` in PROJECT.json.

### What makes each component correct

* **Connection layer.** Nobody passes `ready_wait` before the attempt is over; when it
  is over, everybody passes; a clean up request is not lost; Shadow updates exclude
  each other; a connection never outlives its libraries; nothing is left at the end.
* **Demo program.** The sleep timer exists before an event resets it; a reset timer
  does not fire early; a press is handled; the device gets to sleep, unless an action waits
  for a connection that never comes; no button action runs while lab 1 is going down; nothing
  is published over a freed connection.
* **Lab 2.** The room never gets colder than the target, settles at the target or the
  limit; a report returns; the cloud converges to the power the device has.
* **Ring buffer.** It is a bounded queue: nothing is lost, invented, reordered or
  overwritten while it is held; a legal item can be sent again once it is drained; no
  task waits for ever next to data or space.
* **Acknowledger.** The link is over after 30 ACKs and not before; a stop is obeyed
  within one ACK and ends every task; sockets are closed.
* **SHA ports.** The engine has one user and is always given back; every context computes
  the digest of its own message, in hardware or in software; the unrolled rounds with their
  renamed registers are those of FIPS 180-4.
* **Bignum port.** The accelerator has one user; a wait ends with the operation it waits
  for; a result reported as good is right, however long the operands; every call returns.
* **main.** No content of the flash makes the device restart for ever; a read of announced
  bytes never blocks.
* **Texts of the labs.** No topic, payload or identifier is cut off, and the battery level is
  not for any voltage; the report of lab 2 is, but only for powers too long for it.

## 2. The modules

| Module | Models | Built on |
|---|---|---|
| `ConnectionLifecycle` | what the connection layer promises, abstractly | |
| `LabConnection` | the layer: the detached thread, one action per step between two calls that can fail or block, and every call of its clients | implements `ConnectionLifecycle` |
| `LabConnection_proofs` | theorems about it | `LabConnection` |
| `M5Demo` | the program from boot to sleep in all three builds, with labs 0 and 1 | extends `LabConnection` |
| `AirCon` | lab 2's state, timer arithmetic and delta handling | |
| `Lab2Shadow` | lab 2 as a whole: reports, network, tear-down | extends `LabConnection`, `AirCon` |
| `Lab2Shadow_proofs` | theorems about it as a client of the layer | `Lab2Shadow`, `LabConnection_proofs` |
| `RingQueue` | what a ring buffer promises, abstractly | |
| `RingBuffer` | the critical sections of `ringbuf.c` as operators on a record | |
| `RingItems` | one buffer under any order of sends, receives, returns | extends `RingBuffer`, implements `RingQueue` |
| `RingTasks` | the blocking calls and the two semaphores, and interrupts | extends `RingQueue` |
| `RingTasks_proofs` | theorems about it | `RingTasks` |
| `RingQueueSet` | senders, an interrupt and a reader on a queue set that the semaphores of the buffer join and leave | |
| `RingBuffer_proofs` | theorems about the storage and the queue set | `RingItems`, `RingQueueSet` |
| `SmartConfigAck` | the sending tasks, the calls that start and stop them, their flag and their sockets | |
| `Digest` | what a message digest promises, abstractly | |
| `ShaEngines` | the contexts of the three SHA ports and the lock of their engine | implements `Digest` |
| `MCShaEngines` | the symmetry of the contexts, for TLC | extends `ShaEngines` |
| `ShaEngines_proofs` | theorems about it | `ShaEngines` |
| `ShaWords` | machine words and the C operators on them | |
| `ShaTables` | the constants of the three files | `ShaWords` |
| `ShaStandard` | the compression functions as FIPS 180-4 writes them | `ShaTables` |
| `ShaRounds` | the three software compression functions as the code unrolls them | extends `ShaTables`, implements `ShaStandard` |
| `MCShaRounds` | the example messages of the standard and their digests, for TLC | extends `ShaRounds` |
| `ShaRounds_proofs` | theorems about it | `ShaRounds` |
| `MpiArith` | the arithmetic of the bignum port and of the accelerator | |
| `EspBignum` | its three functions, the lock, the interrupt and the semaphore | extends `MpiArith` |
| `MCEspBignum` | the calls of the tasks, for TLC | extends `EspBignum` |
| `EspBignum_proofs` | theorems about it | `EspBignum` |
| `AppMain` | `app_main` from power on to the demos, with the flash and the Bluetooth builds | |
| `UserInput` | the UART events and `getUserMessage` | |
| `TcpipAdapter` | the adapter, and the network event hook | |
| `MbedtlsDebug` | the debug log of mbedTLS | |
| `LabTexts` | the texts the labs write into fixed buffers; the battery display | |
| `Device` | the six modules that share no variable with another: the five above and `AirCon` | extends all of them |
| `Device_proofs` | theorems about the demo program, the texts, the UART input, the air conditioner and the smartconfig acknowledger | `M5Demo`, `Device`, `SmartConfigAck`, `LabConnection_proofs` |

`map` in PROJECT.json gives the source lines of every definition. A definition
commented as a mutant is a bug the code does not have; the runs show that
the properties would catch it.

### How state and actions correspond to the code

**LabConnection.** `sem` holds the three semaphores (`none`, `empty`, `full`,
`destroyed`), `thread` the program counter of `m5stickc_lab_run`, `handle` and `conn` the
variable `_mqttConnection` and the object behind it (they part company after the
disconnect, because the handle is not reset), `libsInit` and `libs` the local flag and
the libraries truly initialised, `call` where every client is. Each label of `thread` is
one stretch of code between two points at which another task can see a difference.
Every library call may fail where the code tests for it. Taking a destroyed semaphore
is undefined: `CanTake` lets it succeed, and no fairness makes it.

**M5Demo** adds the counters of the start-up, the handler and the sleep callback,
`m5stickc_lab1_semaphore`, at most two timers and their remaining ticks, and ends a
behaviour when the device sleeps, restarts or panics: each loses the RAM, so the next
boot is a behaviour of its own from `Init`, with `woken` saying why. `WaitsForConnection` names the state
in which an action of lab 1 waits, with the semaphore, for a connection nobody is bringing up.

**Lab2Shadow** splits `_reportShadow` where the code can be preempted: reading the state,
formatting the shared buffer, taking `shadowDelta`, the library reading the buffer.

**RingBuffer** keeps the record `rb` for `Ringbuffer_t`: offsets from `pucHead` for the
pointers and, at every aligned offset, the header that a read finds there; headers of
reclaimed items stay behind as they do in memory and payload overwrites them with `Junk`.
The loop of `prvReturnItemDefault` is a recursive function (`Walk`); both copy functions are one
operator over the layout of headers each of them writes.

**RingTasks** takes the storage for the `RingQueue` that `RingItems` shows it to be.
What the abstraction loses, how items of different sizes fragment the space, comes back
as a choice: an item that would fit by its number of parts may not fit unless the
storage is empty, and a storage may count as full early. For a byte buffer both
are exact. With one core an interrupt runs to its end between two steps of the
tasks, so a call from one is a single action.

**SmartConfigAck** has one task per call of `sc_ack_send`; `pc` stands before the next
statement that reads the flag or calls out, so that a stop or another call can fall
between any two. Four history variables (`opened`, `sent`, `late`, `overlapped`) count what the
properties speak of. Who calls is the closed smartconfig library: the model lets it call
and stop at any time.

**ShaEngines** keeps for every context the record of the code, with a digest state given
by the algorithm whose initial values it started from and the blocks hashed into it. The
three files share one structure; `family`, chosen in `Init`, says which one it is, and
contexts of different families share nothing. A call is one action, because all it
shares is the test of the lock at its first block and the engine it then owns; `finish`
is two, so that others can find the engine locked by a context about to give it back. The
owner follows the rules of mbedTLS: update, clone and finish a started context only, clone
into a fresh one, and after a finish start again or free. Words have 4 bits and blocks 4
bytes, of which the length field takes two (one for each word).

**RingQueueSet** counts items (their storage is `RingItems`) and keeps what `RingTasks` has
no room for: which semaphore is a member of the set, which is given, and how many events
of it the set holds. `Join` and `Leave` are the critical sections of the four functions
at `ringbuf.c:1054`; taking a semaphore leaves its event behind, as FreeRTOS does. The set has
the length it was created with (`SetLength`). FreeRTOS, which is not in `src/`, asserts that it has room
for an event (`Notify`); an assertion that fails aborts the program
(`CONFIG_FREERTOS_ASSERT_FAIL_ABORT`, sdkconfig:348), so `aborted` ends the behaviour.

**ShaRounds** has the real words of 32 and 64 bits, as sets of bit numbers, so that a shift
or an exclusive or is the set operation it stands for. One step is one call of the macro
`P` with the registers named in rotated order; no register is ever moved. The schedule is
the ring of sixteen words (SHA-1), the array filled round by round (SHA-256) or in advance
(SHA-512), and the rolled loop of `MBEDTLS_SHA256_SMALLER` is a build of its own. The
refinement to `ShaStandard` gives the standard's registers a to h the C variables that carry
these roles in the round at hand.

**EspBignum** takes a call apart where the code acquires the accelerator, powers it, loads
it, starts it, waits, reads and releases. Numbers are integers and are computed in full;
what is small is the machine: limbs of 2 bits, blocks of 4, a multiplier of 4 bits, an
accelerator of 8. `stack` holds the activations of `mpi_mult_mpi_overlong`. The result of a product may be
one of its factors (`into` of a call); `factors` keeps with each factor the place of its limbs: an
mpi of its own (`own`), the result mpi itself (`same`), or limbs the result mpi had before it was grown for
a split (`slice`), which the code may have freed or overwritten by the time it reads them: `Found`
lets such a read return any number of that many limbs. `Copied` is the copy of a product by 1 or
-1, after which the code reads a sign it may have overwritten. The other two functions load their
operands before they write the result. With `interrupts`
the wait is the interrupt and its semaphore, else polling.

**Device.** The six modules below it share no variable, so a behaviour lets one of them run,
chosen at the start, and the sum of their state spaces takes the place of the product.
`LabTexts` reduces a text to its length and the size of its buffer. The lengths come from the values:
the battery level is computed from the voltage with the code's 16 bits, and power and temperature of
a report are any 8 bits, as a delta can set them (`m5stickc_lab2_shadow.c:339` to `:349`).

## 3. The runs

Passing runs (bounds in the `.cfg` files):

| Run | Question | Bounds and why they are enough |
|---|---|---|
| `connection` | Do the turnstile, the lifetimes and the progress of the layer hold under every failure? Does it implement the lifecycle? | Two clients of either kind: tokens are lost or doubled between two. The proofs cover any number. |
| `demo` | All three builds with the connection thread: is there a timer for every reset in LAB0, is the current timer's reset honoured, is no action taken while LAB1 goes down, is a press handled, and does the device try to sleep from its boot on, with a network that may never come up? | 2 ticks per period, 2 presses: one being handled, one behind it; a press before, within and after a period. The proofs cover any period and any number of presses. |
| `lab2` | Return and convergence of reports. | Three temperatures (the 8-bit arithmetic is in `device`), one network session, two deltas: the second one overtakes the report of the first. |
| `ring_items` | Is the storage of each type the queue it promises? | 40 bytes for items: the largest no-split item is 12, the largest allow-split item 24, sizes 0, 3 (padded), 12 and 24 produce dummies, splits with an empty and a filled rest, and every position of the pointers; 6 bytes for a byte buffer. The proofs cover any sizes. |
| `ring_tasks` | Are the two binary semaphores enough? | Two senders, two receivers, one of each with a time-out, a storage of three parts, items of one or two parts, one call from an interrupt. The proofs cover the invariants for any number, and show that the tasks use the queue as `RingQueue` promises. |
| `ring_set` | Does the queue set tell the reader of everything, and when does it have room for it? | Two senders and an interrupt, two places, four items: the storage fills, empties and fills again; three set calls: join, leave, join with an event left over. A set of four events is too short for three joins and long enough for two. The proof covers any number and any length. |
| `smartconfig` | Are the stops and the sockets in order when acknowledgements overlap? | Three calls, two ACKs each: one call to run, one to revive it, one to revive it again. The proofs cover any number of both. |
| `sha` | Is every digest the digest of its message, and is the engine shared correctly? | Two contexts (one in the engine, one that finds it locked or is its clone); messages of 0, 5, 10, 12, 15 and 17 bytes leave every remainder of a block, lie on both sides of the padding test and carry into the second word at 16. The proofs cover any number of contexts, blocks of any length and any sizes. |
| `sha_rounds` | Are the unrolled rounds those of the standard? | The published one-block and two-block examples of SHA-1, 224, 256, 384 and 512 at full width; the proof covers every block. |
| `mpi` | Is every result right, and is the accelerator shared correctly? | Two tasks, one with factors on both sides of each limit (trivial, multiplied, failed over, split once and twice, negative), results in an mpi of their own and in either factor, moduli of 0 and 1, cached inverses of two lengths and a call that is refused; the other one competes. The proofs cover any calls, of any length, and any number of tasks. |
| `device` | Does the device come up whatever the flash holds, do reads not block, which text does not fit, does the room come to rest? | Three faults: a full flash, a cut in the repair, a failing call; all 256 temperatures with targets 0, 1, 18, 40, 255, at and between the ends; voltages on both sides of 3 V, of the cap, and at the ends of 12 bits; powers of one, two and three digits with temperatures of one to three. |

One run refutes what the code says, listed under `findings`:

| Run | What it shows |
|---|---|
| `ring_overwrite` | Items of a full ring buffer returned out of order: the full flag is cleared although nothing was reclaimed, and the next send overwrites an item that is held. |

`RingItems` therefore has the constant `Hoarding`. With FALSE the client keeps
something unread of a full buffer as long as it holds more than one item; that is
the discipline under which the library keeps its promise, and `ring_items` shows that
it suffices.

### Fairness

* A task that is not blocked runs on (weak fairness of its steps): FreeRTOS shares the
  core between tasks of one priority and none of these loops.
* A task waiting for a semaphore that is given again and again gets it (strong
  fairness of the take) in the lab modules: FreeRTOS wakes the waiters of one priority
  in the order in which they came.
* Library calls return by their time-outs; the auto-reload timer keeps firing.
* Over a connection that stays open not every Shadow update fails (`lab2` only).
* `EspBignum`: the accelerator completes what it was started for and its interrupt is served;
  a task waiting for the lock gets it (strong fairness), because `_lock_acquire` takes a
  FreeRTOS mutex, which serves its waiters in order.
* `Device`: `app_main` runs on and the AirCon timer keeps firing (weak fairness). Faults,
  events and calls need not come.
* `RingTasks` and `RingQueueSet` assume weak fairness only: in the former somebody of each side makes progress; that a
  given task is not overtaken for ever is not claimed; in the latter there is one reader. A receiver returns what it holds
  and comes back; nobody has to send.
* `SmartConfigAck`: the tasks run; an address need not come, a send may always fail.
* Nobody has to press a button, no delta has to arrive, and the network of `connection` and
  `demo` need not come up. Nothing in the program brings it up for sure, so `TriesToSleep` says what a
  LAB1 device does without it: it may stay in `WaitsForConnection` for ever.

Deadlock is checked in `ring_items`, `ring_tasks`, `smartconfig`, `sha`, `sha_rounds` and `mpi`. In
the other runs the system may stop: the device sleeps, the thread is torn down, `app_main` has
returned, everything sent has been read.

## 4. What is proved

TLAPS proves, for every value of the constants that meets the named assumptions:

* **`LabConnection_proofs`** (`RolesAssumption`: a client publishes or updates, not both):
  type correctness, `Turnstile`, `ReadyMeansSettled`, `ConnectionWithinLibraries`,
  `TornDownAtEnd`, `UpdatesExclusive`, and that the layer implements `ConnectionLifecycle`.
  Three invariants, each inductive relative to the types:
  * `TurnstileInv` adds to the turnstile that the readiness semaphore is never
    destroyed and exists from the start of the thread on;
  * `LifetimeInv` ties the flags `librariesInitialized` and `connectionEstablished`, on
    which the tear-down branches, to what is really initialised, label by label;
    without it the two flags could disagree with the libraries in the induction;
  * `UpdateInv` says that an update under way holds the token of `shadowDelta`.

  The refinement takes each step to a lifecycle step or to a stutter, action by action.
* **`RingTasks_proofs`** (`QueueAssumption`, `TasksAssumption`): `TypeOK`, `SpaceAnnounced`,
  `ItemsAnnounced` if a byte buffer has a single receiver (`LoneByteReceiver`), and `QueueSpec`: the
  tasks and interrupts are clients as `RingQueue` expects them.
  * Lemmas on `Sent`, `Taken`, `Returned` and `Reclaim` say what they do to the length and the
    entries of a queue; `LowestIndex`, by well-founded induction, gives `Reclaim` its first
    live entry.
  * `SpaceAnnounced` is inductive with the types: a sender that keeps the free semaphore
    has just looked at a storage that was not empty, so the return that empties it is
    still to come and gives the semaphore.
  * `ItemsAnnounced` needs `Lending`: whoever holds parts is between a get and a return,
    and only receivers of a byte buffer hold bytes. It follows that a receiver
    that looks while something is unread always finds it (`LookingFinds`), so the
    semaphore it took is not wasted.
  * `QueueSpec` needs that a receiver still holds what it is about to return (`HoldersHold`):
    no send, receive or return of somebody else takes a part away, also when space is
    reclaimed in between (`SentKeeps`, `TakenKeeps`, `ReturnedKeeps`).
* **`RingBuffer_proofs`**, the storage (`ItemsAssumption`, and `~Hoarding`): `ImplementsQueue`, `HeldIsKept`,
  `DrainedTakesMax`, `StorageIsSound`, for a storage and items of any size, all three types, and every
  order of sends, receives and returns. `~Hoarding` is not a convenience: without it
  the theorems are false, as `ring_overwrite` shows.
  * `Inv` says that the content can be unrolled. For items (`HoldsItems`): there are `n` headers
    at places `p[0], ..., p[n]` that only grow, a lap apart at most, and each header leads to the
    next place (`Laid`, `Leads`); the free and the write pointer are the first and the last place and the
    full flag tells an empty lap from a whole one (`Linked`); there is one dummy at
    most, at place `d`, and a second half behind every first half (`Marked`); the first `r` headers were read
    (`Read`); the client holds the items under those of them that were not returned, and
    not all of a full buffer in several items (`Owned`, `Sole`). For bytes (`HoldsBytes`): `l` lent bytes
    from the free pointer on and `w` that wait (`ByteRing`).
  * Without `Leads` a header left over from an earlier lap could be taken for one of the chain;
    without the dummy's place the count and the queue could not be compared; without
    `Sole` a return out of order clears the full flag of a buffer in which items are held.
  * `FitsSomehow` sorts what `prvCheckItemFits` lets pass into the three layouts (straight, behind a
    dummy, cut in two), `SendAdds` appends their headers; `GetTakes` passes the dummy; `ReturnIs` finds
    where the free pointer stops (`AdvanceIs`) and unrolls the rest again from there (`SlideIs`, `DropIs`).
  * `ItemsAre` says that the queue read off the storage is that chain without its dummy;
    `SendQueued`, `ReceiveQueued` and `ReturnQueued` take every call to a step of `RingQueue`. The walks over
    headers are recursive functions, about which the lemmas argue by the least number for which
    they would fail (`CountUp`).
* **`RingBuffer_proofs`**, the queue set (`BoundsAssumption`): `UnreadIsSelectable` and the types. The property
  says nothing of a semaphore outside the set, which may join at any time; `UnreadIsGiven`
  adds that something unread is announced by the semaphore, member or not, or about to
  be, and `GivenIsSelectable` that a member which is given has an event. Both speak of a
  program that runs: once the set has refused an event it has aborted. `TwoPlacesPerJoin` proves
  `NoEventIsRefused`, which says when that cannot happen, for sets of any length. Its invariant
  (`EventsAreFew`) bounds the events of the items semaphore by twice its joins: each join may find the semaphore
  given and leave an event, and a receive that began before it may let one more give
  through. While it is a member that is not given, one of these places is free for the next give.
* **`ShaEngines_proofs`**, the lock (no assumption is used): control types, `EngineHasOneUser`,
  `EngineIsReturned`. The two properties are inductive together. `ProcessLock` and
  `FedLock` say that data fed to a context leaves the lock alone or takes the free one for
  that context; `LeavesEngine` covers all the calls that give it back.
* **`ShaEngines_proofs`**, the data (the assumptions on sizes, among them `WordsHoldBytes`, a fact about powers of two that
  the prover does not know and TLC evaluates): `DigestSpec`, for messages of any length in updates of any
  sizes. `DataInv` says of every open context that the whole blocks of what it was given are in
  its digest state, the rest is in its buffer, the two words of `total` count both, and a
  context that has processed nothing is still in its initial state. `FedSound` keeps this through
  an update (`CarryStep` is the carry from the low word to the high one); `FinishedSound` shows that
  padding and length fill exactly one or two blocks (`PadFits`) and that the length field is the
  number of bits (`LengthWords`, where the shift by three moves bits from one word to the other).
* **`ShaRounds_proofs`** (no assumption is used): for every block and every starting state the
  three unrolled compression functions implement the rounds of `ShaStandard`
  (`StandardSpec`). `ControlOK` and `WordsOK` give counters and registers their ranges and say
  which words of the schedule have been written; `ScheduleOK` says what they hold, without
  which the ring of SHA-1 could not be compared with the standard's array. Lemmas show
  that the C forms of `Ch`, `Maj`, the rotations and the sigmas are the standard's.
* **`EspBignum_proofs`**, the lock (`NoTaskAssumption`, `JobsAreCalls`): `EngineHasOneUser`, `WaitMeansDone`. `LockInv`
  ties the lock to where the tasks are, `KindInv` says what a task uses the accelerator
  for, `WaitInv` that what tells of the end of an operation is in one place (`UnderWay`) and
  that nothing of it is left outside a wait (`Quiet`), the polling build included.
* **`EspBignum_proofs`**, the results (`SizesArePositive` besides): `ResultsAreRight`, that is `ResultIsRight`
  for any number of tasks, any calls, operands of any length and limbs and blocks of any size.
  The part about products (`ProductsAreRight`) needs `InPlaceIsRight` and nothing else: a result in
  an mpi of its own always meets it (`SeparateIsRight`), one that replaces a factor does unless the code
  loses the factor's sign or limbs (section 5). A call that does not is in the model and may return
  anything; the invariant follows the others beside it. The modular functions need
  `OperandsFit`, what the code leaves to its callers: an odd modulus, operands of
  `esp_mpi_mul_mpi_mod` that are not longer than it (longer ones are cut, section 5), a modulus the
  accelerator takes (a comment of `modular_multiply_finish`, `esp_bignum.c:428`, calls the size
  "range checked", but only the exponentiation checks it), no negative numbers in an exponentiation. `MCEspBignum` states
  `OperandsFit` of its calls, so TLC shows that calls on both sides of every limit meet it.
  * The arithmetic: `modular_inverse` computes `-1/M` modulo a limb bit by bit (`MprimeIs`), for that
    number `ClearsLowestWord` and `MontgomeryStep` say what one word of Montgomery's loop does, and
    `MontgomeryIs` what the loop returns. `ModExpIs` follows a number that stands for another (times
    `Base^words`) through the squarings; `MultiplierIs` and `FailoverIs` say that the multiplier, and the
    modulus of all ones, return the product, of which `WordsSumIs` shows that it is below that modulus.
  * What a recursive function computes is proved by induction over a set instead of a
    predicate (`Induction`, `StrongInduction`, from the well-foundedness of `<`). That the
    function exists at all has to be proved first (`Recursion`).
  * The invariant `FullInv` has, besides the lock, `CallsInv` and `ResultInv`. `CallsInv` says of each call,
    as a record (`View`), what it is on the way to. For a product split any number of
    times (`ForProduct`) the stack is a `Chain`: every activation waits for one of its two halves,
    the lower half it keeps is right, and the outermost one computes the product
    of the call; the product at hand survives where it is computed (`Survives`, handed down to both
    halves by `SplitIsWhole` and `FoundIs`). `PushKeeps`, `SecondKeeps` and `PopKeeps` are the three steps of the split. `ResultInv` says
    that the accelerator holds, or will compute from its registers, what the task that
    uses it is to read, after one stage or two (`Awaits`, `Kept`). Neither is inductive without the lock:
    another task could load its operands in between.
* **`Device_proofs`**, the demo program (`TasksAssumption`, `SleepTicksAssumption`): for every build, sleep
  period and number of presses `NoActionGoingDown`, `ResetFindsTimer`, `CurrentTimerHonoursReset`,
  and that the program is a client of the connection layer (`DemoImplementsConnSpec`): each of its
  steps is a step of `ConnSpec` or leaves the layer alone. What is proved of the layer for any
  clients therefore holds in the program, its lifecycle included (`DemoKeepsLayer`). The
  inductive invariant `DemoInv` has, besides the types,
  * `StartUpOrder`: what `m5stickc_demo_init` has done wherever it is, in each build;
  * `LayerInUse`: which task may be inside the layer, and that it exists by then;
  * `TimersInv`: the ticks left of the current timer and the ticks since the last event add up
    to a period;
  * `ActionToken`: the token of `lab1_semaphore` is in it, with one task of the program, or with
    the sleep callback for good.
* **`Device_proofs`**, the rest (the assumptions of the six modules of `Device`): `NothingElseIsCutOff`, because
  the identifier is empty or as long as a MAC address, the level on the display is capped at two digits
  whatever the 16 bits hold, and a report is too long exactly when its power is (`LongReport`); `ReadNeverBlocks`, by an invariant on
  the bytes announced by all events of the queue together. Their sum is a recursive function,
  about which the lemmas argue by the least number for which they would fail
  (`CountUp`, from the well-foundedness of the natural numbers).
* **`Device_proofs`**, the air conditioner (`AirConAssumption`): `RoomApproaches`, the part of `RoomSettles` that
  needs no fairness: every period brings the room closer to its target (other than 0) or its limit, or
  leaves it there. The distances `ToTarget` and `ToLimit` count the periods, the wrap of
  the 8 bits included.
* **`Device_proofs`**, the smartconfig acknowledger (`BoundsAreNat`): types, `LinkOverAfterAllAcks`, `OneAckAfterStop`,
  `LeaksOnlyByRestart`. The invariant adds that a task about to send has not sent since the
  flag was cleared, and that a task on its way round the outer loop with a socket was
  sent there by a call that has not cost a socket yet (`LeakInv`): the flag must have been
  false at the inner test and true at the outer one.
  `StoppedTasksEnd` is the part of `StopEndsEveryTask` that needs no fairness: from a stop to the next call
  a task has at most five steps left, and no step of anybody sends it back.
* **`Lab2Shadow_proofs`** (`ReportersAssumption`, `BoundsAssumption`): lab 2 is a client of the connection layer
  (`Lab2ImplementsConnSpec`), so that updates exclude each other and what was acquired is given
  back in order, for any number of network losses and deltas (`Lab2KeepsLayer`). `ReportsInv` says that a
  task reports only once the layer exists completely, and is inside it exactly from the
  call to the return of its update. It cannot share a module with the proofs about `M5Demo`: the tasks
  of the two programs are different clients.

`ReadyMeansSettled`, `UpdatesExclusive`, `ProductsAreExact`, `LinkOverAfterAllAcks` and the types of `RingTasks` and `RingQueueSet` are proved and not
checked by a run.

Only model-checked:

* every liveness property (`WaitersReleased`, `CleanupHonoured`, `PressHandled`, `TriesToSleep`,
  `ShadowConverges`, `ReportsReturnWhileUp`, `ReadersProgress`, `WritersProgress`, `EverythingIsRead`,
  `StopEndsEveryTask`, `CallsReturn`, `BootSettles`, `RoomSettles`), which the prover cannot treat under fairness;
* `PublishedDigests`, a computation on given messages.

Theorems about what a recursive function computes are possible where the function recurs over
numbers (bits, limbs, headers), since the lemmas can name the set of numbers for which they
hold; a property of an arbitrary operator cannot be handed to a lemma.

## 5. What the models showed

Besides the finding, facts that no run asserts, because no line of the repository promises
the contrary in a form worth a property, or because another run already covers the area:

* LAB0 creates the sleep timer twice (`app/m5stickc_demo.c:184` and `:256`). The handle of the first
  is overwritten, no event can reset it, and the device sleeps when its period is over,
  whatever was pressed. `CurrentTimerHonoursReset` is about the second.
* After a network loss LAB2's button publishes through the handle of a freed connection
  (`app/m5stickc_lab_connection.c:489` frees, `:588` tests a handle that was never reset).
* LAB2's report of a delta may carry the older power that the timer formatted into the
  shared buffer (`app/m5stickc_lab2_shadow.c:268`). `ShadowConverges` shows that the cloud gets the right
  one in the end.
* LAB1 goes to deep sleep right after it asked for the clean up; the device can be
  asleep with its connection open (`app/m5stickc_demo.c:333`).
* LAB1 registers the button handler (`app/m5stickc_demo.c:201`) before it creates the sleep
  timer (`:256`) and may wait long in between for the connection; a press in that time
  resets a NULL timer, on which FreeRTOS asserts. `ResetFindsTimer` is therefore stated for
  LAB0 only; the model goes to a panic in the other case.
* Without a network a LAB1 device never sleeps again once an action of lab 1 has begun: the press
  takes `m5stickc_lab1_semaphore` (`app/m5stickc_demo.c:122`) and stays in the wait for readiness, and the sleep
  callback waits for the semaphore (`:362`). The press that woke the device does so in the start-up
  (`:232`), before there is a sleep timer. The same holds when the thread of the connection could
  not be created. `TriesToSleep` names this as its exception.
* A press that comes early enough to race the start-up for the lab 1 semaphore panics
  first (see above), so the contention of these two cannot be seen in a longer run.
* A battery below 3 V is shown as 99 %: the difference is divided as a signed number and
  stored into 16 bits unsigned (`app/m5stickc_demo.c:285`).
* A unit that cools towards a target of 0 wraps from 0 to 255 (`app/m5stickc_lab2_shadow.c:463`).
  `HoldsTarget` leaves out this target.
* LAB2's report has room for a temperature of three digits (`app/m5stickc_lab2_shadow.c:101`): with two, its last
  byte is the zero at the end. A power of three digits, or of two next to a temperature of three, which a
  delta may set (`atoi` into 8 bits, `:339`), cuts off its end, and the result of `snprintf` is only
  compared with 0 (`:289`). `NothingElseIsCutOff` says that these are the only texts that are cut.
* The timer daemon may wait for ever in a report when the network loss destroys
  `shadowDelta` under it (`app/m5stickc_lab_connection.c:484`); every timer of the program
  then stands still. `ReportsReturnWhileUp` says when reports do return.
* A sender whose item does not fit keeps the free semaphore even when it times out; the
  comment at `ringbuf.c:69` says that a time-out wakes others. `SpaceAnnounced` and
  `WritersProgress` show that this costs no more than the wait for the next return.
* The free size of a no-split or allow-split buffer is `xMaxItemSize` when less than a header
  is free, because the comparison at `ringbuf.c:498` and `:528` is unsigned. `StorageIsSound`
  covers all other states.
* With two receivers of a byte buffer one can use up the items semaphore while the other
  holds bytes; the return wakes only senders (`ringbuf.c:1003`) and the bytes that follow stay
  unannounced until the next send.
* Events of a queue set outlive the gives they tell of (`ringbuf.c:1089` takes the semaphore and
  leaves its event): a reader must be ready to find nothing after a select. A set that counts one place for
  each binary semaphore, as FreeRTOS asks for, is therefore too short: a receive that began before the
  semaphore joined takes a give without its event, and the next give adds a second one.
  Every further join may leave two more, and a free semaphore in the set (deprecated,
  `ringbuf.h:394` to `:398`) adds an event for every send, since no sender selects it.
  `NoEventIsRefused` says that two places for every join of the items semaphore are enough.
* A call of `sc_ack_send` while an older, stopped task is between its inner and its outer
  test of the flag revives that task. It creates a second socket over the first one
  (`smartconfig_ack.c:68`), which is never closed, and both tasks go on sending.
  `LeaksOnlyByRestart` bounds the loss. The flag is also left set when the task cannot be
  created (`:129`), with the same effect on an older task.
* The link can be reported over right after a stop (`smartconfig_ack.c:74` tests, `:76` waits).
* `mbedtls_sha512_starts_ret` overwrites `is384` (`esp_sha512.c:168`) before it unlocks the engine
  that the old value named (`:170`). This is right only because SHA-384 and SHA-512
  share one lock.
* An exponentiation takes the `Rinv` its caller cached (`esp_bignum.c:382`) whatever length it was
  computed for. With limbs of two bits 200^5 mod 13, after a shorter call with the same modulus,
  is 2 instead of 5, and reported as a success. `ResultIsRight` leaves these calls out.
* Products that replace a factor can come out wrong. A product by 1 or -1 copies the other factor
  and then multiplies by the sign of the unit (`esp_bignum.c:484` to `:491`): when the unit was in the result mpi, its
  sign is gone, and the result is positive even if it should not be. A product that has to be split
  points into the limbs of the longer factor and then grows the result (`:639` to `:653`, whose result is
  not looked at); when the longer factor is the result mpi, this may free the limbs that both halves
  are still to read (`:656`, `:659`). `ResultIsRight` and the theorems leave out exactly these
  calls (`InPlaceIsRight`); no function in `src/` asks for one; the
  mbedTLS library, which is not there, multiplies in place.
* `esp_mpi_mul_mpi_mod` cuts operands longer than the modulus to its length without an error
  (`esp_bignum.c:311`).
* When `malloc` fails `getUserMessage` drops the event and leaves its bytes (`main.c:269`): the next
  message starts with them. The address of a lease is lost when the event
  loop is full, because the result of `esp_event_send` is not looked at (`main.c:335`).

## 6. Not modelled, and why

* The content of topics, payloads and documents: only lengths, and the values the control
  depends on. An action of lab 1 with an unknown event publishes with an empty topic
  (`m5stickc_lab1_aws_iot_button.c:317`). `_getUpdatedState` and `_shadowUpdatedCallback` of lab 2 only log.
* `vRingbufferDelete` (nobody may use the buffer then) and the printed information. `xRingbufferCreate` is
  modelled for successful allocations; after a failure there is no buffer.
* The self tests of the SHA ports, whose messages are those of `sha_rounds`; the digest that
  the SHA engine computes in hardware is the sequence of blocks it was given.
* `esp_mem.c`, `esp_hardware.c`, `ethernet/port.c`, `freertos/extra.c`: constants and single calls into code that
  is not in `src/`. The wifi and TLS set-up that `main.c` calls is not there either.
* The configuration headers (`esp_config.h`, `FreeRTOSConfig.h`, `iot_config.h` and their like, about half of all
  lines): no state and no operation. The values the models depend on (one core, periods,
  queue lengths, build options) are taken from them; the options of the ports that are off
  in `sdkconfig` (hardware SHA and MPI) are modelled as the code provides them.
* The MQTT and Shadow libraries, FreeRTOS, the event loop, the Bluetooth stacks and the power
  management of the board are not in `src/`; the models take from them what the calls in
  `src/` rely on (semaphores, timers, queues, time-outs, failures).

## 7. Plan

Done, in this order: `LabConnection`, `M5Demo`, `AirCon` and `Lab2Shadow`, the ring buffer,
`SmartConfigAck`, `ShaEngines` with the proofs of all but the storage and the demo program; then
the queue sets, the software rounds of SHA with their refinement proof, the bignum port with
its proofs, `main.c`, the TCP/IP adapter, the debug log, the texts of the labs.

Then the proofs about the demo program and the input, that `ShaEngines` implements `Digest`,
that `RingTasks` implements `RingQueue`, that the storage of `RingBuffer` does, and that the results
of the bignum port are right.

Then lab 2 as a client of the connection layer.

Left: `vRingbufferDelete` with tasks that still wait.
