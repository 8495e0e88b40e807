-------------------------- MODULE ShaEngines_proofs -------------------------
(***************************************************************************)
(* For any number of contexts, any block size, any update sizes and any    *)
(* messages: the engine is locked exactly while one digest in progress     *)
(* computes in it, and every context computes the digest of its own        *)
(* message.                                                                *)
(***************************************************************************)
EXTENDS ShaEngines, SequenceTheorems, TLAPS

\* The shape of a context; what its digest is made of does not matter here.
CtxFields == {"total", "state", "buffer", "mode", "short"}

CtxOK(x) ==
  /\ x = [f \in CtxFields |-> x[f]]
  /\ x.mode \in Modes
  /\ x.short \in BOOLEAN

\* What a call finds: its context in the engine only when that is locked.
WorldOK(w) ==
  /\ w = [ctx |-> w.ctx, locked |-> w.locked, engine |-> w.engine]
  /\ CtxOK(w.ctx)
  /\ w.locked \in BOOLEAN
  /\ w.ctx.mode = "HARDWARE" => w.locked

\* What a call that feeds data does to the lock: nothing, or it takes the
\* free engine for its context.
LockKeptOrTaken(w, r) ==
  \/ /\ r.locked = w.locked
     /\ r.ctx.mode = "HARDWARE" <=> w.ctx.mode = "HARDWARE"
  \/ ~w.locked /\ r.locked /\ r.ctx.mode = "HARDWARE"

\* The inductive invariant.
LockInv ==
  /\ family \in Families
  /\ ctx = [c \in Contexts |-> ctx[c]]
  /\ \A c \in Contexts : CtxOK(ctx[c])
  /\ phase \in [Contexts -> {"off", "open", "padded", "done"}]
  /\ locked \in BOOLEAN
  /\ EngineHasOneUser
  /\ EngineIsReturned

-----------------------------------------------------------------------------

(* The first block of a digest keeps the lock as it is, or takes it.       *)
LEMMA FirstBlockLock ==
  ASSUME NEW w, WorldOK(w)
  PROVE  WorldOK(FirstBlock(w)) /\ LockKeptOrTaken(w, FirstBlock(w))
<1>1. CASE w.ctx.mode # "UNUSED"
  BY <1>1 DEF FirstBlock, LockKeptOrTaken
<1>2. CASE w.ctx.mode = "UNUSED" /\ MayUseEngine(w)
  <2> DEFINE x == [w.ctx EXCEPT !.mode = "HARDWARE"]
             r == [ctx |-> x, locked |-> TRUE, engine |-> w.engine]
  <2>1. FirstBlock(w) = r
    BY <1>2 DEF FirstBlock
  <2>2. CtxOK(x) /\ x.mode = "HARDWARE"
    BY DEF WorldOK, CtxOK, CtxFields, Modes
  <2> HIDE DEF x
  <2>3. /\ r.locked = TRUE /\ r.ctx = x
        /\ r = [ctx |-> r.ctx, locked |-> r.locked, engine |-> r.engine]
    OBVIOUS
  <2>4. ~w.locked
    BY <1>2 DEF MayUseEngine, WorldOK
  <2> HIDE DEF r
  <2> QED
    BY <2>1, <2>2, <2>3, <2>4 DEF LockKeptOrTaken, WorldOK
<1>3. CASE w.ctx.mode = "UNUSED" /\ ~MayUseEngine(w)
  <2> DEFINE x == [w.ctx EXCEPT !.mode = "SOFTWARE"]
             r == [w EXCEPT !.ctx = x]
  <2>1. FirstBlock(w) = r
    BY <1>3 DEF FirstBlock
  <2>2. CtxOK(x) /\ x.mode = "SOFTWARE"
    BY DEF WorldOK, CtxOK, CtxFields, Modes
  <2> HIDE DEF x
  <2>3. /\ r.locked = w.locked /\ r.ctx = x
        /\ r = [ctx |-> r.ctx, locked |-> r.locked, engine |-> r.engine]
    BY DEF WorldOK
  <2> HIDE DEF r
  <2> QED
    BY <1>3, <2>1, <2>2, <2>3 DEF LockKeptOrTaken, WorldOK
<1> QED
  BY <1>1, <1>2, <1>3

(* The blocks themselves leave the lock and the mode alone.                *)
LEMMA BlocksLock ==
  ASSUME NEW w, NEW first, NEW data, WorldOK(w)
  PROVE  /\ WorldOK(Blocks(w, first, data))
         /\ Blocks(w, first, data).locked = w.locked
         /\ Blocks(w, first, data).ctx.mode = w.ctx.mode
<1>1. CASE w.ctx.mode = "HARDWARE"
  <2> DEFINE e == [algorithm |-> IF first THEN Algorithm(w.ctx.short)
                                 ELSE w.engine.algorithm,
                   data      |-> IF first THEN data
                                 ELSE w.engine.data \o data]
             r == [w EXCEPT !.engine = e]
  <2>1. Blocks(w, first, data) = r
    BY <1>1 DEF Blocks
  <2> HIDE DEF e
  <2>2. /\ r.locked = w.locked /\ r.ctx = w.ctx
        /\ r = [ctx |-> r.ctx, locked |-> r.locked, engine |-> r.engine]
    BY DEF WorldOK
  <2> HIDE DEF r
  <2> QED
    BY <2>1, <2>2 DEF WorldOK
<1>2. CASE w.ctx.mode # "HARDWARE"
  <2> DEFINE x == [w.ctx EXCEPT !.state.data = @ \o data]
             r == [w EXCEPT !.ctx = x]
  <2>1. Blocks(w, first, data) = r
    BY <1>2 DEF Blocks
  <2>2. CtxOK(x) /\ x.mode = w.ctx.mode
    BY DEF WorldOK, CtxOK, CtxFields
  <2> HIDE DEF x
  <2>3. /\ r.locked = w.locked /\ r.ctx = x
        /\ r = [ctx |-> r.ctx, locked |-> r.locked, engine |-> r.engine]
    BY DEF WorldOK
  <2> HIDE DEF r
  <2> QED
    BY <1>2, <2>1, <2>2, <2>3 DEF WorldOK
<1> QED
  BY <1>1, <1>2

(* Processing blocks keeps the lock as it is, or takes the free engine.    *)
LEMMA ProcessLock ==
  ASSUME NEW w, NEW data, WorldOK(w)
  PROVE  WorldOK(Process(w, data)) /\ LockKeptOrTaken(w, Process(w, data))
<1> DEFINE u == FirstBlock(w)
           first == w.ctx.mode = "UNUSED"
<1>1. WorldOK(u) /\ LockKeptOrTaken(w, u)
  BY FirstBlockLock
<1> HIDE DEF u, first
<1>2. /\ WorldOK(Blocks(u, first, data))
      /\ Blocks(u, first, data).locked = u.locked
      /\ Blocks(u, first, data).ctx.mode = u.ctx.mode
  BY <1>1, BlocksLock
<1>3. Process(w, data) = Blocks(u, first, data)
  BY DEF Process, u, first
<1> QED
  BY <1>1, <1>2, <1>3 DEF LockKeptOrTaken

(* So does an update, whether it completes a block or only buffers.        *)
LEMMA FedLock ==
  ASSUME NEW w, NEW input, WorldOK(w)
  PROVE  WorldOK(Fed(w, input)) /\ LockKeptOrTaken(w, Fed(w, input))
<1> DEFINE data   == Pending(w, input)
           whole  == Whole(data)
           fed    == [w.ctx EXCEPT
                        !.total = Counted(@, Len(input)),
                        !.buffer = SubSeq(data, whole + 1, Len(data))]
           stored == [w EXCEPT !.ctx = fed]
<1>1. Fed(w, input) = IF whole = 0 THEN stored
                      ELSE Process(stored, SubSeq(data, 1, whole))
  BY DEF Fed, Stored
<1> HIDE DEF data, whole
<1>0. CtxOK(fed) /\ fed.mode = w.ctx.mode
  BY DEF WorldOK, CtxOK, CtxFields
<1> HIDE DEF fed
<1>2. /\ WorldOK(stored)
      /\ stored.locked = w.locked
      /\ stored.ctx.mode = w.ctx.mode
  BY <1>0 DEF WorldOK
<1> HIDE DEF stored
<1>3. /\ WorldOK(Process(stored, SubSeq(data, 1, whole)))
      /\ LockKeptOrTaken(stored, Process(stored, SubSeq(data, 1, whole)))
  BY <1>2, ProcessLock
<1> QED
  BY <1>1, <1>2, <1>3 DEF LockKeptOrTaken

-----------------------------------------------------------------------------

(* A call that returns a world in which the lock is kept or taken for its  *)
(* own context leaves the engine with one user.                            *)
LEMMA ReturnsLock ==
  ASSUME LockInv, NEW c \in Contexts, phase[c] = "open",
         NEW r, WorldOK(r), LockKeptOrTaken(World(c), r), Returns(c, r),
         NEW next \in {"open", "padded"}, phase' = [phase EXCEPT ![c] = next]
  PROVE  LockInv'
<1>1. /\ ctx' = [d \in Contexts |-> IF d = c THEN r.ctx ELSE ctx[d]]
      /\ locked' = r.locked
      /\ family' = family
  BY DEF Returns, LockInv
<1>2. \A d \in Contexts : CtxOK(ctx'[d])
  BY <1>1 DEF LockInv, WorldOK
<1>3. EngineHasOneUser'
  BY <1>1 DEF LockInv, LockKeptOrTaken, World, EngineHasOneUser, InHardware,
              WorldOK
<1>4. EngineIsReturned'
  BY <1>1 DEF LockInv, EngineIsReturned, InHardware, LockKeptOrTaken, World
<1>5. ctx' = [d \in Contexts |-> ctx'[d]]
  BY <1>1
<1> QED
  BY <1>1, <1>2, <1>3, <1>4, <1>5 DEF LockInv, WorldOK

(* A call that takes its context out of the engine, or leaves it out, gives*)
(* the engine back exactly when that context had it.                       *)
LEMMA LeavesEngine ==
  ASSUME LockInv, NEW c \in Contexts,
         NEW x, CtxOK(x), x.mode # "HARDWARE",
         family' = family,
         ctx' = [ctx EXCEPT ![c] = x],
         locked' = (locked /\ ctx[c].mode # "HARDWARE"),
         NEW next \in {"off", "open", "padded", "done"},
         phase' = [phase EXCEPT ![c] = next]
  PROVE  LockInv'
<1>1. ctx' = [d \in Contexts |-> IF d = c THEN x ELSE ctx[d]]
  BY DEF LockInv
<1>2. \A d \in Contexts : CtxOK(ctx'[d])
  BY <1>1 DEF LockInv
<1>3. EngineHasOneUser'
  <2>1. InHardware' = InHardware \ {c}
    BY <1>1 DEF InHardware
  <2>2. CASE c \in InHardware
    <3>1. InHardware' = {} /\ ~locked'
      BY <2>1, <2>2 DEF LockInv, EngineHasOneUser, InHardware
    <3> QED
      BY <3>1 DEF EngineHasOneUser
  <2>3. CASE c \notin InHardware
    <3>1. InHardware' = InHardware /\ locked' = locked
      BY <2>1, <2>3 DEF LockInv, InHardware
    <3> QED
      BY <3>1 DEF LockInv, EngineHasOneUser
  <2> QED
    BY <2>2, <2>3
<1>4. EngineIsReturned'
  BY <1>1 DEF LockInv, EngineIsReturned, InHardware
<1>5. ctx' = [d \in Contexts |-> ctx'[d]]
  BY <1>1
<1> QED
  BY <1>1, <1>2, <1>3, <1>4, <1>5 DEF LockInv

(* What a call finds is in order.                                          *)
LEMMA WorldIsOK ==
  ASSUME LockInv, NEW c \in Contexts
  PROVE  WorldOK(World(c))
<1>1. ctx[c].mode = "HARDWARE" => locked
  BY DEF LockInv, EngineHasOneUser, InHardware
<1> QED
  BY <1>1 DEF LockInv, WorldOK, World

(* Every function keeps the inductive invariant.                          *)
LEMMA LockInductive == LockInv /\ [Next]_vars => LockInv'
<1> SUFFICES ASSUME LockInv, [Next]_vars PROVE LockInv'
  OBVIOUS
<1>1. CASE UNCHANGED vars
  BY <1>1 DEF vars, LockInv, EngineHasOneUser, EngineIsReturned, InHardware,
              CtxOK, CtxFields
<1>2. ASSUME NEW c \in Contexts, NEW short \in BOOLEAN, Starts(c, short)
      PROVE  LockInv'
  <2> DEFINE x == [ctx[c] EXCEPT !.total = <<0, 0>>,
                                 !.state = [algorithm |-> Algorithm(short),
                                            data |-> <<>>],
                                 !.short = short,
                                 !.mode = "UNUSED"]
  <2>1. CtxOK(x) /\ x.mode # "HARDWARE"
    BY DEF LockInv, CtxOK, CtxFields, Modes
  <2>2. /\ ctx' = [ctx EXCEPT ![c] = x]
        /\ locked' = (locked /\ ctx[c].mode # "HARDWARE")
        /\ family' = family
        /\ phase' = [phase EXCEPT ![c] = "open"]
    BY <1>2 DEF Starts, Returns, LockedWithout
  <2> HIDE DEF x
  <2> QED
    BY <2>1, <2>2, LeavesEngine
<1>3. ASSUME NEW c \in Contexts, NEW n \in Sizes, Update(c, n)
      PROVE  LockInv'
  <2> DEFINE r == Fed(World(c), Input(c, n))
  <2>1. WorldOK(r) /\ LockKeptOrTaken(World(c), r)
    BY WorldIsOK, FedLock
  <2>2. /\ phase[c] = "open"
        /\ Returns(c, r)
        /\ phase' = [phase EXCEPT ![c] = "open"]
    BY <1>3 DEF Update, LockInv
  <2> HIDE DEF r
  <2> QED
    BY <2>1, <2>2, ReturnsLock
<1>4. ASSUME NEW c \in Contexts, NEW src \in Contexts, Clone(c, src)
      PROVE  LockInv'
  <2> DEFINE x == IF ctx[src].mode = "HARDWARE"
                  THEN [ctx[src] EXCEPT !.state = engine, !.mode = "SOFTWARE"]
                  ELSE ctx[src]
  <2>1. CtxOK(x) /\ x.mode # "HARDWARE"
    BY DEF LockInv, CtxOK, CtxFields, Modes
  <2>2. ctx[c].mode # "HARDWARE"
    BY <1>4 DEF Clone, LockInv, EngineIsReturned, InHardware
  <2>3. /\ ctx' = [ctx EXCEPT ![c] = x]
        /\ locked' = (locked /\ ctx[c].mode # "HARDWARE")
        /\ family' = family
        /\ phase' = [phase EXCEPT ![c] = "open"]
    BY <1>4, <2>2 DEF Clone, Copied, LockInv
  <2> HIDE DEF x
  <2> QED
    BY <2>1, <2>3, LeavesEngine
<1>5. ASSUME NEW c \in Contexts, FinishPads(c) PROVE LockInv'
  <2> DEFINE w == World(c)
             v == Fed(w, Padding(Padn(w)))
             r == Fed(v, MsgLen(w))
  <2>1. WorldOK(v) /\ LockKeptOrTaken(w, v)
    BY WorldIsOK, FedLock
  <2>2. WorldOK(r) /\ LockKeptOrTaken(v, r)
    BY <2>1, FedLock
  <2>3. /\ phase[c] = "open"
        /\ Returns(c, r)
        /\ phase' = [phase EXCEPT ![c] = "padded"]
    BY <1>5 DEF FinishPads, Finished
  <2> HIDE DEF r, v
  <2>4. LockKeptOrTaken(World(c), r)
    BY <2>1, <2>2 DEF LockKeptOrTaken
  <2> QED
    BY <2>2, <2>3, <2>4, ReturnsLock
<1>6. ASSUME NEW c \in Contexts, FinishReads(c) PROVE LockInv'
  <2> DEFINE y == DigestRead(c)
             x == Unlocked(y)
  <2>1. CtxOK(y)
    BY DEF DigestRead, LockInv, CtxOK, CtxFields
  <2>2. /\ ctx' = [ctx EXCEPT ![c] = x]
        /\ locked' = (locked /\ ctx[c].mode # "HARDWARE")
        /\ family' = family
        /\ phase' = [phase EXCEPT ![c] = "done"]
    BY <1>6 DEF FinishReads, Returns, LockedWithout
  <2> HIDE DEF y
  <2>3. CtxOK(x) /\ x.mode # "HARDWARE"
    BY <2>1 DEF Unlocked, CtxOK, CtxFields, Modes
  <2> HIDE DEF x
  <2> QED
    BY <2>2, <2>3, LeavesEngine
<1>7. ASSUME NEW c \in Contexts, Free(c) PROVE LockInv'
  <2>1. CtxOK(Zeroed) /\ Zeroed.mode # "HARDWARE"
    BY DEF CtxOK, CtxFields, Zeroed, Modes
  <2>2. /\ ctx' = [ctx EXCEPT ![c] = Zeroed]
        /\ locked' = (locked /\ ctx[c].mode # "HARDWARE")
        /\ family' = family
        /\ phase' = [phase EXCEPT ![c] = "off"]
    BY <1>7 DEF Free, Returns, LockedWithout
  <2> QED
    BY <2>1, <2>2, LeavesEngine
<1> QED
  BY <1>1, <1>2, <1>3, <1>4, <1>5, <1>6, <1>7 DEF Next

(* The inductive invariant holds in every reachable state.                 *)
LEMMA LockInvariant == Spec => []LockInv
<1>1. CtxOK(Zeroed) /\ Zeroed.mode = "UNUSED"
  BY DEF CtxOK, CtxFields, Zeroed, Modes
<1>2. Init => LockInv
  BY <1>1 DEF Init, LockInv, EngineHasOneUser, EngineIsReturned, InHardware
<1> QED
  BY <1>2, LockInductive, PTL DEF Spec

(* The parts of the state that control keep their types.                   *)
THEOREM ShaTypeCorrect == Spec => []TypeOK
<1>1. LockInv => TypeOK
  BY DEF LockInv, TypeOK, CtxOK
<1> QED
  BY <1>1, LockInvariant, PTL

(* Two contexts never compute in the engine at once, and it is locked      *)
(* exactly while one does, whichever calls the owners interleave.          *)
THEOREM EngineIsExclusive == Spec => []EngineHasOneUser
<1>1. LockInv => EngineHasOneUser
  BY DEF LockInv
<1> QED
  BY <1>1, LockInvariant, PTL

(* No context that is off or finished holds the engine: its owner may      *)
(* forget it without taking the engine from everybody else.                *)
THEOREM EngineComesBack == Spec => []EngineIsReturned
<1>1. LockInv => EngineIsReturned
  BY DEF LockInv
<1> QED
  BY <1>1, LockInvariant, PTL

-----------------------------------------------------------------------------

(* Arithmetic.  The provers know nothing of quotients beyond DivMod.        *)

(* What quotient and rest are.                                             *)
LEMMA DivMod ==
  ASSUME NEW x \in Nat, NEW b \in Nat \ {0}
  PROVE  /\ x % b \in 0..(b - 1)
         /\ x \div b \in Nat
         /\ x = b * (x \div b) + (x % b)
OBVIOUS

(* One more in the quotient is at least b more.                            *)
LEMMA More ==
  ASSUME NEW b \in Nat \ {0}, NEW q \in Int, NEW p \in Int, q < p
  PROVE  b * q + b <= b * p
<1>1. p - q - 1 \in Nat
  OBVIOUS
<1>2. PICK d \in Nat : p = q + 1 + d
  BY <1>1
<1>3. b * p = b * q + b + b * d
  BY <1>2
<1>4. b * d \in Nat /\ b * q \in Int
  OBVIOUS
<1> QED
  BY <1>3, <1>4

(* There is one way to write a number as b * q + r with a rest r below b.  *)
LEMMA Unique ==
  ASSUME NEW b \in Nat \ {0}, NEW q \in Nat, NEW r \in 0..(b - 1),
         NEW x, x = b * q + r
  PROVE  x % b = r /\ x \div b = q
<1> DEFINE p == x \div b
           s == x % b
<1>0. x \in Nat /\ b * q \in Nat /\ x = b * q + r
  OBVIOUS
<1>1. p \in Nat /\ s \in 0..(b - 1) /\ x = b * p + s
  BY <1>0, DivMod
<1> HIDE DEF p, s
<1>2. b * p \in Nat
  BY <1>1
<1>3. ~(p < q)
  BY <1>0, <1>1, <1>2, More
<1>4. ~(q < p)
  BY <1>0, <1>1, <1>2, More
<1>5. p = q
  BY <1>1, <1>3, <1>4
<1>6. s = r
  BY <1>0, <1>1, <1>5
<1> QED
  BY <1>5, <1>6 DEF p, s

(* Adding a multiple of b does not change the rest.                        *)
LEMMA MultiplesVanish ==
  ASSUME NEW b \in Nat \ {0}, NEW k \in Nat, NEW x \in Nat,
         NEW y, y = b * k + x
  PROVE  y % b = x % b
<1> DEFINE q == x \div b
           r == x % b
<1>1. q \in Nat /\ r \in 0..(b - 1) /\ x = b * q + r
  BY DivMod
<1> HIDE DEF q, r
<1>2. y = b * (k + q) + r /\ k + q \in Nat
  BY <1>1
<1>3. y % b = r
  BY <1>1, <1>2, Unique
<1> QED
  BY <1>3 DEF r

(* A counter that wraps at a multiple of b keeps the rest modulo b: why the*)
(* low word of total alone says how full the buffer is.                    *)
LEMMA RestOfRest ==
  ASSUME NEW b \in Nat \ {0}, NEW p \in Nat \ {0}, p % b = 0, NEW n \in Nat
  PROVE  (n % p) % b = n % b
<1> DEFINE e == p \div b
           q == n \div p
           r == n % p
<1>1. e \in Nat /\ p = b * e
  BY DivMod
<1>2. q \in Nat /\ r \in 0..(p - 1) /\ n = p * q + r
  BY DivMod
<1> HIDE DEF e, q, r
<1>3. n = b * (e * q) + r /\ e * q \in Nat
  BY <1>1, <1>2
<1>4. r \in Nat
  BY <1>2
<1>5. n % b = r % b
  <2> DEFINE k == e * q
  <2>1. k \in Nat /\ n = b * k + r
    BY <1>3
  <2> HIDE DEF k
  <2> QED
    <3> DEFINE c == r \div b
               d == r % b
               g == k + c
    <3>1. c \in Nat /\ d \in 0..(b - 1) /\ r = b * c + d
      BY <1>4, DivMod
    <3> HIDE DEF c, d
    <3>2. n = b * g + d /\ g \in Nat
      BY <2>1, <3>1
    <3> HIDE DEF g
    <3>3. n % b = d
      BY <3>1, <3>2, Unique
    <3> QED
      BY <3>3 DEF d
<1> QED
  BY <1>5 DEF r

(* Adding k to a number kept in two words: the low word wrapped exactly when*)
(* it came out below k (the carry of shaX_update_ret).                     *)
LEMMA CarryStep ==
  ASSUME NEW p \in Nat \ {0}, NEW n \in Nat, NEW k \in 1..p
  PROVE  LET low == ((n % p) + k) % p
         IN  /\ low = (n + k) % p
             /\ (IF low < k THEN (((n \div p) % p) + 1) % p
                           ELSE (n \div p) % p)
                 = ((n + k) \div p) % p
<1> DEFINE q == n \div p
           r == n % p
<1>1. q \in Nat /\ r \in 0..(p - 1) /\ n = p * q + r
  BY DivMod
<1> HIDE DEF q, r
<1>2. CASE r + k < p
  <2>1. n + k = p * q + (r + k) /\ r + k \in 0..(p - 1)
    BY <1>1, <1>2
  <2>2. (n + k) % p = r + k /\ (n + k) \div p = q
    BY <1>1, <2>1, Unique
  <2>3. (r + k) % p = r + k
    BY <2>1
  <2> QED
    BY <1>1, <2>2, <2>3 DEF q, r
<1>3. CASE r + k >= p
  <2>0. q + 1 \in Nat
    BY <1>1
  <2>1. n + k = p * (q + 1) + (r + k - p) /\ r + k - p \in 0..(p - 1)
    BY <1>1, <1>3
  <2>2. (n + k) % p = r + k - p /\ (n + k) \div p = q + 1
    <3> DEFINE x == n + k
               a == q + 1
               d == r + k - p
    <3>1. x = p * a + d /\ a \in Nat /\ d \in 0..(p - 1)
      BY <2>0, <2>1
    <3> HIDE DEF x, a, d
    <3>2. x % p = d /\ x \div p = a
      BY <3>1, Unique
    <3> QED
      BY <3>2 DEF x, a, d
  <2>3. (r + k) % p = r + k - p
    <3>1. r + k = p * 1 + (r + k - p)
      BY <1>1
    <3> QED
      BY <2>1, <3>1, Unique
  <2>4. ((q % p) + 1) % p = (q + 1) % p
    <3> DEFINE u == q \div p
               v == q % p
    <3>1. u \in Nat /\ v \in 0..(p - 1) /\ q = p * u + v
      BY <1>1, DivMod
    <3> HIDE DEF u, v
    <3>2. q + 1 = p * u + (v + 1) /\ v + 1 \in Nat
      BY <3>1
    <3> QED
      BY <3>1, <3>2, MultiplesVanish DEF v
  <2>5. r + k - p < k
    BY <1>1
  <2> QED
    BY <2>2, <2>3, <2>4, <2>5 DEF q, r
<1> QED
  BY <1>1, <1>2, <1>3

(* Eight times a number kept in two words, by shifting the words.          *)
LEMMA BitsOfLength ==
  ASSUME NEW s \in Nat \ {0}, NEW p, p = 8 * s, NEW n \in Nat
  PROVE  /\ (((n % p) \div s) + 8 * ((n \div p) % p)) % p
              = ((8 * n) \div p) % p
         /\ (8 * (n % p)) % p = (8 * n) % p
<1> DEFINE a == n \div p
           r == n % p
           u == a \div p
           v == a % p
           d == r \div s
           t == r % s
<1>0. p \in Nat \ {0}
  OBVIOUS
<1>1. a \in Nat /\ r \in 0..(p - 1) /\ n = p * a + r
  BY <1>0, DivMod
<1>2. u \in Nat /\ v \in 0..(p - 1) /\ a = p * u + v
  BY <1>0, <1>1, DivMod
<1>3. d \in Nat /\ t \in 0..(s - 1) /\ r = s * d + t
  <2>1. r \in Nat
    BY <1>1
  <2> QED
    BY <2>1, DivMod, Zenon
<1> HIDE DEF a, r, u, v, d, t
<1>4. 8 * n = p * (8 * a + d) + 8 * t
  <2>1. 8 * n = 8 * (p * a) + 8 * r
    BY <1>0, <1>1
  <2>2. 8 * r = (8 * s) * d + 8 * t
    BY <1>3
  <2>3. 8 * (p * a) = p * (8 * a)
    BY <1>0, <1>1
  <2>4. p * (8 * a + d) = p * (8 * a) + p * d
    BY <1>0, <1>1, <1>3
  <2>5. 8 * r = p * d + 8 * t
    BY <2>2
  <2>6. /\ 8 * (p * a) \in Nat /\ 8 * r \in Nat /\ p * d \in Nat
        /\ 8 * t \in Nat /\ p * (8 * a) \in Nat
    BY <1>0, <1>1, <1>3
  <2> QED
    BY <2>1, <2>3, <2>4, <2>5, <2>6
<1>5. 8 * t \in 0..(p - 1) /\ 8 * a + d \in Nat
  BY <1>1, <1>3
<1>6. (8 * n) \div p = 8 * a + d /\ (8 * n) % p = 8 * t
  <2> DEFINE x == 8 * n
             k == 8 * a + d
             e == 8 * t
  <2>1. x = p * k + e /\ k \in Nat /\ e \in 0..(p - 1)
    BY <1>4, <1>5
  <2> HIDE DEF x, k, e
  <2>2. x % p = e /\ x \div p = k
    BY <1>0, <2>1, Unique
  <2> QED
    BY <2>2 DEF x, k, e
<1>7. (8 * r) % p = 8 * t
  <2> DEFINE x == 8 * r
             e == 8 * t
  <2>1. x = p * d + e /\ e \in 0..(p - 1)
    <3>1. 8 * r = (8 * s) * d + 8 * t
      BY <1>3
    <3> QED
      BY <3>1, <1>5
  <2> HIDE DEF x, e
  <2>2. x % p = e
    BY <1>0, <1>3, <2>1, Unique
  <2> QED
    BY <2>2 DEF x, e
<1>8. (8 * a + d) % p = (d + 8 * v) % p
  <2> DEFINE y == 8 * a + d
             k == 8 * u
             x == d + 8 * v
  <2>1. y = p * k + x /\ k \in Nat /\ x \in Nat
    BY <1>0, <1>2, <1>3
  <2> HIDE DEF x, k, y
  <2>2. y % p = x % p
    <3> DEFINE c == x \div p
               g == x % p
               h == k + c
    <3>1. c \in Nat /\ g \in 0..(p - 1) /\ x = p * c + g
      BY <1>0, <2>1, DivMod
    <3> HIDE DEF c, g
    <3>2. y = p * h + g /\ h \in Nat
      BY <1>0, <2>1, <3>1
    <3> HIDE DEF h
    <3>3. y % p = g
      BY <1>0, <3>1, <3>2, Unique
    <3> QED
      BY <3>3 DEF g
  <2> QED
    BY <2>2 DEF x, y
<1> QED
  BY <1>6, <1>7, <1>8 DEF a, r, v, d

-----------------------------------------------------------------------------

(* The data: what a call does to the message of its context.               *)

\* The bytes of messages and of their padding.
Bytes == (Contexts \cup {"marker", "zero", "length"}) \X Int

\* A digest state.
StateOK(h) ==
  /\ h = [algorithm |-> h.algorithm, data |-> h.data]
  /\ h.data \in Seq(Bytes)

\* The data of a context and of the engine.
DataOK(w) ==
  /\ StateOK(w.ctx.state)
  /\ StateOK(w.engine)
  /\ w.ctx.buffer \in Seq(Bytes)

\* The digest state of a context, wherever it is kept (Absorbed).
Held(w) == IF w.ctx.mode = "HARDWARE" THEN w.engine ELSE w.ctx.state

\* A length in the two words of total.
Words(n) == <<n % 2^WordBits, (n \div 2^WordBits) % 2^WordBits>>

\* A context in progress whose digest state is h: whole blocks are processed,
\* the buffer holds the rest, total counts both, and before the first block
\* the state is what starts made it.
Sound(x, h) ==
  /\ x.total[1] \in Nat
  /\ x.total[1] % BlockSize <= Len(x.buffer)
  /\ Len(h.data) % BlockSize = 0
  /\ x.total = Words(Len(h.data) + (x.total[1] % BlockSize))
  /\ x.mode = "UNUSED" =>
       h = [algorithm |-> Algorithm(x.short), data |-> <<>>]

\* What processing blocks leaves alone.
SameButForBlocks(w, r) ==
  /\ r.ctx.total = w.ctx.total
  /\ r.ctx.buffer = w.ctx.buffer
  /\ r.ctx.short = w.ctx.short

(* Trying the lock changes nothing but the lock and the mode.              *)
LEMMA FirstBlockHeld ==
  ASSUME NEW w, WorldOK(w), DataOK(w)
  PROVE  LET u == FirstBlock(w)
         IN  /\ DataOK(u)
             /\ u.ctx.mode # "UNUSED"
             /\ SameButForBlocks(w, u)
             /\ u.ctx.state = w.ctx.state
             /\ u.engine = w.engine
             /\ w.ctx.mode # "UNUSED" => u = w
<1>1. CASE w.ctx.mode # "UNUSED"
  BY <1>1 DEF FirstBlock, SameButForBlocks
<1>2. CASE w.ctx.mode = "UNUSED" /\ MayUseEngine(w)
  <2> DEFINE x == [w.ctx EXCEPT !.mode = "HARDWARE"]
  <2>1. FirstBlock(w) = [ctx |-> x, locked |-> TRUE, engine |-> w.engine]
    BY <1>2 DEF FirstBlock
  <2>2. /\ x.mode = "HARDWARE" /\ x.total = w.ctx.total
        /\ x.buffer = w.ctx.buffer /\ x.short = w.ctx.short
        /\ x.state = w.ctx.state
    BY DEF WorldOK, CtxOK, CtxFields
  <2> HIDE DEF x
  <2> QED
    BY <1>2, <2>1, <2>2 DEF DataOK, SameButForBlocks
<1>3. CASE w.ctx.mode = "UNUSED" /\ ~MayUseEngine(w)
  <2> DEFINE x == [w.ctx EXCEPT !.mode = "SOFTWARE"]
             r == [w EXCEPT !.ctx = x]
  <2>1. FirstBlock(w) = r
    BY <1>3 DEF FirstBlock
  <2>2. /\ x.mode = "SOFTWARE" /\ x.total = w.ctx.total
        /\ x.buffer = w.ctx.buffer /\ x.short = w.ctx.short
        /\ x.state = w.ctx.state
    BY DEF WorldOK, CtxOK, CtxFields
  <2> HIDE DEF x
  <2>3. r.ctx = x /\ r.engine = w.engine
    BY DEF WorldOK
  <2> HIDE DEF r
  <2> QED
    BY <1>3, <2>1, <2>2, <2>3 DEF DataOK, SameButForBlocks
<1> QED
  BY <1>1, <1>2, <1>3

(* Processing blocks appends them to the state that the mode names.        *)
LEMMA BlocksHeld ==
  ASSUME NEW u, WorldOK(u), DataOK(u), NEW first \in BOOLEAN,
         NEW data \in Seq(Bytes)
  PROVE  LET r == Blocks(u, first, data)
         IN  /\ DataOK(r)
             /\ r.ctx.mode = u.ctx.mode
             /\ SameButForBlocks(u, r)
             /\ r.ctx.mode # "HARDWARE" =>
                  /\ r.engine = u.engine
                  /\ r.ctx.state.algorithm = u.ctx.state.algorithm
                  /\ r.ctx.state.data = u.ctx.state.data \o data
             /\ r.ctx.mode = "HARDWARE" =>
                  IF first
                  THEN r.engine = [algorithm |-> Algorithm(u.ctx.short),
                                   data |-> data]
                  ELSE /\ r.engine.algorithm = u.engine.algorithm
                       /\ r.engine.data = u.engine.data \o data
<1>1. CASE u.ctx.mode = "HARDWARE"
  <2> DEFINE e == [algorithm |-> IF first THEN Algorithm(u.ctx.short)
                                 ELSE u.engine.algorithm,
                   data      |-> IF first THEN data
                                 ELSE u.engine.data \o data]
             r == [u EXCEPT !.engine = e]
  <2>1. Blocks(u, first, data) = r
    BY <1>1 DEF Blocks
  <2>2. u.engine.data \o data \in Seq(Bytes)
    BY ConcatProperties DEF DataOK, StateOK
  <2>3. StateOK(e)
    BY <2>2 DEF StateOK
  <2>4. /\ first => e = [algorithm |-> Algorithm(u.ctx.short), data |-> data]
        /\ ~first => /\ e.algorithm = u.engine.algorithm
                     /\ e.data = u.engine.data \o data
    OBVIOUS
  <2> HIDE DEF e
  <2>5. r.ctx = u.ctx /\ r.engine = e
    BY DEF WorldOK
  <2> HIDE DEF r
  <2> QED
    BY <1>1, <2>1, <2>3, <2>4, <2>5 DEF DataOK, SameButForBlocks
<1>2. CASE u.ctx.mode # "HARDWARE"
  <2> DEFINE s == [u.ctx.state EXCEPT !.data = @ \o data]
             x == [u.ctx EXCEPT !.state = s]
             r == [u EXCEPT !.ctx = x]
  <2>1. Blocks(u, first, data) = r
    BY <1>2 DEF Blocks
  <2>2. u.ctx.state.data \o data \in Seq(Bytes)
    BY ConcatProperties DEF DataOK, StateOK
  <2>3. /\ StateOK(s) /\ s.algorithm = u.ctx.state.algorithm
        /\ s.data = u.ctx.state.data \o data
    <3> DEFINE t == u.ctx.state
               d == t.data \o data
               z == [t EXCEPT !.data = d]
    <3>1. t = [algorithm |-> t.algorithm, data |-> t.data]
      BY DEF StateOK, DataOK
    <3>2. s = z /\ d \in Seq(Bytes)
      BY <2>2
    <3> HIDE DEF t, d
    <3>3. z = [algorithm |-> t.algorithm, data |-> d]
      BY <3>1
    <3> HIDE DEF z
    <3>4. StateOK(z) /\ z.algorithm = t.algorithm /\ z.data = d
      BY <3>2, <3>3 DEF StateOK
    <3> QED
      BY <3>2, <3>4 DEF t, d
  <2> HIDE DEF s
  <2>4. /\ x.mode = u.ctx.mode /\ x.total = u.ctx.total
        /\ x.buffer = u.ctx.buffer /\ x.short = u.ctx.short
        /\ x.state = s
    BY DEF WorldOK, CtxOK, CtxFields
  <2> HIDE DEF x
  <2>5. r.ctx = x /\ r.engine = u.engine
    BY DEF WorldOK
  <2> HIDE DEF r
  <2> QED
    BY <1>2, <2>1, <2>3, <2>4, <2>5 DEF DataOK, SameButForBlocks
<1> QED
  BY <1>1, <1>2

(* Wherever the digest is computed, processing appends the data to it: for *)
(* the first block because the engine then starts from the initial values  *)
(* that the context holds.                                                 *)
LEMMA ProcessHeld ==
  ASSUME NEW w, WorldOK(w), DataOK(w), NEW data \in Seq(Bytes),
         w.ctx.mode = "UNUSED" =>
           Held(w) = [algorithm |-> Algorithm(w.ctx.short), data |-> <<>>]
  PROVE  LET r == Process(w, data)
         IN  /\ DataOK(r)
             /\ r.ctx.mode # "UNUSED"
             /\ SameButForBlocks(w, r)
             /\ Held(r).algorithm = Held(w).algorithm
             /\ Held(r).data = Held(w).data \o data
             /\ r.ctx.mode # "HARDWARE" => r.engine = w.engine
<1> DEFINE u == FirstBlock(w)
           first == w.ctx.mode = "UNUSED"
           r == Blocks(u, first, data)
<1>1. WorldOK(u)
  BY FirstBlockLock
<1>2. /\ DataOK(u)
      /\ u.ctx.mode # "UNUSED"
      /\ SameButForBlocks(w, u)
      /\ u.ctx.state = w.ctx.state
      /\ u.engine = w.engine
      /\ ~first => u = w
  BY FirstBlockHeld
<1>3. Process(w, data) = r
  BY DEF Process
<1>0. first \in BOOLEAN
  OBVIOUS
<1>00. first <=> w.ctx.mode = "UNUSED"
  OBVIOUS
<1> HIDE DEF u, first
<1>4. /\ DataOK(r)
      /\ r.ctx.mode = u.ctx.mode
      /\ SameButForBlocks(u, r)
      /\ r.ctx.mode # "HARDWARE" =>
           /\ r.engine = u.engine
           /\ r.ctx.state.algorithm = u.ctx.state.algorithm
           /\ r.ctx.state.data = u.ctx.state.data \o data
      /\ r.ctx.mode = "HARDWARE" =>
           IF first
           THEN r.engine = [algorithm |-> Algorithm(u.ctx.short),
                            data |-> data]
           ELSE /\ r.engine.algorithm = u.engine.algorithm
                /\ r.engine.data = u.engine.data \o data
  BY <1>0, <1>1, <1>2, BlocksHeld
<1> HIDE DEF r
<1>5. SameButForBlocks(w, r)
  BY <1>2, <1>4 DEF SameButForBlocks
<1>6. CASE r.ctx.mode # "HARDWARE"
  <2>1. Held(r) = r.ctx.state /\ u.ctx.mode # "HARDWARE"
    BY <1>4, <1>6 DEF Held
  <2>2. w.ctx.mode # "HARDWARE"
    BY <1>2, <1>00, <2>1
  <2> QED
    BY <1>2, <1>3, <1>4, <1>5, <1>6, <2>1, <2>2 DEF Held
<1>7. CASE r.ctx.mode = "HARDWARE" /\ first
  <2>1. Held(r) = [algorithm |-> Algorithm(u.ctx.short), data |-> data]
    BY <1>4, <1>7 DEF Held
  <2>2. Held(w) = [algorithm |-> Algorithm(w.ctx.short), data |-> <<>>]
    BY <1>7, <1>00
  <2>3. u.ctx.short = w.ctx.short
    BY <1>2 DEF SameButForBlocks
  <2>4. <<>> \o data = data
    BY ConcatEmptySeq
  <2> QED
    BY <1>2, <1>3, <1>4, <1>5, <1>7, <2>1, <2>2, <2>3, <2>4
<1>8. CASE r.ctx.mode = "HARDWARE" /\ ~first
  <2>1. Held(r) = r.engine /\ Held(w) = w.engine
    BY <1>2, <1>4, <1>8 DEF Held
  <2> QED
    BY <1>2, <1>3, <1>4, <1>5, <1>8, <2>1
<1> QED
  BY <1>6, <1>7, <1>8

\* The message so far (Message).
Said(w) == Held(w).data \o SubSeq(w.ctx.buffer, 1, Left(w))

(* What the assumptions say of the sizes.                                  *)
LEMMA Sizing ==
  /\ BlockSize \in Nat \ {0} /\ BlockSize > 2
  /\ 2^WordBits \in Nat \ {0}
  /\ 2^WordBits % BlockSize = 0
  /\ BlockSize <= 2^WordBits
<1> DEFINE p == 2^WordBits
           k == p \div BlockSize
<1>1. p \in Nat \ {0}
  BY WordsHoldBytes
<1>2. BlockSize \in Nat \ {0} /\ BlockSize > 2 /\ p % BlockSize = 0
  BY BlocksDivideWords
<1>3. k \in Nat /\ p = BlockSize * k
  <2>1. p \in Nat
    BY <1>1
  <2> HIDE DEF p
  <2> QED
    BY <1>2, <2>1, DivMod
<1> HIDE DEF p, k
<1>4. k # 0
  BY <1>1, <1>2, <1>3
<1>5. 0 < k
  BY <1>3, <1>4
<1>6. BlockSize * 0 + BlockSize <= BlockSize * k
  BY <1>2, <1>3, <1>5, More
<1> QED
  BY <1>1, <1>2, <1>3, <1>6 DEF p

(* A multiple of b has no rest.                                            *)
LEMMA NoRest ==
  ASSUME NEW b \in Nat \ {0}, NEW k \in Nat, NEW x, x = b * k
  PROVE  x % b = 0
<1>1. x = b * k + 0 /\ 0 \in 0..(b - 1)
  OBVIOUS
<1> QED
  BY <1>1, Unique

(* After whole blocks the rest is what follows them.                       *)
LEMMA RestOfSum ==
  ASSUME NEW b \in Nat \ {0}, NEW h \in Nat, h % b = 0, NEW l \in 0..(b - 1)
  PROVE  l = (h + l) % b
<1> DEFINE k == h \div b
           x == h + l
<1>1. k \in Nat /\ h = b * k
  BY DivMod
<1> HIDE DEF k
<1>2. x = b * k + l
  BY <1>1
<1> HIDE DEF x
<1>3. x % b = l
  BY <1>1, <1>2, Unique
<1> QED
  BY <1>3 DEF x

(* The whole blocks of x bytes that follow whole blocks, and what is left. *)
LEMMA Splitting ==
  ASSUME NEW b \in Nat \ {0}, NEW h \in Nat, h % b = 0, NEW x \in Nat
  PROVE  /\ b * (x \div b) \in 0..x
         /\ x - b * (x \div b) \in 0..(b - 1)
         /\ (h + x) % b = x - b * (x \div b)
         /\ (h + b * (x \div b)) % b = 0
<1> DEFINE q == x \div b
           k == h \div b
           r == x % b
           g == k + q
<1>1. q \in Nat /\ r \in 0..(b - 1) /\ x = b * q + r
  BY DivMod
<1>2. k \in Nat /\ h = b * k
  BY DivMod
<1> HIDE DEF q, k, r
<1>3. b * q \in Nat
  BY <1>1
<1>4. /\ h + x = b * g + r
      /\ h + b * q = b * g + 0
      /\ g \in Nat
  BY <1>1, <1>2
<1> HIDE DEF g
<1>5. (h + x) % b = r
  <2> DEFINE y == h + x
  <2>1. y = b * g + r
    BY <1>4
  <2> HIDE DEF y
  <2>2. y % b = r
    BY <1>1, <1>4, <2>1, Unique
  <2> QED
    BY <2>2 DEF y
<1>6. (h + b * q) % b = 0
  <2> DEFINE y == h + b * q
  <2>1. y = b * g
    BY <1>4
  <2> HIDE DEF y
  <2>2. y % b = 0
    BY <1>4, <2>1, NoRest
  <2> QED
    BY <2>2 DEF y
<1>7. b * q \in 0..x /\ x - b * q = r
  BY <1>1, <1>3
<1> QED
  BY <1>1, <1>5, <1>6, <1>7 DEF q

(* The count with the carry is right, for inputs of up to 2^WordBits bytes.*)
LEMMA CountedWords ==
  ASSUME NEW n \in Nat, NEW k \in 1..2^WordBits
  PROVE  Counted(Words(n), k) = Words(n + k)
<1> DEFINE p == 2^WordBits
<1>1. p \in Nat \ {0}
  BY Sizing
<1>2. /\ Words(n)[1] = n % p /\ Words(n)[2] = (n \div p) % p
  BY DEF Words
<1> HIDE DEF p
<1>3. /\ ((n % p) + k) % p = (n + k) % p
      /\ (IF ((n % p) + k) % p < k THEN (((n \div p) % p) + 1) % p
                               ELSE (n \div p) % p)
          = ((n + k) \div p) % p
  BY <1>1, CarryStep DEF p
<1> QED
  BY <1>2, <1>3 DEF Counted, Words, p

(* What an update leaves, field by field, whether or not it makes a block. *)
LEMMA FedOutcome ==
  ASSUME NEW w, WorldOK(w), DataOK(w), Sound(w.ctx, Held(w)),
         NEW input, Pending(w, input) \in Seq(Bytes)
  PROVE  LET r     == Fed(w, input)
             data  == Pending(w, input)
             whole == Whole(data)
             front == SubSeq(data, 1, whole)
             tail  == SubSeq(data, whole + 1, Len(data))
         IN  whole \in 0..Len(data) =>
             /\ DataOK(r)
             /\ r.ctx.total = Counted(w.ctx.total, Len(input))
             /\ r.ctx.buffer = tail
             /\ r.ctx.short = w.ctx.short
             /\ Held(r).algorithm = Held(w).algorithm
             /\ Held(r).data = Held(w).data \o front
             /\ r.ctx.mode # "HARDWARE" => r.engine = w.engine
             /\ r.ctx.mode = "UNUSED" =>
                  Held(r) = [algorithm |-> Algorithm(r.ctx.short),
                             data |-> <<>>]
<1> DEFINE data  == Pending(w, input)
           whole == Whole(data)
           front == SubSeq(data, 1, whole)
           tail  == SubSeq(data, whole + 1, Len(data))
           count == Counted(w.ctx.total, Len(input))
           fed   == [w.ctx EXCEPT !.total = count, !.buffer = tail]
           s     == [w EXCEPT !.ctx = fed]
           r     == Fed(w, input)
<1> SUFFICES ASSUME whole \in 0..Len(data)
             PROVE  /\ DataOK(r)
                    /\ r.ctx.total = count
                    /\ r.ctx.buffer = tail
                    /\ r.ctx.short = w.ctx.short
                    /\ Held(r).algorithm = Held(w).algorithm
                    /\ Held(r).data = Held(w).data \o front
                    /\ r.ctx.mode # "HARDWARE" => r.engine = w.engine
                    /\ r.ctx.mode = "UNUSED" =>
                         Held(r) = [algorithm |-> Algorithm(r.ctx.short),
                                    data |-> <<>>]
  OBVIOUS
<1>1. r = IF whole = 0 THEN s ELSE Process(s, front)
  BY DEF Fed, Stored
<1>2. data \in Seq(Bytes)
  OBVIOUS
<1> HIDE DEF data, whole
<1>3. /\ \A i \in 1..whole : data[i] \in Bytes
      /\ \A i \in whole + 1..Len(data) : data[i] \in Bytes
      /\ Len(data) \in Nat
  BY <1>2, ElementOfSeq, LenProperties
<1>4. front \in Seq(Bytes) /\ tail \in Seq(Bytes)
  <2>1. whole \in Int /\ whole + 1 \in Int /\ Len(data) \in Int /\ 1 \in Int
    BY <1>3
  <2>2. front \in Seq(Bytes)
    BY <1>3, <2>1, SubSeqProperties
  <2>3. tail \in Seq(Bytes)
    BY <1>3, <2>1, SubSeqProperties
  <2> QED
    BY <2>2, <2>3
<1>5. whole = 0 => front = <<>>
  BY SubSeqEmpty
<1> HIDE DEF front, tail, count
<1>6. /\ CtxOK(fed) /\ fed.mode = w.ctx.mode /\ fed.short = w.ctx.short
      /\ fed.total = count /\ fed.buffer = tail /\ fed.state = w.ctx.state
  BY DEF WorldOK, CtxOK, CtxFields
<1> HIDE DEF fed
<1>7. /\ WorldOK(s) /\ s.ctx = fed /\ s.engine = w.engine
  BY <1>6 DEF WorldOK
<1> HIDE DEF s
<1>8. DataOK(s) /\ Held(s) = Held(w)
  BY <1>4, <1>6, <1>7 DEF DataOK, Held
<1>9. s.ctx.mode = "UNUSED" =>
        Held(s) = [algorithm |-> Algorithm(s.ctx.short), data |-> <<>>]
  BY <1>6, <1>7, <1>8 DEF Sound
<1> HIDE DEF r
<1>10. CASE whole = 0
  <2>1. Held(w).data \in Seq(Bytes)
    BY DEF Held, DataOK, StateOK
  <2>2. Held(w).data \o front = Held(w).data
    BY <1>5, <1>10, <2>1, ConcatEmptySeq
  <2>3. r = s
    BY <1>1, <1>10
  <2> QED
    BY <1>6, <1>7, <1>8, <1>9, <2>2, <2>3
<1>11. CASE whole # 0
  <2>1. r = Process(s, front)
    BY <1>1, <1>11
  <2>2. /\ DataOK(r)
        /\ r.ctx.mode # "UNUSED"
        /\ SameButForBlocks(s, r)
        /\ Held(r).algorithm = Held(s).algorithm
        /\ Held(r).data = Held(s).data \o front
        /\ r.ctx.mode # "HARDWARE" => r.engine = s.engine
    BY <1>4, <1>7, <1>8, <1>9, <2>1, ProcessHeld
  <2> QED
    BY <1>6, <1>7, <1>8, <2>2 DEF SameButForBlocks
<1> QED
  BY <1>10, <1>11

(* What a context in progress holds: whole blocks processed, the rest in the*)
(* buffer, and the length of both in total.                                *)
LEMMA Buffered ==
  ASSUME NEW w, DataOK(w), Sound(w.ctx, Held(w))
  PROVE  LET held == Held(w).data
             rest == SubSeq(w.ctx.buffer, 1, Left(w))
             n    == Len(held) + Left(w)
         IN  /\ held \in Seq(Bytes) /\ Len(held) \in Nat
             /\ Len(held) % BlockSize = 0
             /\ Left(w) \in 0..(BlockSize - 1)
             /\ rest \in Seq(Bytes) /\ Len(rest) = Left(w)
             /\ Said(w) \in Seq(Bytes) /\ Len(Said(w)) = n
             /\ w.ctx.total = Words(n)
             /\ Left(w) = n % BlockSize
<1> DEFINE held == Held(w).data
           left == Left(w)
           buffer == w.ctx.buffer
           rest == SubSeq(buffer, 1, left)
           n == Len(held) + left
<1>1. held \in Seq(Bytes) /\ buffer \in Seq(Bytes)
  BY DEF Held, DataOK, StateOK
<1>2. /\ left = w.ctx.total[1] % BlockSize
      /\ w.ctx.total[1] \in Nat
      /\ left <= Len(buffer)
      /\ Len(held) % BlockSize = 0
      /\ w.ctx.total = Words(n)
  BY DEF Sound, Left
<1>3. Said(w) = held \o rest
  BY DEF Said
<1> HIDE DEF held, buffer, left
<1>4. Len(held) \in Nat /\ Len(buffer) \in Nat
  BY <1>1, LenProperties
<1>0. BlockSize \in Nat \ {0}
  BY Sizing
<1>5. left \in 0..(BlockSize - 1)
  BY <1>2, Sizing, DivMod
<1>6. rest \in Seq(Bytes) /\ Len(rest) = left
  <2>1. left \in Int /\ 1 \in Int
    BY <1>0, <1>5
  <2>2. \A i \in 1..left : buffer[i] \in Bytes
    <3> SUFFICES ASSUME NEW i \in 1..left PROVE buffer[i] \in Bytes
      OBVIOUS
    <3>1. i \in 1..Len(buffer)
      BY <1>2, <1>4, <2>1
    <3> QED
      BY <1>1, <3>1, ElementOfSeq
  <2>3. /\ rest \in Seq(Bytes)
        /\ Len(rest) = IF 1 <= left THEN left - 1 + 1 ELSE 0
    BY <2>1, <2>2, SubSeqProperties
  <2> QED
    BY <1>5, <2>3, Sizing
<1>7. Said(w) \in Seq(Bytes) /\ Len(Said(w)) = n
  BY <1>1, <1>3, <1>6, ConcatProperties
<1>8. left = n % BlockSize
  BY <1>0, <1>2, <1>4, <1>5, RestOfSum
<1> QED
  BY <1>1, <1>2, <1>4, <1>5, <1>6, <1>7, <1>8 DEF held, left, buffer

(* Concatenation is associative.                                           *)
LEMMA Regroup ==
  ASSUME NEW s \in Seq(Bytes), NEW t \in Seq(Bytes), NEW u \in Seq(Bytes)
  PROVE  (s \o t) \o u = s \o (t \o u)
BY ConcatAssociative

(* An update appends its input to the message and leaves all in order.     *)
LEMMA FedSound ==
  ASSUME NEW w, WorldOK(w), DataOK(w), Sound(w.ctx, Held(w)),
         NEW input \in Seq(Bytes), Len(input) \in 1..2^WordBits
  PROVE  LET r == Fed(w, input)
         IN  /\ DataOK(r) /\ Sound(r.ctx, Held(r))
             /\ Said(r) = Said(w) \o input
             /\ Held(r).algorithm = Held(w).algorithm
             /\ r.ctx.mode # "HARDWARE" => r.engine = w.engine
<1> DEFINE held  == Held(w).data
           rest  == SubSeq(w.ctx.buffer, 1, Left(w))
           h     == Len(held)
           l     == Len(rest)
           k     == Len(input)
           data  == Pending(w, input)
           x     == Len(data)
           whole == Whole(data)
           front == SubSeq(data, 1, whole)
           tail  == SubSeq(data, whole + 1, x)
           r     == Fed(w, input)
           p     == 2^WordBits
<1>1. /\ held \in Seq(Bytes) /\ h \in Nat /\ h % BlockSize = 0
      /\ rest \in Seq(Bytes) /\ l = Left(w) /\ l \in 0..(BlockSize - 1)
      /\ w.ctx.total = Words(h + l)
  BY Buffered
<1>2. Said(w) = held \o rest /\ data = rest \o input
  BY DEF Said, Pending
<1>3. k \in 1..p /\ p \in Nat \ {0} /\ BlockSize \in Nat \ {0}
      /\ p % BlockSize = 0
  BY Sizing
<1>4. whole = BlockSize * (x \div BlockSize)
  BY DEF Whole
<1> HIDE DEF held, rest, data, whole, p
<1>5. data \in Seq(Bytes) /\ x = l + k
  BY <1>1, <1>2, ConcatProperties
<1> HIDE DEF h, l, k
<1>6. x \in Nat /\ h + l \in Nat /\ h + l + k = h + x
  BY <1>1, <1>3, <1>5
<1> HIDE DEF x
<1>7. /\ whole \in 0..x
      /\ x - whole \in 0..(BlockSize - 1)
      /\ (h + x) % BlockSize = x - whole
      /\ (h + whole) % BlockSize = 0
  BY <1>1, <1>3, <1>4, <1>6, Splitting
<1>8. /\ DataOK(r)
      /\ r.ctx.total = Counted(w.ctx.total, k)
      /\ r.ctx.buffer = tail
      /\ r.ctx.short = w.ctx.short
      /\ Held(r).algorithm = Held(w).algorithm
      /\ Held(r).data = held \o front
      /\ r.ctx.mode # "HARDWARE" => r.engine = w.engine
      /\ r.ctx.mode = "UNUSED" =>
           Held(r) = [algorithm |-> Algorithm(r.ctx.short), data |-> <<>>]
  BY <1>5, <1>7, FedOutcome DEF data, whole, x, k, held
<1> HIDE DEF r
<1>9. r.ctx.total = Words(h + x)
  <2>1. Counted(Words(h + l), k) = Words(h + l + k)
    BY <1>3, <1>6, CountedWords DEF p
  <2> QED
    BY <1>1, <1>6, <1>8, <2>1
<1>10. r.ctx.total[1] \in Nat /\ r.ctx.total[1] % BlockSize = x - whole
  <2>1. r.ctx.total[1] = (h + x) % p
    BY <1>9 DEF Words, p
  <2>2. h + x \in Nat
    BY <1>1, <1>6
  <2> DEFINE y == h + x
  <2>3. (y % p) % BlockSize = y % BlockSize
    BY <1>3, <2>2, RestOfRest
  <2>4. y % p \in Nat
    <3>1. y \in Nat
      BY <2>2
    <3> HIDE DEF y
    <3> QED
      BY <1>3, <3>1, DivMod
  <2> QED
    BY <1>7, <2>1, <2>3, <2>4
<1>11. /\ front \in Seq(Bytes) /\ Len(front) = whole
       /\ tail \in Seq(Bytes) /\ Len(tail) = x - whole
       /\ front \o tail = data
  <2>1. /\ \A i \in 1..whole : data[i] \in Bytes
        /\ \A i \in whole + 1..x : data[i] \in Bytes
    BY <1>5, <1>6, <1>7, ElementOfSeq DEF x
  <2>2. whole \in Int /\ whole + 1 \in Int /\ x \in Int /\ 1 \in Int
    BY <1>6, <1>7
  <2>3. /\ front \in Seq(Bytes)
        /\ Len(front) = IF 1 <= whole THEN whole - 1 + 1 ELSE 0
    BY <2>1, <2>2, SubSeqProperties
  <2>4. /\ tail \in Seq(Bytes)
        /\ Len(tail) = IF whole + 1 <= x THEN x - (whole + 1) + 1 ELSE 0
    BY <2>1, <2>2, SubSeqProperties
  <2>5. front \o tail = SubSeq(data, 1, x)
    <3>1. 1 \in 1..Len(data) + 1 /\ whole \in 1 - 1..Len(data)
          /\ x \in whole..Len(data)
      BY <1>6, <1>7 DEF x
    <3> QED
      BY <1>5, <3>1, ConcatAdjacentSubSeq
  <2>6. SubSeq(data, 1, x) = data
    BY <1>5, SubSeqFull DEF x
  <2> QED
    BY <1>6, <1>7, <2>3, <2>4, <2>5, <2>6
<1> HIDE DEF front, tail
<1>12. Len(Held(r).data) = h + whole /\ Held(r).data = held \o front
  BY <1>1, <1>8, <1>11, ConcatProperties DEF h
<1>13. Sound(r.ctx, Held(r))
  <2>1. h + whole + (x - whole) = h + x
    BY <1>1, <1>6, <1>7
  <2>2. Words(h + whole + (x - whole)) = Words(h + x)
    BY <2>1
  <2> QED
    BY <1>7, <1>8, <1>9, <1>10, <1>11, <1>12, <2>2 DEF Sound
<1>14. Said(r) = Said(w) \o input
  <2>1. Said(r) = (held \o front) \o SubSeq(tail, 1, Len(tail))
    BY <1>8, <1>10, <1>11 DEF Said, Left
  <2>2. SubSeq(tail, 1, Len(tail)) = tail
    BY <1>11, SubSeqFull
  <2>3. (held \o front) \o tail = (held \o rest) \o input
    <3>1. /\ held \in Seq(Bytes) /\ front \in Seq(Bytes)
          /\ tail \in Seq(Bytes)
      BY <1>1, <1>11
    <3>2. (held \o front) \o tail = held \o (front \o tail)
      BY ONLY <3>1, Regroup
    <3>3. /\ held \in Seq(Bytes) /\ rest \in Seq(Bytes)
          /\ input \in Seq(Bytes)
      BY <1>1
    <3>4. (held \o rest) \o input = held \o (rest \o input)
      BY ONLY <3>3, Regroup
    <3> QED
      BY <1>2, <1>11, <3>2, <3>4
  <2> QED
    BY <1>2, <2>1, <2>2, <2>3
<1> QED
  BY <1>8, <1>13, <1>14 DEF r

(* There is one way to fill up a block.                                    *)
LEMMA OneRoom ==
  ASSUME NEW b \in Nat \ {0}, NEW a \in Nat,
         NEW y \in 0..(b - 1), NEW z \in 0..(b - 1),
         (a + y) % b = 0, (a + z) % b = 0
  PROVE  y = z
<1> DEFINE i == a + y
           j == a + z
           k == i \div b
           l == j \div b
<1>1. i \in Nat /\ j \in Nat /\ i % b = 0 /\ j % b = 0
  OBVIOUS
<1>2. i - j = y - z
  OBVIOUS
<1> HIDE DEF i, j
<1>3. k \in Nat /\ i = b * k /\ l \in Nat /\ j = b * l
  BY <1>1, DivMod
<1> HIDE DEF k, l
<1>4. ~(k < l)
  <2> SUFFICES ASSUME k < l PROVE FALSE
    OBVIOUS
  <2>1. b * k + b <= b * l
    BY <1>3, More
  <2>2. i + b <= j
    BY <1>3, <2>1
  <2> QED
    BY <1>1, <1>2, <2>2
<1>5. ~(l < k)
  <2> SUFFICES ASSUME l < k PROVE FALSE
    OBVIOUS
  <2>1. b * l + b <= b * k
    BY <1>3, More
  <2>2. j + b <= i
    BY <1>3, <2>1
  <2> QED
    BY <1>1, <1>2, <2>2
<1>6. k = l
  BY <1>3, <1>4, <1>5
<1>7. i = j
  BY <1>3, <1>6
<1> QED
  BY <1>1, <1>2, <1>7

(* The padding is one byte at least, a block at most, and with the length it*)
(* makes whole blocks.                                                     *)
LEMMA PadFits ==
  ASSUME NEW b \in Nat \ {0}, b > 2, NEW n \in Nat
  PROVE  LET left == n % b
             pad  == IF left < b - 2 THEN b - 2 - left ELSE 2 * b - 2 - left
         IN  pad \in 1..b /\ (n + pad + 2) % b = 0
<1> DEFINE left == n % b
           q == n \div b
           pad  == IF left < b - 2 THEN b - 2 - left ELSE 2 * b - 2 - left
           x == n + pad + 2
<1>1. left \in 0..(b - 1) /\ q \in Nat /\ n = b * q + left
  BY DivMod
<1> HIDE DEF left, q
<1>2. pad \in 1..b
  BY <1>1
<1>3. PICK k \in Nat : x = b * k
  <2>1. CASE left < b - 2
    <3>1. x = b * (q + 1) /\ q + 1 \in Nat
      BY <1>1, <2>1
    <3> QED
      BY <3>1
  <2>2. CASE ~(left < b - 2)
    <3>1. x = b * (q + 2) /\ q + 2 \in Nat
      BY <1>1, <2>2
    <3> QED
      BY <3>1
  <2> QED
    BY <2>1, <2>2
<1> HIDE DEF x
<1>4. x % b = 0
  BY <1>3, NoRest
<1> QED
  BY <1>2, <1>4 DEF x, left

(* The two words written are the length of the message in bits.            *)
LEMMA LengthWords ==
  ASSUME NEW w, NEW n \in Nat, w.ctx.total = Words(n)
  PROVE  MsgLen(w) = D!LengthField(n)
<1> DEFINE p == 2^WordBits
           s == 2^(WordBits - 3)
<1>1. s \in Nat \ {0} /\ p = 8 * s
  BY WordsHoldBytes
<1>2. w.ctx.total[1] = n % p /\ w.ctx.total[2] = (n \div p) % p
  BY DEF Words
<1>3. MsgLen(w) =
        << <<"length", ((w.ctx.total[1] \div s) + 8 * w.ctx.total[2]) % p>>,
           <<"length", (8 * w.ctx.total[1]) % p>> >>
  BY DEF MsgLen
<1>4. D!LengthField(n) =
        << <<"length", ((8 * n) \div p) % p>>, <<"length", (8 * n) % p>> >>
  BY DEF D!LengthField
<1> HIDE DEF p, s
<1>5. /\ (((n % p) \div s) + 8 * ((n \div p) % p)) % p
            = ((8 * n) \div p) % p
      /\ (8 * (n % p)) % p = (8 * n) % p
  BY <1>1, BitsOfLength
<1> QED
  BY <1>2, <1>3, <1>4, <1>5

(* The padding is the marker and then the zeros.                           *)
LEMMA PaddingBytes ==
  ASSUME NEW n \in Nat \ {0}
  PROVE  LET zeros == [i \in 1..(n - 1) |-> <<"zero", 0>>]
         IN  /\ Padding(n) \in Seq(Bytes) /\ Len(Padding(n)) = n
             /\ << <<"marker", 0>> >> \in Seq(Bytes)
             /\ zeros \in Seq(Bytes)
             /\ Padding(n) = << <<"marker", 0>> >> \o zeros
<1> DEFINE marker == <<"marker", 0>>
           zero   == <<"zero", 0>>
           zeros  == [i \in 1..(n - 1) |-> zero]
           one    == << marker >>
           pad    == [i \in 1..n |-> IF i = 1 THEN marker ELSE zero]
<1>1. marker \in Bytes /\ zero \in Bytes
  BY DEF Bytes
<1>2. Padding(n) = pad
  BY DEF Padding
<1> HIDE DEF marker, zero
<1>3. one \in Seq(Bytes) /\ Len(one) = 1 /\ one[1] = marker
  BY <1>1
<1>4. zeros \in Seq(Bytes) /\ Len(zeros) = n - 1
  <2>1. n - 1 \in Nat
    OBVIOUS
  <2>2. zeros \in Seq(Bytes)
    BY <1>1, <2>1, IsASeq
  <2>3. Len(zeros) = n - 1
    BY <2>1
  <2> QED
    BY <2>2, <2>3
<1>5. pad \in Seq(Bytes) /\ Len(pad) = n
  <2>1. pad \in Seq(Bytes)
    <3> DEFINE e(i) == IF i = 1 THEN marker ELSE zero
    <3>1. \A i \in 1..n : e(i) \in Bytes
      BY <1>1
    <3>2. pad = [i \in 1..n |-> e(i)]
      OBVIOUS
    <3> HIDE DEF e
    <3>3. [i \in 1..n |-> e(i)] \in Seq(Bytes)
      BY <3>1, IsASeq
    <3> QED
      BY <3>2, <3>3
  <2>2. Len(pad) = n
    OBVIOUS
  <2> QED
    BY <2>1, <2>2
<1>6. /\ one \o zeros \in Seq(Bytes) /\ Len(one \o zeros) = n
      /\ \A i \in 1..n : (one \o zeros)[i] =
                           IF i <= 1 THEN one[i] ELSE zeros[i - 1]
  BY <1>3, <1>4, ConcatProperties
<1>7. \A i \in 1..n : pad[i] = (one \o zeros)[i]
  <2> SUFFICES ASSUME NEW i \in 1..n PROVE pad[i] = (one \o zeros)[i]
    OBVIOUS
  <2>1. CASE i = 1
    BY <1>3, <1>6, <2>1
  <2>2. CASE i # 1
    <3>1. i - 1 \in 1..(n - 1) /\ ~(i <= 1)
      BY <2>2
    <3> QED
      BY <1>6, <2>2, <3>1
  <2> QED
    BY <2>1, <2>2
<1>8. pad = one \o zeros
  BY <1>5, <1>6, <1>7, SeqEqual
<1> QED
  BY <1>2, <1>3, <1>4, <1>5, <1>8 DEF marker, zero

(* The length field is two words.                                          *)
LEMMA LengthBytes ==
  ASSUME NEW w, NEW n \in Nat, w.ctx.total = Words(n)
  PROVE  MsgLen(w) \in Seq(Bytes) /\ Len(MsgLen(w)) = 2
<1> DEFINE p == 2^WordBits
           high == ((8 * n) \div p) % p
           low  == (8 * n) % p
<1>1. p \in Nat \ {0} /\ 8 * n \in Nat
  BY Sizing
<1>2. MsgLen(w) = << <<"length", high>>, <<"length", low>> >>
  BY LengthWords DEF D!LengthField
<1> HIDE DEF p
<1>3. high \in Int /\ low \in Int
  <2>1. (8 * n) \div p \in Nat
    BY <1>1, DivMod
  <2> QED
    BY <1>1, <2>1, DivMod
<1> HIDE DEF high, low
<1>4. <<"length", high>> \in Bytes /\ <<"length", low>> \in Bytes
  BY <1>3 DEF Bytes
<1> QED
  BY <1>2, <1>4

(* Finishing leaves the digest of the message with the standard padding.   *)
LEMMA FinishedSound ==
  ASSUME NEW w, WorldOK(w), DataOK(w), Sound(w.ctx, Held(w))
  PROVE  LET r == Finished(w)
         IN  /\ DataOK(r)
             /\ Held(r).data = D!Padded(Said(w))
             /\ Held(r).algorithm = Held(w).algorithm
             /\ r.ctx.mode # "HARDWARE" => r.engine = w.engine
<1> DEFINE said   == Said(w)
           n      == Len(said)
           pad    == Padn(w)
           marker == << <<"marker", 0>> >>
           zeros  == [i \in 1..(pad - 1) |-> <<"zero", 0>>]
           length == MsgLen(w)
           v      == Fed(w, Padding(pad))
           r      == Fed(v, length)
<1>1. /\ said \in Seq(Bytes) /\ n \in Nat
      /\ w.ctx.total = Words(n)
      /\ Left(w) = n % BlockSize
  <2>1. said \in Seq(Bytes) /\ n = Len(Held(w).data) + Left(w)
    BY Buffered
  <2> QED
    BY <2>1, Buffered, LenProperties
<1>2. pad \in 1..BlockSize /\ (n + pad + 2) % BlockSize = 0
  BY <1>1, Sizing, PadFits DEF Padn
<1>3. Finished(w) = r
  BY DEF Finished
<1>4. BlockSize \in Nat \ {0} /\ BlockSize > 2 /\ BlockSize <= 2^WordBits
      /\ 2^WordBits \in Nat
  BY Sizing
<1>5. pad \in Nat \ {0} /\ pad \in 1..2^WordBits /\ 2 \in 1..2^WordBits
      /\ pad - 1 \in 0..(BlockSize - 1)
  BY <1>2, <1>4
<1> HIDE DEF pad
<1>6. /\ Padding(pad) \in Seq(Bytes) /\ Len(Padding(pad)) = pad
      /\ marker \in Seq(Bytes) /\ zeros \in Seq(Bytes)
      /\ Padding(pad) = marker \o zeros
  BY <1>5, PaddingBytes
<1>7. /\ length \in Seq(Bytes) /\ Len(length) = 2
      /\ length = D!LengthField(n)
  BY <1>1, LengthBytes, LengthWords
<1> HIDE DEF said, n, length
<1>8. /\ DataOK(v) /\ Sound(v.ctx, Held(v))
      /\ Said(v) = said \o Padding(pad)
      /\ Held(v).algorithm = Held(w).algorithm
      /\ v.ctx.mode # "HARDWARE" => v.engine = w.engine
  BY <1>5, <1>6, FedSound DEF said
<1>9. WorldOK(v)
  BY FedLock
<1> HIDE DEF v
<1>10. /\ DataOK(r) /\ Sound(r.ctx, Held(r))
       /\ Said(r) = Said(v) \o length
       /\ Held(r).algorithm = Held(v).algorithm
       /\ r.ctx.mode # "HARDWARE" => r.engine = v.engine
  BY <1>5, <1>7, <1>8, <1>9, FedSound
<1>11. v.ctx.mode = "HARDWARE" => r.ctx.mode = "HARDWARE"
  BY <1>9, FedLock DEF LockKeptOrTaken
<1> HIDE DEF r
<1>12. Said(r) = (said \o Padding(pad)) \o length
  BY <1>8, <1>10
<1>13. Len(Said(r)) = n + pad + 2
  <2> DEFINE y == said \o Padding(pad)
  <2>1. y \in Seq(Bytes) /\ Len(y) = n + pad
    BY <1>1, <1>6, ConcatProperties DEF n
  <2>2. Said(r) = y \o length
    BY <1>12
  <2> HIDE DEF y
  <2>3. Len(Said(r)) = Len(y) + Len(length)
    BY <1>7, <2>1, <2>2, ConcatProperties
  <2> QED
    BY <1>1, <1>5, <1>7, <2>1, <2>3
<1>14. Held(r).data = Said(r)
  <2> DEFINE rest == SubSeq(r.ctx.buffer, 1, Left(r))
  <2>1. /\ Left(r) = Len(Said(r)) % BlockSize
        /\ Held(r).data \in Seq(Bytes)
        /\ Said(r) = Held(r).data \o rest
    BY <1>10, Buffered DEF Said
  <2>2. Left(r) = 0
    BY <1>2, <1>13, <2>1
  <2>3. rest = <<>>
    BY <2>2, SubSeqEmpty
  <2> QED
    BY <2>1, <2>3, ConcatEmptySeq
<1>15. D!Padded(said) = (said \o Padding(pad)) \o length
  <2> DEFINE fits(z) == (n + 1 + z + 2) % BlockSize = 0
             room == CHOOSE z \in 0..(BlockSize - 1) : fits(z)
  <2>1. D!Padded(said) =
          ((said \o marker) \o [i \in 1..room |-> <<"zero", 0>>])
            \o D!LengthField(n)
    BY DEF D!Padded, n
  <2>2. n + 1 + (pad - 1) + 2 = n + pad + 2
    BY <1>1, <1>5 DEF n
  <2>3. fits(pad - 1)
    BY <1>2, <2>2
  <2>4. room \in 0..(BlockSize - 1) /\ fits(room)
    BY <1>5, <2>3
  <2>5. room = pad - 1
    <3> DEFINE a == n + 3
    <3> HIDE DEF room
    <3>1. /\ n + 1 + room + 2 = a + room
          /\ n + 1 + (pad - 1) + 2 = a + (pad - 1)
          /\ a \in Nat
      BY <1>1, <1>4, <1>5, <2>4
    <3>2. (a + room) % BlockSize = 0 /\ (a + (pad - 1)) % BlockSize = 0
      BY <2>3, <2>4, <3>1
    <3> HIDE DEF a
    <3> QED
      BY <1>4, <1>5, <2>4, <3>1, <3>2, OneRoom
  <2>6. (said \o marker) \o zeros = said \o (marker \o zeros)
    <3>1. said \in Seq(Bytes) /\ marker \in Seq(Bytes) /\ zeros \in Seq(Bytes)
      BY <1>1, <1>6
    <3> QED
      BY ONLY <3>1, Regroup
  <2> QED
    BY <1>6, <1>7, <2>1, <2>5, <2>6
<1> QED
  BY <1>3, <1>8, <1>10, <1>11, <1>12, <1>14, <1>15 DEF said

-----------------------------------------------------------------------------

(* The digest functions implement Digest.                                  *)

\* The inductive invariant: the lock, and what the contexts hold.
DataInv ==
  /\ LockInv
  /\ \A c \in Contexts :
       /\ DataOK(World(c))
       /\ phase[c] = "open" => Sound(ctx[c], Held(World(c)))

\* What Digest sees of a context.
View(p, w) ==
  CASE p = "off" -> [phase |-> "off", algorithm |-> <<>>, data |-> <<>>]
    [] p = "open" -> [phase |-> "open", algorithm |-> Held(w).algorithm,
                      data |-> Said(w)]
    [] p \in {"padded", "done"} ->
         [phase |-> "closed", algorithm |-> Held(w).algorithm,
          data |-> Held(w).data]

(* The digest in terms of what its context holds.                          *)
LEMMA DigestIsView ==
  /\ digest = [d \in Contexts |-> View(phase[d], World(d))]
  /\ digest' = [d \in Contexts |-> View(phase'[d], World(d)')]
<1>1. \A d \in Contexts : /\ Absorbed(d) = Held(World(d))
                          /\ Message(d) = Said(World(d))
  BY DEF Absorbed, Held, World, Message, Said, Left
<1>2. \A d \in Contexts : /\ Absorbed(d)' = Held(World(d)')
                          /\ Message(d)' = Said(World(d)')
  BY DEF Absorbed, Held, World, Message, Said, Left
<1> QED
  BY <1>1, <1>2 DEF digest, View

(* A call changes the digest of its own context only: it changes the engine*)
(* only when it ends up as its user, and then no other context is in it.   *)
LEMMA OthersStay ==
  ASSUME DataInv, LockInv', NEW c \in Contexts, NEW x,
         ctx' = [ctx EXCEPT ![c] = x], x.mode # "HARDWARE" => engine' = engine,
         NEW p, phase' = [phase EXCEPT ![c] = p]
  PROVE  /\ ctx'[c] = x /\ phase'[c] = p
         /\ World(c)' = [ctx |-> x, locked |-> locked', engine |-> engine']
         /\ \A d \in Contexts \ {c} :
              /\ ctx'[d] = ctx[d] /\ phase'[d] = phase[d]
              /\ World(d)'.ctx = World(d).ctx
              /\ World(d)'.engine = engine'
              /\ Held(World(d)') = Held(World(d))
         /\ digest' = [digest EXCEPT ![c] = View(p, World(c)')]
<1>1. /\ ctx' = [d \in Contexts |-> IF d = c THEN x ELSE ctx[d]]
      /\ phase' = [d \in Contexts |-> IF d = c THEN p ELSE phase[d]]
  BY DEF DataInv, LockInv
<1>2. World(c)' = [ctx |-> x, locked |-> locked', engine |-> engine']
  BY <1>1 DEF World
<1>3. ASSUME NEW d \in Contexts \ {c}
      PROVE  /\ ctx'[d] = ctx[d] /\ phase'[d] = phase[d]
             /\ World(d)'.ctx = World(d).ctx
             /\ World(d)'.engine = engine'
             /\ Held(World(d)') = Held(World(d))
  <2>1. /\ World(d)'.ctx = ctx[d] /\ World(d)'.engine = engine'
        /\ World(d).ctx = ctx[d] /\ World(d).engine = engine
    BY <1>1 DEF World
  <2>2. CASE ctx[d].mode = "HARDWARE"
    <3>1. ctx'[d].mode = "HARDWARE" /\ ctx'[c] = x
      BY <1>1, <2>2
    <3>2. x.mode # "HARDWARE"
      BY <3>1 DEF LockInv, EngineHasOneUser, InHardware
    <3> QED
      BY <1>1, <2>1, <2>2, <3>2 DEF Held
  <2>3. CASE ctx[d].mode # "HARDWARE"
    BY <1>1, <2>1, <2>3 DEF Held
  <2> QED
    BY <2>2, <2>3
<1>4. ASSUME NEW d \in Contexts \ {c}
      PROVE  View(phase'[d], World(d)') = View(phase[d], World(d))
  <2>1. Said(World(d)') = Said(World(d))
    BY <1>3 DEF Said, Left
  <2> QED
    BY <1>3, <2>1 DEF View
<1>5. digest' = [digest EXCEPT ![c] = View(p, World(c)')]
  <2>1. digest = [d \in Contexts |-> View(phase[d], World(d))]
    BY DigestIsView
  <2>2. digest' = [d \in Contexts |-> View(phase'[d], World(d)')]
    BY DigestIsView
  <2>3. phase'[c] = p
    BY <1>1
  <2> QED
    BY <1>4, <2>1, <2>2, <2>3
<1> QED
  BY <1>1, <1>2, <1>3, <1>5

(* So it keeps the invariant if it leaves its own context in order.        *)
LEMMA DataKept ==
  ASSUME DataInv, LockInv', family' = family, NEW c \in Contexts, NEW x,
         ctx' = [ctx EXCEPT ![c] = x], x.mode # "HARDWARE" => engine' = engine,
         NEW p, phase' = [phase EXCEPT ![c] = p],
         DataOK(World(c)'), p = "open" => Sound(x, Held(World(c)'))
  PROVE  DataInv'
<1>1. /\ ctx'[c] = x /\ phase'[c] = p
      /\ World(c)'.engine = engine'
      /\ \A d \in Contexts \ {c} :
           /\ ctx'[d] = ctx[d] /\ phase'[d] = phase[d]
           /\ World(d)'.ctx = World(d).ctx
           /\ World(d)'.engine = engine'
           /\ Held(World(d)') = Held(World(d))
  <2>1. /\ ctx'[c] = x /\ phase'[c] = p
        /\ World(c)' = [ctx |-> x, locked |-> locked', engine |-> engine']
        /\ \A d \in Contexts \ {c} :
             /\ ctx'[d] = ctx[d] /\ phase'[d] = phase[d]
             /\ World(d)'.ctx = World(d).ctx
             /\ World(d)'.engine = engine'
             /\ Held(World(d)') = Held(World(d))
    BY OthersStay, Zenon
  <2> QED
    BY <2>1
<1>2. ASSUME NEW d \in Contexts
      PROVE  /\ DataOK(World(d)')
             /\ phase'[d] = "open" => Sound(ctx'[d], Held(World(d)'))
  <2>1. CASE d = c
    BY <1>1, <2>1
  <2>2. CASE d # c
    BY <1>1, <2>2 DEF DataInv, DataOK
  <2> QED
    BY <2>1, <2>2
<1> QED
  BY <1>2 DEF DataInv, DataOK, StateOK, Bytes, Sound, Words, Algorithm, Held

(* The bytes an owner passes to an update.                                 *)
LEMMA FedTypes ==
  ASSUME NEW c \in Contexts, NEW m \in Nat, NEW n \in Sizes
  PROVE  LET input == [i \in 1..n |-> <<c, m + i>>]
         IN  /\ input \in Seq(Bytes)
             /\ Len(input) = n
             /\ n \in 1..2^WordBits
<1>1. n \in 1..(2^WordBits - 1) /\ 2^WordBits \in Nat
  BY SizesFitAWord, Sizing
<1>2. n \in Nat /\ n \in 1..2^WordBits
  BY <1>1
<1>3. [i \in 1..n |-> <<c, m + i>>] \in Seq(Bytes)
  <2> DEFINE e(i) == <<c, m + i>>
  <2>1. \A i \in 1..n : e(i) \in Bytes
    BY <1>2 DEF Bytes
  <2> HIDE DEF e
  <2>2. [i \in 1..n |-> e(i)] \in Seq(Bytes)
    BY <1>2, <2>1, IsASeq
  <2> QED
    BY <2>2 DEF e
<1>4. Len([i \in 1..n |-> <<c, m + i>>]) = n
  BY <1>2
<1> QED
  BY <1>2, <1>3, <1>4

(* starts begins an empty message.                                         *)
LEMMA StartsMaps ==
  ASSUME DataInv, LockInv', NEW c \in Contexts, NEW short \in BOOLEAN,
         Starts(c, short)
  PROVE  /\ DataInv' /\ D!Starts(c, Algorithm(short))
         /\ Algorithm(short) \in Algorithms
<1> DEFINE fresh == [algorithm |-> Algorithm(short), data |-> <<>>]
           x == [ctx[c] EXCEPT !.total = <<0, 0>>, !.state = fresh,
                               !.short = short, !.mode = "UNUSED"]
           r == World(c)'
<1>1. /\ ctx' = [ctx EXCEPT ![c] = x] /\ engine' = engine
      /\ family' = family /\ phase' = [phase EXCEPT ![c] = "open"]
  BY DEF Starts, Returns
<1>2. /\ x.total = <<0, 0>> /\ x.state = fresh /\ x.mode = "UNUSED"
      /\ x.short = short /\ x.buffer = ctx[c].buffer
  BY DEF DataInv, LockInv, CtxOK, CtxFields
<1>3. /\ StateOK(fresh) /\ fresh.data = <<>>
      /\ fresh.algorithm = Algorithm(short)
  BY EmptySeq DEF StateOK
<1> HIDE DEF x, fresh
<1>4. r = [ctx |-> x, locked |-> locked', engine |-> engine']
  BY <1>1, OthersStay, Zenon
<1>5. digest' = [digest EXCEPT ![c] = View("open", r)]
  BY <1>1, OthersStay, Zenon
<1> HIDE DEF r
<1>6. Held(r) = fresh
  BY <1>2, <1>4 DEF Held
<1>7. DataOK(r)
  BY <1>1, <1>2, <1>3, <1>4 DEF DataOK, DataInv, World
<1>8. 0 % 2^WordBits = 0 /\ 0 \div 2^WordBits = 0 /\ 0 % BlockSize = 0
  BY Sizing
<1>9. Sound(x, Held(r))
  <2>1. x.total[1] = 0 /\ Len(fresh.data) = 0
    BY <1>2, <1>3
  <2>2. Len(x.buffer) \in Nat
    BY <1>2, LenProperties DEF DataInv, DataOK, World
  <2>3. Words(0) = <<0, 0>>
    BY <1>8 DEF Words
  <2>4. Len(fresh.data) + (x.total[1] % BlockSize) = 0
    BY <1>8, <2>1
  <2> QED
    BY <1>2, <1>6, <1>8, <2>1, <2>2, <2>3, <2>4 DEF Sound, fresh
<1>10. DataInv'
  BY <1>1, <1>2, <1>7, <1>9, DataKept, Zenon DEF r
<1>11. View("open", r) = [phase |-> "open", algorithm |-> Algorithm(short),
                          data |-> <<>>]
  <2>1. Left(r) = 0
    BY <1>2, <1>4, <1>8 DEF Left
  <2>2. SubSeq(r.ctx.buffer, 1, Left(r)) = <<>>
    BY <2>1, SubSeqEmpty
  <2>3. Said(r) = <<>>
    BY <1>3, <1>6, <2>2, ConcatEmptySeq, EmptySeq DEF Said
  <2> QED
    BY <1>3, <1>6, <2>3 DEF View
<1>12. Algorithm(short) \in Algorithms
  BY DEF Algorithm, Algorithms, DataInv, LockInv
<1> QED
  BY <1>5, <1>10, <1>11, <1>12 DEF D!Starts

(* update appends to the message of its context.                           *)
LEMMA UpdateMaps ==
  ASSUME DataInv, LockInv', NEW c \in Contexts, NEW n \in Sizes, Update(c, n)
  PROVE  DataInv' /\ D!Update(c, n)
<1> DEFINE w == World(c)
           input == Input(c, n)
           r == Fed(w, input)
<1>1. /\ WorldOK(w) /\ DataOK(w) /\ Sound(w.ctx, Held(w))
      /\ phase[c] = "open" /\ w.ctx = ctx[c] /\ w.engine = engine
  BY WorldIsOK DEF DataInv, World, Update
<1>2. Message(c) = Said(w) /\ Len(Said(w)) \in Nat
  <2>1. Said(w) \in Seq(Bytes)
    BY <1>1, Buffered
  <2> QED
    BY <2>1, LenProperties DEF Message, Said, Absorbed, Held, World, Left
<1>3. /\ input = D!Input(c, Len(Said(w)), n)
      /\ input \in Seq(Bytes) /\ Len(input) \in 1..2^WordBits
  BY <1>2, FedTypes DEF Input, D!Input
<1>4. /\ ctx' = [ctx EXCEPT ![c] = r.ctx]
      /\ locked' = r.locked /\ engine' = r.engine
      /\ family' = family /\ phase' = [phase EXCEPT ![c] = "open"]
  BY <1>1 DEF Update, Returns, DataInv, LockInv
<1> HIDE DEF w, input
<1>5. /\ DataOK(r) /\ Sound(r.ctx, Held(r))
      /\ Said(r) = Said(w) \o input
      /\ Held(r).algorithm = Held(w).algorithm
      /\ r.ctx.mode # "HARDWARE" => engine' = engine
  BY <1>1, <1>3, <1>4, FedSound
<1>6. WorldOK(r)
  BY <1>1, FedLock
<1> HIDE DEF r
<1>7. World(c)' = [ctx |-> r.ctx, locked |-> locked', engine |-> engine']
  BY <1>4, <1>5, OthersStay, Zenon
<1>8. World(c)' = r
  BY <1>4, <1>6, <1>7 DEF WorldOK
<1>9. digest' = [digest EXCEPT ![c] = View("open", World(c)')]
  BY <1>4, <1>5, OthersStay, Zenon
<1>10. DataInv'
  <2>1. DataOK(World(c)') /\ Sound(r.ctx, Held(World(c)'))
    BY <1>5, <1>8
  <2> QED
    BY <1>4, <1>5, <2>1, DataKept, Zenon
<1>11. digest[c] = [phase |-> "open", algorithm |-> Held(w).algorithm,
                    data |-> Said(w)]
  BY <1>1, DigestIsView DEF View, w
<1>12. View("open", r) = [phase |-> "open", algorithm |-> Held(w).algorithm,
                          data |-> Said(w) \o input]
  BY <1>5 DEF View
<1>13. [digest EXCEPT ![c].data = @ \o D!Input(c, Len(@), n)]
         = [digest EXCEPT ![c] = View("open", r)]
  <2> DEFINE old == digest[c]
             data == Said(w) \o input
  <2>1. [digest EXCEPT ![c].data = @ \o D!Input(c, Len(@), n)]
          = [digest EXCEPT ![c] =
               [old EXCEPT !.data = old.data \o D!Input(c, Len(old.data), n)]]
    OBVIOUS
  <2>2. old.data \o D!Input(c, Len(old.data), n) = data
    BY <1>3, <1>11
  <2> HIDE DEF data
  <2>3. [old EXCEPT !.data = data] = [phase |-> "open",
           algorithm |-> Held(w).algorithm, data |-> data]
    BY <1>11
  <2>4. View("open", r) = [phase |-> "open",
           algorithm |-> Held(w).algorithm, data |-> data]
    BY <1>12 DEF data
  <2> QED
    BY <2>1, <2>2, <2>3, <2>4
<1>14. digest[c].phase = "open"
  BY <1>11
<1> QED
  BY <1>8, <1>9, <1>10, <1>13, <1>14 DEF D!Update

(* clone copies a message, out of the engine too.                          *)
LEMMA CloneMaps ==
  ASSUME DataInv, LockInv', NEW c \in Contexts, NEW src \in Contexts,
         Clone(c, src)
  PROVE  DataInv' /\ D!Clone(c, src)
<1> DEFINE x == Copied(ctx[src])
           w == World(src)
           r == World(c)'
<1>1. /\ ctx' = [ctx EXCEPT ![c] = x] /\ engine' = engine
      /\ family' = family /\ phase' = [phase EXCEPT ![c] = "open"]
      /\ phase[src] = "open"
  BY DEF Clone
<1>2. /\ w.ctx = ctx[src] /\ w.engine = engine
      /\ DataOK(w) /\ Sound(w.ctx, Held(w))
  BY <1>1 DEF DataInv, World
<1>3. /\ x.mode # "HARDWARE" /\ x.state = Held(w)
      /\ x.total = w.ctx.total /\ x.short = w.ctx.short
      /\ x.buffer = w.ctx.buffer
      /\ x.mode = "UNUSED" => w.ctx.mode = "UNUSED"
  BY <1>2 DEF Copied, Held, DataInv, LockInv, CtxOK, CtxFields
<1> HIDE DEF x, w
<1>4. r = [ctx |-> x, locked |-> locked', engine |-> engine']
  BY <1>1, OthersStay, Zenon
<1>5. digest' = [digest EXCEPT ![c] = View("open", r)]
  BY <1>1, OthersStay, Zenon
<1> HIDE DEF r
<1>6. Held(r) = Held(w)
  BY <1>3, <1>4 DEF Held
<1>7. Said(r) = Said(w)
  BY <1>3, <1>4, <1>6 DEF Said, Left
<1>8. DataOK(r)
  BY <1>1, <1>2, <1>3, <1>4 DEF DataOK, Held
<1>9. Sound(x, Held(r))
  BY <1>2, <1>3, <1>6 DEF Sound
<1>10. DataInv'
  BY <1>1, <1>3, <1>8, <1>9, DataKept, Zenon DEF r
<1>11. digest[src] = View("open", w)
  BY <1>1, DigestIsView DEF w
<1>12. View("open", r) = View("open", w)
  BY <1>6, <1>7 DEF View
<1>13. digest[src].phase = "open"
  BY <1>11 DEF View
<1>14. digest' = [digest EXCEPT ![c] = digest[src]]
  BY <1>5, <1>11, <1>12, Zenon
<1> QED
  BY <1>10, <1>13, <1>14 DEF D!Clone

(* finish, up to the last block, makes the digest of the padded message.   *)
LEMMA FinishPadsMaps ==
  ASSUME DataInv, LockInv', NEW c \in Contexts, FinishPads(c)
  PROVE  DataInv' /\ D!Finish(c)
<1> DEFINE w == World(c)
           v == Fed(w, Padding(Padn(w)))
           r == Finished(w)
<1>1. /\ WorldOK(w) /\ DataOK(w) /\ Sound(w.ctx, Held(w))
      /\ phase[c] = "open" /\ w.ctx = ctx[c] /\ w.engine = engine
  BY WorldIsOK DEF DataInv, World, FinishPads
<1>2. /\ ctx' = [ctx EXCEPT ![c] = r.ctx]
      /\ locked' = r.locked /\ engine' = r.engine
      /\ family' = family /\ phase' = [phase EXCEPT ![c] = "padded"]
  BY DEF FinishPads, Returns
<1>3. WorldOK(r)
  <2>1. WorldOK(v)
    BY <1>1, FedLock
  <2> HIDE DEF v
  <2>2. WorldOK(Fed(v, MsgLen(w)))
    BY <2>1, FedLock
  <2> QED
    BY <2>2 DEF Finished, v
<1> HIDE DEF w
<1>4. /\ DataOK(r)
      /\ Held(r).data = D!Padded(Said(w))
      /\ Held(r).algorithm = Held(w).algorithm
      /\ r.ctx.mode # "HARDWARE" => engine' = engine
  BY <1>1, <1>2, FinishedSound
<1> HIDE DEF r
<1>5. World(c)' = [ctx |-> r.ctx, locked |-> locked', engine |-> engine']
  BY <1>2, <1>4, OthersStay, Zenon
<1>6. World(c)' = r
  BY <1>2, <1>3, <1>5 DEF WorldOK
<1>7. digest' = [digest EXCEPT ![c] = View("padded", World(c)')]
  BY <1>2, <1>4, OthersStay, Zenon
<1>8. DataInv'
  <2>1. DataOK(World(c)') /\ "padded" # "open"
    BY <1>4, <1>6
  <2> QED
    BY <1>2, <1>4, <2>1, DataKept, Zenon
<1>9. digest[c] = [phase |-> "open", algorithm |-> Held(w).algorithm,
                   data |-> Said(w)]
  BY <1>1, DigestIsView DEF View, w
<1>10. View("padded", r) = [phase |-> "closed",
                            algorithm |-> Held(w).algorithm,
                            data |-> D!Padded(Said(w))]
  BY <1>4 DEF View
<1>11. View("padded", r) =
         [phase |-> "closed", algorithm |-> digest[c].algorithm,
          data |-> D!Padded(digest[c].data)]
  BY <1>9, <1>10
<1>12. digest[c].phase = "open"
  BY <1>9
<1> QED
  BY <1>6, <1>7, <1>8, <1>11, <1>12 DEF D!Finish

(* Reading the digest out of the engine does not change it.                *)
LEMMA FinishReadsMaps ==
  ASSUME DataInv, LockInv', NEW c \in Contexts, FinishReads(c)
  PROVE  DataInv' /\ digest' = digest
<1> DEFINE x == Unlocked(DigestRead(c))
           w == World(c)
           r == World(c)'
<1>1. /\ ctx' = [ctx EXCEPT ![c] = x] /\ engine' = engine
      /\ family' = family /\ phase' = [phase EXCEPT ![c] = "done"]
      /\ phase[c] = "padded"
  BY DEF FinishReads, Returns
<1>2. /\ w.ctx = ctx[c] /\ w.engine = engine /\ DataOK(w)
  BY DEF DataInv, World
<1>3. /\ x.mode # "HARDWARE" /\ x.state = Held(w)
      /\ x.buffer = w.ctx.buffer
  BY <1>2 DEF Unlocked, DigestRead, Absorbed, Held, DataInv, LockInv, CtxOK,
              CtxFields
<1> HIDE DEF x, w
<1>4. r = [ctx |-> x, locked |-> locked', engine |-> engine']
  BY <1>1, OthersStay, Zenon
<1>5. digest' = [digest EXCEPT ![c] = View("done", r)]
  BY <1>1, OthersStay, Zenon
<1> HIDE DEF r
<1>6. Held(r) = Held(w)
  BY <1>3, <1>4 DEF Held
<1>7. DataOK(r)
  BY <1>1, <1>2, <1>3, <1>4 DEF DataOK, Held
<1>8. DataInv'
  <2>1. "done" # "open"
    OBVIOUS
  <2> QED
    BY <1>1, <1>3, <1>7, <2>1, DataKept, Zenon DEF r
<1>9. digest[c] = View("padded", w)
  BY <1>1, DigestIsView DEF w
<1>10. View("done", r) = View("padded", w)
  BY <1>6 DEF View
<1>11. [digest EXCEPT ![c] = digest[c]] = digest
  BY DEF digest
<1> QED
  BY <1>5, <1>8, <1>9, <1>10, <1>11

(* free forgets the digest.                                                *)
LEMMA FreeMaps ==
  ASSUME DataInv, LockInv', NEW c \in Contexts, Free(c)
  PROVE  DataInv' /\ D!Free(c)
<1> DEFINE r == World(c)'
<1>1. /\ ctx' = [ctx EXCEPT ![c] = Zeroed] /\ engine' = engine
      /\ family' = family /\ phase' = [phase EXCEPT ![c] = "off"]
  BY DEF Free, Returns
<1>2. /\ Zeroed.mode # "HARDWARE"
      /\ StateOK(Zeroed.state) /\ Zeroed.buffer \in Seq(Bytes)
  BY EmptySeq DEF Zeroed, StateOK, NoState
<1>3. r = [ctx |-> Zeroed, locked |-> locked', engine |-> engine']
  BY <1>1, <1>2, OthersStay, Zenon
<1>4. digest' = [digest EXCEPT ![c] = View("off", r)]
  BY <1>1, <1>2, OthersStay, Zenon
<1>5. StateOK(engine)
  BY DEF DataInv, DataOK, World
<1> HIDE DEF r
<1>6. DataOK(r)
  BY <1>1, <1>2, <1>3, <1>5 DEF DataOK
<1>7. DataInv'
  <2>1. "off" # "open"
    OBVIOUS
  <2> QED
    BY <1>1, <1>2, <1>6, <2>1, DataKept, Zenon DEF r
<1>8. View("off", r) = D!NoDigest
  BY DEF View, D!NoDigest
<1> QED
  BY <1>4, <1>7, <1>8 DEF D!Free

(* Every step keeps the invariant and is a step of Digest or changes nothing*)
(* that Digest sees.                                                       *)
LEMMA DigestStep ==
  DataInv /\ [Next]_vars => DataInv' /\ [D!Next]_digest
<1> SUFFICES ASSUME DataInv, [Next]_vars PROVE DataInv' /\ [D!Next]_digest
  OBVIOUS
<1>0. LockInv'
  BY LockInductive DEF DataInv
<1>1. CASE UNCHANGED vars
  <2>1. \A c \in Contexts : World(c)' = World(c)
    BY <1>1 DEF vars, World
  <2>2. digest' = digest
    BY <1>1, <2>1, DigestIsView DEF vars
  <2>3. \A c \in Contexts :
          /\ Held(World(c)') = Held(World(c))
          /\ Sound(ctx[c], Held(World(c)))' = Sound(ctx[c], Held(World(c)))
    BY <1>1, <2>1 DEF vars, Sound, Algorithm, Words
  <2> QED
    BY <1>0, <1>1, <2>1, <2>2, <2>3 DEF DataInv, vars
<1>2. ASSUME NEW c \in Contexts, NEW short \in BOOLEAN, Starts(c, short)
      PROVE  DataInv' /\ D!Next
  <2>1. /\ DataInv' /\ D!Starts(c, Algorithm(short))
        /\ Algorithm(short) \in Algorithms
    BY <1>0, <1>2, StartsMaps
  <2> QED
    BY <2>1 DEF D!Next
<1>3. ASSUME NEW c \in Contexts, NEW n \in Sizes, Update(c, n)
      PROVE  DataInv' /\ D!Next
  BY <1>0, <1>3, UpdateMaps DEF D!Next
<1>4. ASSUME NEW c \in Contexts, NEW src \in Contexts, Clone(c, src)
      PROVE  DataInv' /\ D!Next
  BY <1>0, <1>4, CloneMaps DEF D!Next
<1>5. ASSUME NEW c \in Contexts, FinishPads(c) PROVE DataInv' /\ D!Next
  BY <1>0, <1>5, FinishPadsMaps DEF D!Next
<1>6. ASSUME NEW c \in Contexts, FinishReads(c)
      PROVE  DataInv' /\ digest' = digest
  BY <1>0, <1>6, FinishReadsMaps
<1>7. ASSUME NEW c \in Contexts, Free(c) PROVE DataInv' /\ D!Next
  BY <1>0, <1>7, FreeMaps DEF D!Next
<1> QED
  BY <1>1, <1>2, <1>3, <1>4, <1>5, <1>6, <1>7 DEF Next

(* Whatever the owners interleave and wherever each digest is computed,    *)
(* every context ends with the digest of its own message, padded as the    *)
(* standard asks: the calls of the three files implement Digest.           *)
THEOREM DigestsAreRight == Spec => DigestSpec
<1>1. Init => DataInv /\ D!Init
  <2> SUFFICES ASSUME Init PROVE DataInv /\ D!Init
    OBVIOUS
  <2>1. LockInv
    <3>1. CtxOK(Zeroed) /\ Zeroed.mode = "UNUSED"
      BY DEF CtxOK, CtxFields, Zeroed, Modes
    <3> QED
      BY <3>1 DEF Init, LockInv, EngineHasOneUser, EngineIsReturned,
                  InHardware
  <2>2. DataInv
    BY <2>1, EmptySeq DEF Init, DataInv, DataOK, StateOK, World, Zeroed,
                          NoState
  <2>3. D!Init
    BY DEF Init, D!Init, D!NoDigest, digest
  <2> QED
    BY <2>2, <2>3
<1> QED
  BY <1>1, DigestStep, PTL DEF Spec, DigestSpec, D!Spec
=============================================================================
