----------------------------- MODULE EspBignum -----------------------------
(***************************************************************************)
(* The multi-precision functions of esp_bignum.c, called by several tasks  *)
(* that share one RSA accelerator:                                         *)
(*                                                                         *)
(*   mul      mbedtls_mpi_mul_mpi    Z = X * Y                             *)
(*   mulmod   esp_mpi_mul_mpi_mod    Z = X * Y mod M                       *)
(*   expmod   mbedtls_mpi_exp_mod    Z = X^Y mod M                         *)
(*                                                                         *)
(* A call is taken apart where the code acquires the accelerator, starts   *)
(* it, waits for it, reads the result and releases it.  A product too long *)
(* for it is split and computed by two calls, which may split again: stack *)
(* holds the activations of mpi_mult_mpi_overlong.  The numbers are those  *)
(* of MpiArith and are computed in full.  The wait is an interrupt and a   *)
(* semaphore, or polling (CONFIG_MBEDTLS_MPI_USE_INTERRUPT).               *)
(***************************************************************************)
EXTENDS MpiArith, Sequences

CONSTANTS Tasks,
          NoTask,    \* holds the lock when no task does
          Jobs       \* per task: the calls it makes, see Job

ASSUME NoTaskAssumption == NoTask \notin Tasks

\* A call: z is what the result mpi holds before it, into which factors of a
\* product are that mpi (the other functions have loaded their operands when
\* they write it), rn whether the caller of expmod passes an mpi that caches
\* Rinv.
Job == [op : {"mul", "mulmod", "expmod"}, x : Int, y : Int, m : Int,
        z : Int, into : SUBSET {"x", "y"}, rn : BOOLEAN]

\* Where the limbs of a factor are: in an mpi of its own, in the result mpi
\* because it is the factor, or in those the result mpi had when it was split.
Places == {"own", "same", "slice"}

ASSUME JobsAreCalls == \A t \in Tasks : Jobs[t] \subseteq Job

NoJob    == [op |-> "none", x |-> 0, y |-> 0, m |-> 0, z |-> 0, into |-> {},
             rn |-> FALSE]
NoFactors == <<0, 0, "own", "own">>
NoRinv   == -1
EngineOff == [on |-> FALSE, running |-> "none", interrupt |-> FALSE,
              mode |-> 0, x |-> 0, y |-> 0, m |-> 0, z |-> 0, mprime |-> 0]

VARIABLES
  interrupts,  \* CONFIG_MBEDTLS_MPI_USE_INTERRUPT
  mpi_lock,    \* the task that holds it, or NoTask
  engine,      \* the registers and memory blocks of the accelerator
  semaphore,   \* op_complete_sem: none before its creation, empty or given
  pc,          \* where each task is
  job,         \* the call it is in
  stack,       \* its activations of mpi_mult_mpi_overlong
  factors,     \* the operands of its current mbedtls_mpi_mul_mpi, and the
               \* place of each
  kind,        \* what it uses the accelerator for
  out,         \* Z
  ret,         \* the error code
  rinv,        \* Rinv
  cached       \* the caller's RN: the last argument of mbedtls_mpi_exp_mod

sharedVars == <<mpi_lock, engine, semaphore>>
callVars == <<job, stack, factors, kind, out, ret, rinv, cached>>
vars == <<interrupts, sharedVars, pc, callVars>>

Idle ==
  /\ mpi_lock = NoTask
  /\ engine = EngineOff
  /\ semaphore = "none"
  /\ pc = [t \in Tasks |-> "idle"]
  /\ job = [t \in Tasks |-> NoJob]
  /\ stack = [t \in Tasks |-> <<>>]
  /\ factors = [t \in Tasks |-> NoFactors]
  /\ kind = [t \in Tasks |-> "none"]
  /\ out = [t \in Tasks |-> 0]
  /\ ret = [t \in Tasks |-> "ok"]
  /\ rinv = [t \in Tasks |-> NoRinv]
  /\ cached = [t \in Tasks |-> NoRinv]

Init == interrupts \in BOOLEAN /\ Idle

Goto(t, from, to) == pc[t] = from /\ pc' = [pc EXCEPT ![t] = to]

X(t) == factors[t][1]
Y(t) == factors[t][2]
PlaceOfX(t) == factors[t][3]
PlaceOfY(t) == factors[t][4]

\* The operands of a call.
Operands(j) == <<j.x, j.y, IF "x" \in j.into THEN "same" ELSE "own",
                           IF "y" \in j.into THEN "same" ELSE "own">>

-----------------------------------------------------------------------------
(* Sizes                                                                   *)

\* The longest number is the length of a modular exponentiation, the result
\* mpi as it was before the call included.
ExpWords(j) ==
  Larger(Larger(hardware_words_needed(j.z), hardware_words_needed(j.x)),
         Larger(hardware_words_needed(j.y), hardware_words_needed(j.m)))

WordsMult(x, y) == Larger(bits_to_hardware_words(bitlen(x)),
                          bits_to_hardware_words(bitlen(y)))

WordsSum(x, y) == bits_to_hardware_words(bitlen(x) + bitlen(y))

Words(t) ==
  CASE kind[t] = "multiply" -> 2 * WordsMult(X(t), Y(t))
    [] kind[t] = "failover" -> WordsSum(X(t), Y(t))
    [] kind[t] = "mulmod"   -> hardware_words_needed(job[t].m)
    [] kind[t] = "expmod"   -> ExpWords(job[t])

-----------------------------------------------------------------------------
(* The three functions, up to their use of the accelerator                 *)

Begin(t) ==
  \E j \in Jobs[t] :
    /\ job' = [job EXCEPT ![t] = j]
    /\ factors' = [factors EXCEPT ![t] = Operands(j)]
    /\ kind' = [kind EXCEPT ![t] = j.op]
    /\ out' = [out EXCEPT ![t] = j.z]
    /\ LET toolong == j.op = "expmod" /\ ExpWords(j) > MaxWords
           reuse   == /\ j.op = "expmod" /\ j.rn /\ cached[t] # NoRinv
                      /\ ~toolong
       IN  /\ Goto(t, "idle", CASE j.op = "mul" -> "multiply"
                                [] toolong      -> "returned"
                                [] reuse        -> "acquire"
                                [] OTHER        -> "rinv")
           /\ ret' = [ret EXCEPT ![t] = IF toolong THEN "not acceptable"
                                        ELSE "ok"]
           /\ rinv' = [rinv EXCEPT ![t] = IF reuse THEN cached[t] ELSE NoRinv]
    /\ UNCHANGED <<interrupts, sharedVars, stack, cached>>

\* calculate_rinv divides, which multiplies on the accelerator: the lock has
\* to be free.  It fails without memory, and for a modulus that is not > 0.
RinvCalculated(t) ==
  /\ mpi_lock = NoTask
  /\ \/ /\ job[t].m > 0
        /\ Goto(t, "rinv", "acquire")
        /\ rinv' = [rinv EXCEPT ![t] = calculate_rinv(job[t].m, Words(t))]
        /\ cached' = IF job[t].op = "expmod" /\ job[t].rn
                     THEN [cached EXCEPT ![t] = rinv'[t]] ELSE cached
        /\ UNCHANGED ret
     \/ /\ Goto(t, "rinv", "returned")
        /\ ret' = [ret EXCEPT ![t] = "failed"]
        /\ UNCHANGED <<rinv, cached>>
  /\ UNCHANGED <<interrupts, sharedVars, job, stack, factors, kind, out>>

\* Z takes the value of v and then the sign of the unit, which is 1 or -1:
\* if the unit is Z, its sign is lost when v is copied.
Copied(v, unit, placeOfV, placeOfUnit) ==
  IF placeOfUnit = "same" /\ placeOfV # "same" THEN Magnitude(v)
                                               ELSE v * Sign(unit)

\* mbedtls_mpi_mul_mpi with a factor 0, 1 or -1.  A copy needs memory, unless
\* it copies Z.
MultiplyTrivial(t) ==
  LET unitX  == Magnitude(X(t)) = 1
      source == IF unitX THEN PlaceOfY(t) ELSE PlaceOfX(t)
  IN  /\ Magnitude(X(t)) <= 1 \/ Magnitude(Y(t)) <= 1
      /\ Goto(t, "multiply", "product")
      /\ \/ /\ out' = [out EXCEPT ![t] =
                  IF X(t) = 0 \/ Y(t) = 0 THEN 0
                  ELSE IF unitX
                  THEN Copied(Y(t), X(t), PlaceOfY(t), PlaceOfX(t))
                  ELSE Copied(X(t), Y(t), PlaceOfX(t), PlaceOfY(t))]
            /\ UNCHANGED ret
         \/ /\ X(t) # 0 /\ Y(t) # 0 /\ source # "same"
            /\ ret' = [ret EXCEPT ![t] = "failed"]
            /\ UNCHANGED out
      /\ UNCHANGED <<interrupts, sharedVars, job, stack, factors, kind, rinv,
                     cached>>

\* Both factors must fit in half of the accelerator's numbers ...
TooLongToMultiply(x, y) ==
  /\ Magnitude(x) > 1 /\ Magnitude(y) > 1
  /\ WordsMult(x, y) > MulBlocks * BlockLimbs

\* ... or their product in a whole one, computed modulo a larger number.
MultiplyOnce(t) ==
  /\ Magnitude(X(t)) > 1 /\ Magnitude(Y(t)) > 1
  /\ Goto(t, "multiply", "acquire")
  /\ \/ /\ ~TooLongToMultiply(X(t), Y(t))
        /\ kind' = [kind EXCEPT ![t] = "multiply"]
     \/ /\ TooLongToMultiply(X(t), Y(t))
        /\ WordsSum(X(t), Y(t)) <= MaxWords
        /\ kind' = [kind EXCEPT ![t] = "failover"]
  /\ UNCHANGED <<interrupts, sharedVars, job, stack, factors, out, ret, rinv,
                 cached>>

-----------------------------------------------------------------------------
(* mpi_mult_mpi_overlong: Y, the longer factor, is split after half of its *)
(* limbs, Yp below and Ypp above, which stay where Y has them.             *)

Limbs(y) == RoundedUp(bitlen(y), LimbBits) \div LimbBits
Slice(y) == BaseTo(Limbs(y) \div 2)
Yp(y)    == Sign(y) * (Magnitude(y) % Slice(y))
Ypp(y)   == Sign(y) * (Magnitude(y) \div Slice(y))

Within(place) == IF place = "own" THEN "own" ELSE "slice"

\* What a product finds in such limbs.  Z is grown before it is computed, with
\* limbs of its own left alone; those of a Z that was cut may be freed by it,
\* or copied over, and hold any number then (how many limbs an mpi has
\* allocated is not modelled, nor a fault of the read).
Found(v, limbs, place) ==
  IF place = "slice" THEN {Sign(v) * n : n \in 0..(BaseTo(limbs) - 1)} ELSE {v}

\* Ztemp = X * Yp, of an activation that waits for this product.
MultiplySplits(t) ==
  /\ TooLongToMultiply(X(t), Y(t))
  /\ WordsSum(X(t), Y(t)) > MaxWords
  /\ pc[t] = "multiply"
  /\ LET swap   == bitlen(Y(t)) <= bitlen(X(t))
         longer == IF swap THEN X(t) ELSE Y(t)
         other  == IF swap THEN Y(t) ELSE X(t)
         place  == IF swap THEN <<PlaceOfY(t), PlaceOfX(t)>>
                           ELSE <<PlaceOfX(t), PlaceOfY(t)>>
     IN  /\ stack' = [stack EXCEPT ![t] =
                        <<[x |-> other, y |-> longer, low |-> 0,
                           second |-> FALSE, place |-> place]>> \o @]
         /\ \E x \in Found(other, Limbs(other), place[1]),
               y \in Found(Yp(longer), Limbs(longer) \div 2, Within(place[2])) :
              factors' = [factors EXCEPT ![t] = <<x, y, "own", "own">>]
  /\ UNCHANGED <<interrupts, sharedVars, pc, job, kind, out, ret, rinv,
                 cached>>

\* Z = X * Ypp
SecondProduct(t) ==
  /\ ret[t] = "ok" /\ stack[t] # <<>>
  /\ ~Head(stack[t]).second
  /\ Goto(t, "product", "multiply")
  /\ LET top   == Head(stack[t])
         upper == Limbs(top.y) - Limbs(top.y) \div 2
         place == <<top.place[1], Within(top.place[2])>>
     IN  /\ stack' = [stack EXCEPT ![t] =
                        <<[x |-> top.x, y |-> top.y, low |-> out[t],
                           second |-> TRUE, place |-> top.place]>> \o Tail(@)]
         /\ \E x \in Found(top.x, Limbs(top.x), place[1]),
               y \in Found(Ypp(top.y), upper, place[2]) :
              factors' = [factors EXCEPT ![t] = <<x, y, place[1], place[2]>>]
  /\ UNCHANGED <<interrupts, sharedVars, job, kind, out, ret, rinv, cached>>

\* mutant: the upper product is not shifted back.
SumUnshifted(t) ==
  /\ ret[t] = "ok" /\ stack[t] # <<>>
  /\ Head(stack[t]).second
  /\ pc[t] = "product"
  /\ stack' = [stack EXCEPT ![t] = Tail(@)]
  /\ out' = [out EXCEPT ![t] = @ + Head(stack[t]).low]
  /\ UNCHANGED <<interrupts, sharedVars, pc, job, factors, kind, ret, rinv,
                 cached>>

\* Z = (Z << b) + Ztemp, which may find no memory.
SumOfProducts(t) ==
  /\ ret[t] = "ok" /\ stack[t] # <<>>
  /\ Head(stack[t]).second
  /\ pc[t] = "product"
  /\ stack' = [stack EXCEPT ![t] = Tail(@)]
  /\ \/ /\ out' = [out EXCEPT ![t] = @ * Slice(Head(stack[t]).y)
                                       + Head(stack[t]).low]
        /\ UNCHANGED ret
     \/ /\ ret' = [ret EXCEPT ![t] = "failed"]
        /\ UNCHANGED out
  /\ UNCHANGED <<interrupts, sharedVars, pc, job, factors, kind, rinv, cached>>

\* The error of a product ends every activation; so does the end of the
\* outermost product.
ProductReturns(t) ==
  /\ stack[t] = <<>> \/ ret[t] # "ok"
  /\ Goto(t, "product", "returned")
  /\ stack' = [stack EXCEPT ![t] = <<>>]
  /\ UNCHANGED <<interrupts, sharedVars, job, factors, kind, out, ret, rinv,
                 cached>>

Return(t) ==
  /\ Goto(t, "returned", "idle")
  /\ job' = [job EXCEPT ![t] = NoJob]
  /\ factors' = [factors EXCEPT ![t] = NoFactors]
  /\ kind' = [kind EXCEPT ![t] = "none"]
  /\ out' = [out EXCEPT ![t] = 0]
  /\ ret' = [ret EXCEPT ![t] = "ok"]
  /\ rinv' = [rinv EXCEPT ![t] = NoRinv]
  /\ UNCHANGED <<interrupts, sharedVars, stack, cached>>

-----------------------------------------------------------------------------
(* The accelerator and its lock                                            *)

\* mutant: nobody waits for the lock.
AcquireWithoutLock(t) ==
  /\ Goto(t, "acquire", "clean")
  /\ mpi_lock' = t
  /\ UNCHANGED <<interrupts, engine, semaphore, callVars>>

\* esp_mpi_acquire_hardware: the lock ...
Acquire(t) ==
  /\ mpi_lock = NoTask
  /\ Goto(t, "acquire", "clean")
  /\ mpi_lock' = t
  /\ UNCHANGED <<interrupts, engine, semaphore, callVars>>

\* ... the clock, and the wait until the hardware has cleared its memory.
PowerOn(t) ==
  /\ Goto(t, "clean", "load")
  /\ engine' = [EngineOff EXCEPT !.on = TRUE]
  /\ semaphore' = IF interrupts /\ semaphore = "none" THEN "empty"
                  ELSE semaphore
  /\ UNCHANGED <<interrupts, mpi_lock, callVars>>

\* The mode tells the length and, for RSA_MULT_START_REG, the algorithm.
MontgomeryMode(words) == words \div BlockLimbs - 1
MultiplierMode(words) == words \div BlockLimbs + 2 * MulBlocks - 1

\* mbedtls_mpi_mul_mpi: one factor goes into the upper half of the Z block.
LoadedMultiply(t, w) ==
  [engine EXCEPT !.x = mpi_to_mem_block(X(t), w \div 2),
                 !.z = mpi_to_mem_block(Y(t), w \div 2) * BaseTo(w \div 2),
                 !.mprime = 0,
                 !.mode = MultiplierMode(w)]

\* mpi_mult_mpi_failover_mod_mult: modulo the largest number, with Rinv 1.
LoadedFailover(t, w) ==
  [engine EXCEPT !.x = mpi_to_mem_block(X(t), w),
                 !.z = 1,
                 !.m = BaseTo(w) - 1,
                 !.mprime = 1,
                 !.mode = MontgomeryMode(w)]

\* esp_mpi_mul_mpi_mod
LoadedMulMod(t, w) ==
  [engine EXCEPT !.x = mpi_to_mem_block(X(t), w),
                 !.z = mpi_to_mem_block(rinv[t], w),
                 !.m = mpi_to_mem_block(job[t].m, w),
                 !.mprime = modular_inverse(job[t].m),
                 !.mode = MontgomeryMode(w)]

\* mbedtls_mpi_exp_mod
LoadedExpMod(t, w) ==
  [LoadedMulMod(t, w) EXCEPT !.y = mpi_to_mem_block(Y(t), w)]

Loaded(t) ==
  CASE kind[t] = "multiply" -> LoadedMultiply(t, Words(t))
    [] kind[t] = "failover" -> LoadedFailover(t, Words(t))
    [] kind[t] = "mulmod"   -> LoadedMulMod(t, Words(t))
    [] kind[t] = "expmod"   -> LoadedExpMod(t, Words(t))

StartRegister(t) == IF kind[t] = "expmod" THEN "modexp" ELSE "mult"

\* start_op clears the interrupt and writes the start register.
StartOp(t) ==
  /\ Goto(t, "load", "wait")
  /\ engine' = [Loaded(t) EXCEPT !.interrupt = FALSE,
                                 !.running = StartRegister(t)]
  /\ UNCHANGED <<interrupts, mpi_lock, semaphore, callVars>>

\* What the accelerator (external) computes from its registers.
EngineResult ==
  LET e == engine
  IN  IF e.running = "modexp"
      THEN ModExp(e.x, e.y, e.m, e.z, e.mprime, (e.mode + 1) * BlockLimbs)
      ELSE IF e.mode < 2 * MulBlocks
      THEN Montgomery(e.x, e.z, e.m, e.mprime, (e.mode + 1) * BlockLimbs)
      ELSE Multiplier(e.x, e.z, (e.mode + 1 - 2 * MulBlocks) * BlockLimbs)

EngineCompletes ==
  /\ engine.running # "none"
  /\ engine' = [engine EXCEPT !.z = EngineResult, !.running = "none",
                              !.interrupt = TRUE]
  /\ UNCHANGED <<interrupts, mpi_lock, semaphore, pc, callVars>>

\* mutant: the interrupt is cleared, and nobody is told.
IsrTellsNobody ==
  /\ interrupts /\ engine.interrupt
  /\ engine' = [engine EXCEPT !.interrupt = FALSE]
  /\ UNCHANGED <<interrupts, mpi_lock, semaphore, pc, callVars>>

\* rsa_complete_isr
rsa_complete_isr ==
  /\ interrupts /\ engine.interrupt
  /\ engine' = [engine EXCEPT !.interrupt = FALSE]
  /\ semaphore' = "given"
  /\ UNCHANGED <<interrupts, mpi_lock, pc, callVars>>

\* The start of the second stage finds the interrupt of the first.
TwoStages(t) == kind[t] \in {"failover", "mulmod"}

\* mutant: the result is read without a wait.
WaitForNothing(t) ==
  /\ pc[t] \in {"wait", "wait2"}
  /\ Goto(t, pc[t],
          IF pc[t] = "wait" /\ TwoStages(t) THEN "load2" ELSE "read")
  /\ UNCHANGED <<interrupts, sharedVars, callVars>>

\* wait_op_complete
WaitOpComplete(t) ==
  /\ pc[t] \in {"wait", "wait2"}
  /\ Goto(t, pc[t],
          IF pc[t] = "wait" /\ TwoStages(t) THEN "load2" ELSE "read")
  /\ \/ /\ interrupts /\ semaphore = "given"
        /\ semaphore' = "empty"
        /\ UNCHANGED engine
     \/ /\ ~interrupts /\ engine.interrupt
        /\ engine' = [engine EXCEPT !.interrupt = FALSE]
        /\ UNCHANGED semaphore
  /\ UNCHANGED <<interrupts, mpi_lock, callVars>>

\* After two seconds without the semaphore the program aborts; the chip
\* starts again.
WaitTimesOut(t) ==
  /\ interrupts /\ semaphore = "empty"
  /\ pc[t] \in {"wait", "wait2"}
  /\ mpi_lock' = NoTask
  /\ engine' = EngineOff
  /\ semaphore' = "none"
  /\ pc' = [u \in Tasks |-> "idle"]
  /\ job' = [u \in Tasks |-> NoJob]
  /\ stack' = [u \in Tasks |-> <<>>]
  /\ factors' = [u \in Tasks |-> NoFactors]
  /\ kind' = [u \in Tasks |-> "none"]
  /\ out' = [u \in Tasks |-> 0]
  /\ ret' = [u \in Tasks |-> "ok"]
  /\ rinv' = [u \in Tasks |-> NoRinv]
  /\ cached' = [u \in Tasks |-> NoRinv]
  /\ UNCHANGED interrupts

\* modular_multiply_finish: the result of the first stage stays in its
\* block, Y replaces X.
StartSecondStage(t) ==
  /\ Goto(t, "load2", "wait2")
  /\ engine' = [engine EXCEPT !.x = mpi_to_mem_block(Y(t), Words(t)),
                              !.interrupt = FALSE,
                              !.running = "mult"]
  /\ UNCHANGED <<interrupts, mpi_lock, semaphore, callVars>>

\* mem_block_to_mpi, which may find no memory.
mem_block_to_mpi(t, sign) ==
  \/ out' = [out EXCEPT ![t] = engine.z * sign] /\ UNCHANGED ret
  \/ ret' = [ret EXCEPT ![t] = "failed"] /\ UNCHANGED out

\* The result of exp_mod keeps the sign that Z had; a product gets its own.
ResultSign(t) ==
  IF kind[t] = "expmod" THEN Sign(out[t]) ELSE Sign(X(t)) * Sign(Y(t))

ReadResult(t) ==
  /\ Goto(t, "read", "release")
  /\ mem_block_to_mpi(t, ResultSign(t))
  /\ UNCHANGED <<interrupts, sharedVars, job, stack, factors, kind, rinv,
                 cached>>

\* esp_mpi_release_hardware
Release(t) ==
  /\ Goto(t, "release", IF job[t].op = "mul" THEN "product" ELSE "returned")
  /\ engine' = EngineOff
  /\ mpi_lock' = NoTask
  /\ UNCHANGED <<interrupts, semaphore, callVars>>

-----------------------------------------------------------------------------
Step(t) ==
  \/ RinvCalculated(t) \/ MultiplyTrivial(t) \/ MultiplyOnce(t)
  \/ MultiplySplits(t) \/ SecondProduct(t) \/ SumOfProducts(t)
  \/ ProductReturns(t) \/ Return(t)
  \/ Acquire(t) \/ PowerOn(t) \/ StartOp(t) \/ WaitOpComplete(t)
  \/ StartSecondStage(t) \/ ReadResult(t) \/ Release(t)

Next ==
  \/ \E t \in Tasks : Begin(t) \/ Step(t) \/ WaitTimesOut(t)
  \/ EngineCompletes
  \/ rsa_complete_isr

Spec == Init /\ [][Next]_vars

\* Tasks that can go on do, the accelerator completes what was started and
\* its interrupt is served.  A task that waits for the lock gets it when it
\* is released again and again: it is a FreeRTOS mutex, which serves its
\* waiters in order.
Fairness ==
  /\ \A t \in Tasks : SF_vars(Step(t))
  /\ []<>(engine.running = "none")
  /\ WF_vars(rsa_complete_isr)

FairSpec == Spec /\ Fairness

-----------------------------------------------------------------------------
(* Properties.                                                             *)

InHardware == {"clean", "load", "wait", "load2", "wait2", "read", "release"}

PowerModulo(x, n, m) ==
  LET power[i \in 0..n] == IF i = 0 THEN 1 % m ELSE (power[i-1] * x) % m
  IN  power[n]

\* What the code leaves to the callers of the modular functions (the comment
\* of modular_multiply_finish: the size is "range checked"): an odd modulus
\* that the accelerator takes, operands of mulmod no longer than it, numbers
\* of expmod that are not negative, and Rinv cached for a modulus > 0 only.
Admissible(j) ==
  /\ j.op \in {"mulmod", "expmod"} /\ j.m > 0 => j.m % 2 = 1
  /\ j.op = "mulmod" /\ j.m > 0 =>
       LET w == hardware_words_needed(j.m)
       IN  /\ w <= MaxWords
           /\ Magnitude(j.x) < BaseTo(w) /\ Magnitude(j.y) < BaseTo(w)
  /\ j.op = "expmod" =>
       /\ j.x >= 0 /\ j.y >= 0 /\ j.z >= 0
       /\ j.m > 0 \/ ~j.rn

OperandsFit == \A t \in Tasks : \A j \in Jobs[t] : Admissible(j)

\* The products that may be computed into one of their factors.  A factor 1 or
\* -1 that is Z must not be copied over by one of the other sign, and a Z that
\* is split with its limbs in use by Yp and Ypp is lost: only the shorter
\* factor may be Z then, and never be split itself.
Survives(x, y, placeOfX, placeOfY) ==
  /\ {placeOfX, placeOfY} \subseteq {"own", "same"}
  /\ IF Magnitude(x) <= 1 \/ Magnitude(y) <= 1
     THEN \/ x * y >= 0
          \/ IF Magnitude(x) = 1 THEN placeOfX = "own" \/ placeOfY = "same"
                                 ELSE placeOfY = "own" \/ placeOfX = "same"
     ELSE \/ ~TooLongToMultiply(x, y) \/ WordsSum(x, y) <= MaxWords
          \/ placeOfX = "own" /\ placeOfY = "own"
          \/ /\ placeOfY = "own"
             /\ bits_to_hardware_words(bitlen(x)) <= MulBlocks * BlockLimbs
          \/ /\ placeOfX = "own"
             /\ bits_to_hardware_words(bitlen(y)) <= MulBlocks * BlockLimbs

InPlaceIsRight(j) == Survives(j.x, j.y, Operands(j)[3], Operands(j)[4])

\* A call that reports success has the right result, however long the
\* operands and whoever used the accelerator in between: the product, and
\* residues modulo M (mbedtls_mpi_mul_mpi, esp_mpi_mul_mpi_mod and
\* mbedtls_mpi_exp_mod).  Three kinds of calls are left out, in which the code
\* goes wrong: products into one of their factors that lose a sign
\* (esp_bignum.c:484-487) or the limbs they read (:639-653), see
\* InPlaceIsRight; an exponentiation that takes the Rinv a call of another
\* length has cached, although the modulus is the same; and, by Admissible,
\* factors of mulmod longer than the modulus, which are cut without an error.
ResultIsRight ==
  \A t \in Tasks :
    LET j == job[t]
        m == Larger(j.m, 1)
    IN  pc[t] = "returned" /\ ret[t] = "ok" =>
          CASE j.op = "mul"    -> InPlaceIsRight(j) => out[t] = j.x * j.y
            [] j.op = "mulmod" -> /\ (out[t] - j.x * j.y) % m = 0
                                  /\ Magnitude(out[t]) < m
            [] j.op = "expmod" ->
                 rinv[t] = calculate_rinv(m, ExpWords(j)) =>
                   out[t] = PowerModulo(j.x, j.y, m)

\* The accelerator is powered and running only for the task that holds the
\* lock, and no two tasks are between acquire and release (the lock of
\* esp_mpi_acquire_hardware, on every path, the failing ones included).
EngineHasOneUser ==
  /\ \A t \in Tasks : pc[t] \in InHardware <=> mpi_lock = t
  /\ mpi_lock = NoTask => ~engine.on

\* A wait that ends has waited for the operation its task started: neither a
\* semaphore given for an earlier operation nor an interrupt left over ends
\* it (start_op, rsa_complete_isr and wait_op_complete).
WaitMeansDone ==
  \A t \in Tasks :
    pc[t] \in {"load2", "read", "release"} =>
      /\ engine.running = "none"
      /\ ~engine.interrupt
      /\ semaphore # "given"

\* Every call returns: the lock comes back on every path, and no call waits
\* for a lock that it holds itself (the note "DO NOT call this function
\* while holding" of calculate_rinv).
CallsReturn == \A t \in Tasks : pc[t] # "idle" ~> pc[t] = "idle"
=============================================================================
