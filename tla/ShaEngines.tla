----------------------------- MODULE ShaEngines -----------------------------
(***************************************************************************)
(* The mbedTLS SHA ports (esp_sha1.c, esp_sha256.c, esp_sha512.c).  Each   *)
(* hash family has one hardware engine.  A context that processes its      *)
(* first block tries to lock the engine of its family: with the lock it    *)
(* keeps its running state in the engine until it finishes, without it it  *)
(* computes in software.  Tasks that own different contexts interleave;    *)
(* what they share is the lock and the content of the engine.              *)
(*                                                                         *)
(* The three files have one structure, and contexts of different families  *)
(* share nothing: the family is a parameter fixed in Init.  The engine     *)
(* itself (hwcrypto/sha.h) is external and modelled from its use here.     *)
(***************************************************************************)
EXTENDS Integers, Sequences

CONSTANTS Contexts,   \* the contexts of one family
          Sizes,      \* ilen: how many bytes an update may bring
          BlockSize,  \* 64 or 128 bytes in the code
          WordBits,   \* bits of a word of total: 32 or 64 in the code
          MaxLen      \* bound on the messages that are explored

ASSUME SizesFitAWord == Sizes \subseteq 1..(2^WordBits - 1)
ASSUME WordsAreWide  == WordBits \in Nat /\ WordBits >= 3
\* A word counts whole bytes of bits: a fact about powers, stated because the
\* provers read 2^WordBits as a number they know nothing about.
ASSUME WordsHoldBytes ==
  /\ 2^(WordBits - 3) \in Nat \ {0}
  /\ 2^WordBits = 8 * 2^(WordBits - 3)
ASSUME BlocksDivideWords ==
  BlockSize \in Nat /\ BlockSize > 2 /\ 2^WordBits % BlockSize = 0

Families == {"SHA1", "SHA256", "SHA512"}
Modes    == {"UNUSED", "HARDWARE", "SOFTWARE"}

VARIABLES
  family,   \* the file: its struct and its engine
  ctx,      \* the contexts, see Zeroed
  phase,    \* what the owner of a context may call next
  locked,   \* the engine is locked
  engine    \* the digest state in the engine

vars == <<family, ctx, phase, locked, engine>>

\* A digest state: the algorithm whose initial values it started from and
\* the data of the blocks processed since.
NoState == [algorithm |-> <<>>, data |-> <<>>]

\* short is is224 or is384; UNUSED is the zero of the mode.
Zeroed == [total |-> <<0, 0>>, state |-> NoState, buffer |-> <<>>,
           mode |-> "UNUSED", short |-> FALSE]

Algorithm(short) == <<family, short>>

Init ==
  /\ family \in Families
  /\ ctx = [c \in Contexts |-> Zeroed]
  /\ phase = [c \in Contexts |-> "off"]
  /\ locked = FALSE
  /\ engine = NoState

-----------------------------------------------------------------------------
(* Processing blocks.  A call works on its own context and on the engine:  *)
(* w is [ctx, locked, engine] as the call finds and leaves them.           *)

World(c) == [ctx |-> ctx[c], locked |-> locked, engine |-> engine]

\* SHA-224 never uses the engine, which computes SHA-256 only.
MayUseEngine(w) == ~(family = "SHA256" /\ w.ctx.short) /\ ~w.locked

\* Only the first block of a digest tries the lock (a test that never
\* waits): who gets it computes in the engine, who does not in software.
FirstBlock(w) ==
  IF w.ctx.mode # "UNUSED" THEN w
  ELSE IF MayUseEngine(w)
  THEN [ctx    |-> [w.ctx EXCEPT !.mode = "HARDWARE"],
        locked |-> TRUE,
        engine |-> w.engine]
  ELSE [w EXCEPT !.ctx = [w.ctx EXCEPT !.mode = "SOFTWARE"]]

\* esp_sha_block, which makes the engine start from its own initial values
\* for the first block, or software_process.
Blocks(w, first, data) ==
  IF w.ctx.mode = "HARDWARE"
  THEN [w EXCEPT !.engine =
          [algorithm |-> IF first THEN Algorithm(w.ctx.short)
                         ELSE w.engine.algorithm,
           data      |-> IF first THEN data ELSE w.engine.data \o data]]
  ELSE [w EXCEPT !.ctx = [w.ctx EXCEPT !.state.data = @ \o data]]

\* internal_shaX_process of one or more blocks.
Process(w, data) == Blocks(FirstBlock(w), w.ctx.mode = "UNUSED", data)

Left(w) == w.ctx.total[1] % BlockSize

\* total[0] += ilen, with the carry into total[1] (here total[1] and [2]).
Counted(total, ilen) ==
  LET low == (total[1] + ilen) % 2^WordBits
  IN  <<low, IF low < ilen THEN (total[2] + 1) % 2^WordBits ELSE total[2]>>

\* The input completes the block that the buffer began.
Pending(w, input) == SubSeq(w.ctx.buffer, 1, Left(w)) \o input

Whole(data) == BlockSize * (Len(data) \div BlockSize)

\* The rest that makes no block is buffered.
Stored(w, input) ==
  LET data == Pending(w, input)
  IN  [w EXCEPT !.ctx =
         [w.ctx EXCEPT !.total = Counted(@, Len(input)),
                       !.buffer = SubSeq(data, Whole(data) + 1, Len(data))]]

\* shaX_update_ret
Fed(w, input) ==
  LET data == Pending(w, input)
  IN  IF Whole(data) = 0 THEN Stored(w, input)
      ELSE Process(Stored(w, input), SubSeq(data, 1, Whole(data)))

\* The length in bits: PUT_UINT of high and low.
MsgLen(w) ==
  LET total == w.ctx.total
      high  == (total[1] \div 2^(WordBits - 3) + 8 * total[2]) % 2^WordBits
      low   == (8 * total[1]) % 2^WordBits
  IN  << <<"length", high>>, <<"length", low>> >>

\* mutant: when the length would just fit, the marker is forgotten.
PadnOffByOne(w) ==
  IF Left(w) <= BlockSize - 2 THEN BlockSize - 2 - Left(w)
  ELSE 2 * BlockSize - 2 - Left(w)

\* The bytes up to the length field.
Padn(w) ==
  IF Left(w) < BlockSize - 2 THEN BlockSize - 2 - Left(w)
  ELSE 2 * BlockSize - 2 - Left(w)

\* shaX_padding, as much of it as is needed.
Padding(n) ==
  [i \in 1..n |-> IF i = 1 THEN <<"marker", 0>> ELSE <<"zero", 0>>]

Finished(w) == Fed(Fed(w, Padding(Padn(w))), MsgLen(w))

-----------------------------------------------------------------------------
(* What the context stands for.                                            *)
\* The digest state of a context, wherever it is kept.
Absorbed(c) == IF ctx[c].mode = "HARDWARE" THEN engine ELSE ctx[c].state

Message(c) == Absorbed(c).data \o SubSeq(ctx[c].buffer, 1, Left(World(c)))

\* The bytes the owner of c passes next (the same names as in Digest).
Input(c, n) == [i \in 1..n |-> <<c, Len(Message(c)) + i>>]

-----------------------------------------------------------------------------
(* The functions.                                                          *)

\* The call leaves w for the context of its caller and for the engine.
Returns(c, w) ==
  /\ ctx' = [ctx EXCEPT ![c] = w.ctx]
  /\ locked' = w.locked
  /\ engine' = w.engine
  /\ UNCHANGED family

\* A context in the engine gives it back.
LockedWithout(c) == locked /\ ctx[c].mode # "HARDWARE"

\* shaX_starts_ret.  SHA-1 has no short variant.  is384 is assigned before
\* sha_type(ctx) names the engine to unlock: SHA-384 and SHA-512 are one.
Starts(c, short) ==
  /\ phase[c] # "padded"
  /\ family = "SHA1" => ~short
  /\ phase' = [phase EXCEPT ![c] = "open"]
  /\ Returns(c, [ctx    |-> [ctx[c] EXCEPT
                               !.total = <<0, 0>>,
                               !.state = [algorithm |-> Algorithm(short),
                                          data |-> <<>>],
                               !.short = short,
                               !.mode = "UNUSED"],
                 locked |-> LockedWithout(c),
                 engine |-> engine])

\* shaX_update_ret of n bytes.
Update(c, n) ==
  /\ phase[c] = "open"
  /\ Len(Message(c)) + n <= MaxLen
  /\ Returns(c, Fed(World(c), Input(c, n)))
  /\ UNCHANGED phase

\* mutant: the context is copied as it is.
ClonePlain(dst, src) ==
  /\ phase[src] = "open" /\ phase[dst] = "off"
  /\ phase' = [phase EXCEPT ![dst] = "open"]
  /\ ctx' = [ctx EXCEPT ![dst] = ctx[src]]
  /\ UNCHANGED <<family, locked, engine>>

\* The copy of a hardware digest goes on in software.
Copied(x) ==
  IF x.mode = "HARDWARE"
  THEN [x EXCEPT !.state = engine, !.mode = "SOFTWARE"] ELSE x

\* shaX_clone.  The caller gives it a fresh dst, as mbedTLS does.
Clone(dst, src) ==
  /\ phase[src] = "open" /\ phase[dst] = "off"
  /\ phase' = [phase EXCEPT ![dst] = "open"]
  /\ ctx' = [ctx EXCEPT ![dst] = Copied(ctx[src])]
  /\ UNCHANGED <<family, locked, engine>>

\* shaX_finish_ret, up to the last block ...
FinishPads(c) ==
  /\ phase[c] = "open"
  /\ phase' = [phase EXCEPT ![c] = "padded"]
  /\ Returns(c, Finished(World(c)))

\* mutant: the digest is read out, and the engine is left to free.
FinishKeepsEngine(c) ==
  /\ phase[c] = "padded"
  /\ phase' = [phase EXCEPT ![c] = "done"]
  /\ ctx' = [ctx EXCEPT ![c].state = Absorbed(c)]
  /\ UNCHANGED <<family, locked, engine>>

\* The engine's digest state replaces the one of the context.
DigestRead(c) == [ctx[c] EXCEPT !.state = Absorbed(c)]

Unlocked(x) == [x EXCEPT !.mode = IF @ = "HARDWARE" THEN "SOFTWARE" ELSE @]

\* ... and from there on: the digest is read out and the engine unlocked.
FinishReads(c) ==
  /\ phase[c] = "padded"
  /\ phase' = [phase EXCEPT ![c] = "done"]
  /\ Returns(c, [ctx    |-> Unlocked(DigestRead(c)),
                 locked |-> LockedWithout(c),
                 engine |-> engine])

\* shaX_free; shaX_init makes the same zeroed context.
Free(c) ==
  /\ phase[c] # "padded"
  /\ phase' = [phase EXCEPT ![c] = "off"]
  /\ Returns(c, [ctx    |-> Zeroed,
                 locked |-> LockedWithout(c),
                 engine |-> engine])

Next ==
  \E c \in Contexts :
    \/ \E short \in BOOLEAN : Starts(c, short)
    \/ \E n \in Sizes : Update(c, n)
    \/ \E src \in Contexts : Clone(c, src)
    \/ FinishPads(c)
    \/ FinishReads(c)
    \/ Free(c)

Spec == Init /\ [][Next]_vars

-----------------------------------------------------------------------------
(* Properties.                                                             *)

\* The parts of the state that control.
TypeOK ==
  /\ family \in Families
  /\ \A c \in Contexts :
       /\ ctx[c].mode \in Modes
       /\ ctx[c].short \in BOOLEAN
  /\ phase \in [Contexts -> {"off", "open", "padded", "done"}]
  /\ locked \in BOOLEAN

\* The engine is locked exactly while one context computes in it: a context
\* that is finished, restarted or freed gives it back, no copy shares it, and
\* no other context is computing in it (the modes and the calls of
\* esp_sha_unlock_engine in starts, clone, finish and free).
InHardware == {c \in Contexts : ctx[c].mode = "HARDWARE"}

EngineHasOneUser ==
  /\ locked <=> InHardware # {}
  /\ \A c, d \in InHardware : c = d

\* Only a digest in progress computes in the engine: no context keeps the
\* lock after finish or free, when its owner may never call again.
EngineIsReturned == \A c \in InHardware : phase[c] \in {"open", "padded"}

\* Whatever the interleaving, and whether it computes in hardware or in
\* software, every context computes the digest of its own message.
Algorithms == Families \X BOOLEAN

digest ==
  [c \in Contexts |->
     CASE phase[c] = "off" ->
            [phase |-> "off", algorithm |-> <<>>, data |-> <<>>]
       [] phase[c] = "open" ->
            [phase |-> "open", algorithm |-> Absorbed(c).algorithm,
             data |-> Message(c)]
       [] phase[c] \in {"padded", "done"} ->
            [phase |-> "closed", algorithm |-> Absorbed(c).algorithm,
             data |-> Absorbed(c).data]]

D == INSTANCE Digest
DigestSpec == D!Spec
=============================================================================
