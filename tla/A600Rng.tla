------------------------------- MODULE A600Rng -------------------------------
(***************************************************************************)
(* The A600 hardware RNG driver, a600_rng_read                             *)
(* (plat/faraday/a600/a600_rng.c), against the RNG block.                  *)
(*                                                                         *)
(* The RNG, once CTRL.ENABLE is set, first discards the number of values   *)
(* written to the low bits of STATUS, then fills a FIFO whose fill level   *)
(* STATUS reports in bits 31:24; a read of DATA pops the oldest word.      *)
(* Words are numbered in the order the RNG produces them, so a word is     *)
(* its number.  A byte of the caller's buffer is the word it came from and *)
(* its position in that word (byte 0 is the least significant: the A600    *)
(* runs little-endian, so memcpy of a word copies its low bytes first).    *)
(***************************************************************************)
EXTENDS Integers

CONSTANTS
  Lens,         \* the len arguments the caller passes
  MaxCalls,     \* bound on calls of a600_rng_read
  WARMUP,       \* RNG_WARMUP_COUNT (0x40000), scaled down
  FIFO_DEPTH    \* words the RNG's FIFO holds

\* a600_hw.h:55 and 61.
A600_RNG_CTRL_ENABLE == 1
A600_RNG_INT_MASK_DISABLE == 1

WordSize == 4                                  \* sizeof(uint32_t)
MaxLen == CHOOSE l \in Lens : \A k \in Lens : k <= l
\* The caller's buffer and the words of memory right after it.
Bytes == 0..(MaxLen + WordSize - 1)
Empty == [w |-> 0, b |-> 0]                    \* a byte never written

VARIABLES
  pc,        \* "idle" (between calls), "init", "loop", "full", "tail"
  calls,     \* calls made so far
  len,       \* len of the current call
  left,      \* its local left
  dst,       \* its local dst, as a byte offset into buf
  buf,       \* buf[i]: where byte i of the caller's buffer came from
  first,     \* the first word the RNG had not handed out at the call
  ctrl,      \* CTRL.ENABLE
  intMask,   \* INT_MASK.DISABLE
  warmup,    \* values the RNG still discards (STATUS, low bits)
  fifo,      \* words available (STATUS, bits 31:24)
  taken      \* words read from DATA so far

vars == <<pc, calls, len, left, dst, buf, first, ctrl, intMask, warmup,
          fifo, taken>>

\* An earlier boot stage may have enabled the RNG already, with words in
\* its FIFO; a disabled RNG holds none.
Init ==
  /\ pc = "idle"
  /\ calls = 0
  /\ len = 0 /\ left = 0 /\ dst = 0
  /\ buf = [i \in Bytes |-> Empty]
  /\ first = 1
  /\ ctrl \in {0, A600_RNG_CTRL_ENABLE}
  /\ intMask \in {0, A600_RNG_INT_MASK_DISABLE}
  /\ warmup = 0
  /\ fifo \in IF ctrl = A600_RNG_CTRL_ENABLE THEN 0..FIFO_DEPTH ELSE {0}
  /\ taken = 0

\* The caller's buffer after bytes [dst, dst + n) get the low n bytes of
\* word w.
Store(b, d, w, n) ==
  [i \in Bytes |-> IF d <= i /\ i < d + n THEN [w |-> w, b |-> i - d]
                   ELSE b[i]]

----------------------------------------------------------------------------
(* a600_rng_read.                                                          *)

\* Lines 53-62: a call with a fresh buffer; the asserts hold (buf is not
\* NULL, len is not 0).
RngRead(l) ==
  /\ pc = "idle"
  /\ calls < MaxCalls
  /\ calls' = calls + 1
  /\ len' = l /\ left' = l /\ dst' = 0
  /\ buf' = [i \in Bytes |-> Empty]
  /\ first' = taken + 1
  /\ pc' = "init"
  /\ UNCHANGED <<ctrl, intMask, warmup, fifo, taken>>

\* Variant: the RNG is never enabled.
RngInitializeNoEnable ==
  /\ pc = "init"
  /\ IF ctrl = A600_RNG_CTRL_ENABLE
       THEN UNCHANGED <<intMask, warmup>>
       ELSE /\ intMask' = A600_RNG_INT_MASK_DISABLE
            /\ warmup' = WARMUP
  /\ pc' = "loop"
  /\ UNCHANGED <<calls, len, left, dst, buf, first, ctrl, fifo, taken>>

\* a600_rng_initialize (lines 17-37): nothing if CTRL.ENABLE is set;
\* otherwise mask the interrupt, set the warm-up count, enable.
RngInitialize ==
  /\ pc = "init"
  /\ IF ctrl = A600_RNG_CTRL_ENABLE
       THEN UNCHANGED <<ctrl, intMask, warmup>>
       ELSE /\ intMask' = A600_RNG_INT_MASK_DISABLE
            /\ warmup' = WARMUP
            /\ ctrl' = A600_RNG_CTRL_ENABLE
  /\ pc' = "loop"
  /\ UNCHANGED <<calls, len, left, dst, buf, first, fifo, taken>>

\* Variant: the word loop runs while any byte is left (left > 0).
RngReadLoopAnyLeft ==
  /\ pc = "loop"
  /\ pc' = IF left > 0 THEN "full" ELSE "idle"
  /\ UNCHANGED <<calls, len, left, dst, buf, first, ctrl, intMask, warmup,
                 fifo, taken>>

\* The loop test of line 65 and the test of line 71.
RngReadLoop ==
  /\ pc = "loop"
  /\ pc' = CASE left >= WordSize -> "full"
             [] left > 0         -> "tail"
             [] OTHER            -> "idle"
  /\ UNCHANGED <<calls, len, left, dst, buf, first, ctrl, intMask, warmup,
                 fifo, taken>>

\* a600_rng_get_word (lines 39-51): poll STATUS until it reports a word,
\* then pop DATA.  The polls that read 0 change nothing, so the step is the
\* one that finds a word.
GetWord == /\ fifo > 0
           /\ fifo' = fifo - 1
           /\ taken' = taken + 1

\* Lines 66-68: a whole word to *dst++.
RngReadFull ==
  /\ pc = "full"
  /\ GetWord
  /\ buf' = Store(buf, dst, taken + 1, WordSize)
  /\ dst' = dst + WordSize
  /\ left' = left - WordSize
  /\ pc' = "loop"
  /\ UNCHANGED <<calls, len, first, ctrl, intMask, warmup>>

\* Variant: the tail copies a whole word.
RngReadTailWholeWord ==
  /\ pc = "tail"
  /\ GetWord
  /\ buf' = Store(buf, dst, taken + 1, WordSize)
  /\ pc' = "idle"
  /\ UNCHANGED <<calls, len, left, dst, first, ctrl, intMask, warmup>>

\* Lines 71-74: the last left bytes from one more word.
RngReadTail ==
  /\ pc = "tail"
  /\ GetWord
  /\ buf' = Store(buf, dst, taken + 1, left)
  /\ pc' = "idle"
  /\ UNCHANGED <<calls, len, left, dst, first, ctrl, intMask, warmup>>

----------------------------------------------------------------------------
(* The RNG block: once enabled it discards the warm-up values, then        *)
(* fills the FIFO.                                                         *)

RngProduce ==
  /\ ctrl = A600_RNG_CTRL_ENABLE
  /\ IF warmup > 0
       THEN /\ warmup' = warmup - 1
            /\ UNCHANGED fifo
       ELSE /\ fifo < FIFO_DEPTH
            /\ fifo' = fifo + 1
            /\ UNCHANGED warmup
  /\ UNCHANGED <<pc, calls, len, left, dst, buf, first, ctrl, intMask,
                 taken>>

Next ==
  \/ \E l \in Lens : RngRead(l)
  \/ RngInitialize \/ RngReadLoop \/ RngReadFull \/ RngReadTail
  \/ RngProduce

\* The core runs a600_rng_read to its end; an enabled RNG keeps producing.
\* When the caller calls is not fair.
Spec == Init /\ [][Next]_vars
          /\ WF_vars(RngInitialize \/ RngReadLoop \/ RngReadFull \/ RngReadTail)
          /\ WF_vars(RngProduce)

----------------------------------------------------------------------------
(* Properties.                                                             *)

TypeOK ==
  /\ pc \in {"idle", "init", "loop", "full", "tail"}
  /\ calls \in 0..MaxCalls
  /\ len \in Lens \cup {0}
  /\ left \in 0..MaxLen
  /\ dst \in 0..MaxLen
  /\ buf \in [Bytes -> {Empty} \cup [w : 1..taken, b : 0..(WordSize - 1)]]
  /\ ctrl \in {0, A600_RNG_CTRL_ENABLE}
  /\ warmup \in 0..WARMUP
  /\ fifo \in 0..FIFO_DEPTH

\* The reference: a buffer of l bytes filled from the words numbered f
\* onwards, four bytes a word, low byte first, and nothing written past it.
Filled(l, f) ==
  [i \in Bytes |-> IF i < l THEN [w |-> f + i \div WordSize,
                                  b |-> i % WordSize]
                   ELSE Empty]

\* When a600_rng_read returns, its buffer holds exactly len bytes of words
\* it popped during this call, each word used once and in the order the
\* RNG produced them, and no byte past len is written: the word loop and
\* the partial-word tail (lines 65-74) together cover the buffer.
ReadFillsBufferExactly ==
  (pc = "idle" /\ calls > 0) => buf = Filled(len, first)

\* Every call of a600_rng_read returns, whether or not the RNG was enabled
\* before it and however long the warm-up takes.
EveryReadReturns == pc # "idle" ~> pc = "idle"

============================================================================
