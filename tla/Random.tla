--------------------------------- MODULE Random ---------------------------------
(***************************************************************************)
(* The random number generator (src/src/core/random.c).  The cipher is     *)
(* external to the model: a block is known by its number, a byte by its    *)
(* block and position.  Every call holds random_lock throughout.           *)
(***************************************************************************)
EXTENDS Integers, FiniteSets, Sequences

CONSTANTS
  RANDOM_OUTPUT_BYTES,
  ReadyBits,        \* 256
  HardwareBits,     \* credited for one hardware read: 64
  Estimates, Requests,
  Readings,         \* what cpu_random64 may return; 0 is a failed read
  MaxBlocks         \* bound on the blocks generated

VARIABLES
  entropy_bits, random_available, block,
  mixed,            \* the block count at the last entropy_add
  output,           \* the bytes the last random_bytes returned
  given,            \* history: the last byte returned before that
  credited          \* history: every estimate passed to entropy_add

random_vars == <<entropy_bits, random_available, block, mixed, output, given, credited>>

(* Mutation of Credit: the sum is capped before the estimate is added.     *)
Credit_uncapped(bits, estimated_bits) ==
  IF bits >= ReadyBits THEN ReadyBits ELSE bits + estimated_bits

Credit(bits, estimated_bits) ==
  IF estimated_bits >= ReadyBits - bits THEN ReadyBits ELSE bits + estimated_bits

(* random_init: the clock, up to four reads of the processor's generator   *)
(* of which one that repeats the last is not credited, and the clock again. *)
HardwareCredits(reads) ==
  LET good == SelectSeq(reads, LAMBDA r : r # 0)
  IN  Cardinality({i \in 1 .. Len(good) : i = 1 \/ good[i] # good[i - 1]})
random_init(reads) ==
  /\ credited = 8 + HardwareCredits(reads) * HardwareBits + 4
  /\ entropy_bits = IF credited >= ReadyBits THEN ReadyBits ELSE credited
  /\ random_available = 0 /\ block = 0 /\ mixed = 0 /\ output = <<>> /\ given = <<0, 0>>

(* Mutation of entropy_add: bytes generated before are still handed out.   *)
entropy_add_keeps_buffer(estimated_bits) ==
  /\ entropy_bits' = Credit(entropy_bits, estimated_bits)
  /\ credited' = IF credited > 2 * ReadyBits THEN credited ELSE credited + estimated_bits
  /\ mixed' = block
  /\ UNCHANGED <<random_available, block, output, given>>

entropy_add(estimated_bits) ==
  /\ entropy_bits' = Credit(entropy_bits, estimated_bits)
  /\ credited' = IF credited > 2 * ReadyBits THEN credited ELSE credited + estimated_bits
  /\ random_available' = 0 /\ mixed' = block
  /\ UNCHANGED <<block, output, given>>

(* The state after size more bytes: a block is generated when none is left. *)
Draw(size) ==
  LET draw[n \in 0 .. size] ==
        IF n = 0 THEN [available |-> random_available, block |-> block, bytes |-> <<>>]
        ELSE LET d == draw[n - 1]
                 fresh == d.available = 0
                 left == IF fresh THEN RANDOM_OUTPUT_BYTES ELSE d.available
                 number == IF fresh THEN d.block + 1 ELSE d.block
             IN  [available |-> left - 1, block |-> number,
                  bytes |-> Append(d.bytes, <<number, RANDOM_OUTPUT_BYTES - left>>)]
  IN  draw[size]

random_bytes(size) ==
  LET d == Draw(size) IN
  /\ size # 0 /\ d.block <= MaxBlocks
  /\ random_available' = d.available /\ block' = d.block
  /\ output' = d.bytes
  /\ given' = IF output = <<>> THEN given ELSE output[Len(output)]
  /\ UNCHANGED <<entropy_bits, mixed, credited>>

RandomInit == \E reads \in [1 .. 4 -> Readings] : random_init(reads)
RandomNext ==
  \/ \E bits \in Estimates : entropy_add(bits)
  \/ \E size \in Requests : random_bytes(size)
------------------------------------------------------------------------------
(* random_is_ready holds exactly when 256 bits have been credited, however *)
(* large one estimate is.                                                  *)
ReadyExact == entropy_bits >= ReadyBits <=> credited >= ReadyBits
BitsCapped == entropy_bits <= ReadyBits

(* Bytes are handed out in the order they are generated, so none twice,    *)
(* not even by a call that crosses blocks or after one was thrown away.    *)
After(b, a) == b[1] > a[1] \/ (b[1] = a[1] /\ b[2] > a[2])
OutputFresh ==
  \A i \in 1 .. Len(output) : After(output[i], IF i = 1 THEN given ELSE output[i - 1])

(* What is returned was generated after the last entropy_add before it.    *)
OutputMixed == [][output' # output => \A i \in 1 .. Len(output') : output'[i][1] > mixed]_random_vars

=============================================================================
