------------------------------- MODULE SeqLock -------------------------------
(***************************************************************************)
(* The sequence lock (src/src/core/sync.c) around two words of data.       *)
(* Writers exclude each other with a spinlock and make the sequence odd    *)
(* while they write; a reader takes an even sequence, reads both words and *)
(* reads the sequence again.  Stores become visible in order and loads are *)
(* made in order on x86, so steps interleave.                              *)
(***************************************************************************)
EXTENDS Integers

CONSTANTS
  Writers, Readers,
  Values,           \* what a writer stores in both words
  SequenceRange     \* the sequence is counted modulo this: 2^32 in the code

SequenceEven ==
  /\ SequenceRange \in Nat /\ SequenceRange > 2 /\ SequenceRange % 2 = 0
  /\ Values # {}

VARIABLES
  sequence, writer, \* the lock
  first, second,    \* the data it protects
  pc,
  seen,             \* a reader's sequence
  got,              \* what a reader has read of the two words
  missed            \* history: writes begun since a reader took its sequence

vars == <<sequence, writer, first, second, pc, seen, got, missed>>
lock == <<sequence, writer>>
words == <<first, second>>
reader == <<seen, got, missed>>

Goto(p, from, to) == pc[p] = from /\ pc' = [pc EXCEPT ![p] = to]

(* seqlock_init.                                                           *)
Init ==
  /\ sequence = 0 /\ writer = 0
  /\ first = CHOOSE v \in Values : TRUE
  /\ second = first /\ got = [r \in Readers |-> <<first, first>>]
  /\ pc = [p \in Writers \cup Readers |-> "idle"]
  /\ seen = [r \in Readers |-> 0]
  /\ missed = [r \in Readers |-> 0]
------------------------------------------------------------------------------
(* spinlock_lock on the writers' lock: the compare-exchange that succeeds. *)
spinlock_lock(w) ==
  /\ Goto(w, "wait", "locked")
  /\ writer = 0 /\ writer' = 1
  /\ UNCHANGED <<sequence, words, reader>>

WriteCall(w) == Goto(w, "idle", "wait") /\ UNCHANGED <<lock, words, reader>>

(* No reader sleeps while the sequence goes once around: 2^31 writes.      *)
ReadersKeepUp == \A r \in Readers : 2 * (missed[r] + 1) < SequenceRange

seqlock_write_lock(w) ==
  /\ Goto(w, "locked", "first")
  /\ ReadersKeepUp
  /\ sequence' = (sequence + 1) % SequenceRange
  /\ missed' = [r \in Readers |-> IF pc[r] \in {"read1", "read2", "retry"}
                                  THEN missed[r] + 1 ELSE 0]
  /\ UNCHANGED <<writer, words, seen, got>>

(* The caller's update, one word at a time.                                *)
StoreFirst(w) ==
  /\ Goto(w, "first", "second")
  /\ \E v \in Values : first' = v
  /\ UNCHANGED <<lock, second, reader>>

StoreSecond(w) ==
  /\ Goto(w, "second", "close")
  /\ second' = first
  /\ UNCHANGED <<lock, first, reader>>

seqlock_write_unlock(w) ==
  /\ Goto(w, "close", "unlock")
  /\ sequence' = (sequence + 1) % SequenceRange
  /\ UNCHANGED <<writer, words, reader>>

spinlock_unlock(w) ==
  /\ Goto(w, "unlock", "idle")
  /\ writer' = 0
  /\ UNCHANGED <<sequence, words, reader>>
------------------------------------------------------------------------------
ReadCall(r) == Goto(r, "idle", "begin") /\ UNCHANGED <<lock, words, reader>>

(* Mutation of seqlock_read_begin: an odd sequence is taken too.           *)
seqlock_read_begin_any(r) ==
  /\ Goto(r, "begin", "read1")
  /\ seen' = [seen EXCEPT ![r] = sequence]
  /\ missed' = [missed EXCEPT ![r] = 0]
  /\ UNCHANGED <<lock, words, got>>

(* The load that finds the sequence even.                                  *)
seqlock_read_begin(r) ==
  /\ Goto(r, "begin", "read1")
  /\ sequence % 2 = 0
  /\ seen' = [seen EXCEPT ![r] = sequence]
  /\ missed' = [missed EXCEPT ![r] = 0]
  /\ UNCHANGED <<lock, words, got>>

LoadFirst(r) ==
  /\ Goto(r, "read1", "read2")
  /\ got' = [got EXCEPT ![r][1] = first]
  /\ UNCHANGED <<lock, words, seen, missed>>

LoadSecond(r) ==
  /\ Goto(r, "read2", "retry")
  /\ got' = [got EXCEPT ![r][2] = second]
  /\ UNCHANGED <<lock, words, seen, missed>>

(* The reader starts over, or uses what it has read.                       *)
seqlock_read_retry(r) ==
  /\ Goto(r, "retry", IF sequence # seen[r] THEN "begin" ELSE "use")
  /\ UNCHANGED <<lock, words, reader>>

Use(r) == Goto(r, "use", "idle") /\ UNCHANGED <<lock, words, reader>>
------------------------------------------------------------------------------
Write(w) ==
  \/ spinlock_lock(w) \/ seqlock_write_lock(w) \/ StoreFirst(w) \/ StoreSecond(w)
  \/ seqlock_write_unlock(w) \/ spinlock_unlock(w)

Read(r) ==
  seqlock_read_begin(r) \/ LoadFirst(r) \/ LoadSecond(r) \/ seqlock_read_retry(r) \/ Use(r)

Next ==
  \/ \E w \in Writers : WriteCall(w) \/ Write(w)
  \/ \E r \in Readers : ReadCall(r) \/ Read(r)

Spec == Init /\ [][Next]_vars
------------------------------------------------------------------------------
(* The sequence is an unsigned number, the rest labels and values.         *)
TypeOK ==
  /\ sequence \in 0 .. SequenceRange - 1 /\ writer \in {0, 1}
  /\ first \in Values /\ second \in Values
  /\ pc \in [Writers \cup Readers -> {"idle", "wait", "locked", "first", "second", "close",
                                      "unlock", "begin", "read1", "read2", "retry", "use"}]
  /\ seen \in [Readers -> 0 .. SequenceRange - 1]
  /\ got \in [Readers -> Values \X Values]
  /\ missed \in [Readers -> Nat]

(* A reader that is told not to retry has both words of one write, never   *)
(* half of one and half of another.                                        *)
NoTornRead == \A r \in Readers : pc[r] = "use" => got[r][1] = got[r][2]

=============================================================================
