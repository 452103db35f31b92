----------------------------- MODULE SeqLockProofs -----------------------------
(***************************************************************************)
(* Proof that a sequence-lock reader told not to retry has read both words *)
(* of one write, for any number of readers and writers.                    *)
(***************************************************************************)
EXTENDS SeqLock, TLAPS

(* The sequence that follows s, and its parity.  Remainders are used       *)
(* through Wrapped and Alternates only.                                    *)
After(s) == (s + 1) % SequenceRange
Parity(s) == s % 2

Inside == {"locked", "first", "second", "close", "unlock"}
Odd == {"first", "second", "close"}
Procs == Writers \cup Readers

(* Only one writer is inside; the sequence is odd while it writes, and the *)
(* words differ only between its two stores.                               *)
OneWriter ==
  /\ \A p \in Procs : pc[p] \in Inside => writer = 1
  /\ \A p, q \in Procs : pc[p] \in Inside /\ pc[q] \in Inside => p = q
  /\ Parity(sequence) = 1 => \E p \in Procs : pc[p] \in Odd
  /\ \A p \in Procs : pc[p] \in Odd => Parity(sequence) = 1
  /\ first # second => \E p \in Procs : pc[p] = "second"

(* How far the sequence is ahead of what a reader took.                    *)
Distance(s, t) == IF s >= t THEN s - t ELSE s - t + SequenceRange
Ahead(r) == Distance(sequence, seen[r])

(* A reader that is reading took an even sequence; the sequence has since  *)
(* advanced by two for each write begun, less one while a write goes on;   *)
(* and if none was begun it has read what is there.                        *)
Reading == {"read1", "read2", "retry"}
ReaderKnows ==
  \A r \in Readers :
    /\ pc[r] \in Reading =>
         /\ Parity(seen[r]) = 0 /\ 2 * missed[r] < SequenceRange
         /\ Ahead(r) = 2 * missed[r] - Parity(sequence)
    /\ pc[r] \in {"read2", "retry"} /\ missed[r] = 0 => got[r][1] = first
    /\ pc[r] = "retry" /\ missed[r] = 0 => got[r][2] = second

Inv == TypeOK /\ OneWriter /\ ReaderKnows /\ NoTornRead

LEMMA Wrapped ==
  ASSUME SequenceEven, NEW s \in 0 .. SequenceRange - 1
  PROVE  After(s) = IF s + 1 = SequenceRange THEN 0 ELSE s + 1
  <1> DEFINE rest == IF s + 1 = SequenceRange THEN 0 ELSE s + 1
  <1>1. rest \in 0 .. SequenceRange - 1 /\ rest % SequenceRange = rest
    BY DEF SequenceEven
  <1>2. (rest + SequenceRange) % SequenceRange = rest
    BY <1>1 DEF SequenceEven
  <1> QED
    BY <1>1, <1>2 DEF SequenceEven, After

(* The next sequence is in range and of the other parity.                  *)
LEMMA Alternates ==
  ASSUME SequenceEven, NEW s \in 0 .. SequenceRange - 1
  PROVE  /\ Parity(s) \in {0, 1} /\ After(s) \in 0 .. SequenceRange - 1
         /\ Parity(After(s)) = 1 - Parity(s)
  BY Wrapped DEF SequenceEven, Parity

LEMMA Advances ==
  ASSUME SequenceEven, NEW s \in 0 .. SequenceRange - 1, NEW t \in 0 .. SequenceRange - 1,
         Distance(s, t) + 1 < SequenceRange
  PROVE  Distance(After(s), t) = Distance(s, t) + 1
  <1>1. After(s) = IF s + 1 = SequenceRange THEN 0 ELSE s + 1
    BY Wrapped
  <1>2. SequenceRange \in Nat
    BY DEF SequenceEven
  <1> QED
    BY <1>1, <1>2 DEF Distance

(* No write begun and the sequence unchanged are the same.                 *)
LEMMA Unmoved ==
  ASSUME SequenceEven, Inv, NEW r \in Readers, pc[r] \in Reading
  PROVE  /\ sequence = seen[r] <=> missed[r] = 0
         /\ missed[r] = 0 => Parity(sequence) = 0 /\ first = second
  <1>1. /\ sequence \in 0 .. SequenceRange - 1 /\ seen[r] \in 0 .. SequenceRange - 1
        /\ missed[r] \in Nat /\ Parity(sequence) \in {0, 1}
    BY Alternates DEF Inv, TypeOK
  <1>2. /\ Parity(seen[r]) = 0 /\ 2 * missed[r] < SequenceRange
        /\ Ahead(r) = 2 * missed[r] - Parity(sequence)
    BY DEF Inv, ReaderKnows
  <1>3. Ahead(r) \in Nat /\ (Ahead(r) = 0 <=> sequence = seen[r])
    BY <1>1 DEF Ahead, Distance, SequenceEven
  <1>4. sequence = seen[r] <=> missed[r] = 0
    BY <1>1, <1>2, <1>3
  <1>5. missed[r] = 0 => Parity(sequence) = 0
    BY <1>1, <1>2, <1>4
  <1>6. Parity(sequence) = 0 => first = second
    BY DEF Inv, OneWriter, Odd
  <1> QED
    BY <1>4, <1>5, <1>6

LEMMA Init_Inv == ASSUME SequenceEven, Init PROVE Inv
  <1>1. first \in Values
    BY DEF Init, SequenceEven
  <1> QED
    BY <1>1 DEF Init, Inv, TypeOK, OneWriter, ReaderKnows, NoTornRead, Procs, Inside, Odd, Reading,
                Parity, SequenceEven

(* A step that changes neither lock nor words, of somebody who stays out.  *)
LEMMA CallKeeps ==
  ASSUME Inv, NEW p \in Procs, WriteCall(p) \/ ReadCall(p)
  PROVE  Inv'
  BY DEF WriteCall, ReadCall, Goto, lock, words, reader, Inv, TypeOK, OneWriter, ReaderKnows,
         NoTornRead, Procs, Inside, Odd, Reading, Ahead

LEMMA LockKeeps ==
  ASSUME Inv, NEW w \in Writers, spinlock_lock(w) \/ spinlock_unlock(w)
  PROVE  Inv'
  <1>1. TypeOK'
    BY DEF spinlock_lock, spinlock_unlock, Goto, words, reader, Inv, TypeOK
  <1>2. OneWriter'
    BY DEF spinlock_lock, spinlock_unlock, Goto, words, reader, Inv, TypeOK, OneWriter, Procs,
           Inside, Odd
  <1>3. ReaderKnows' /\ NoTornRead'
    BY DEF spinlock_lock, spinlock_unlock, Goto, words, reader, Inv, TypeOK, ReaderKnows,
           NoTornRead, Reading, Ahead
  <1> QED
    BY <1>1, <1>2, <1>3 DEF Inv

LEMMA StoreKeeps ==
  ASSUME SequenceEven, Inv, NEW w \in Writers, StoreFirst(w) \/ StoreSecond(w)
  PROVE  Inv'
  <1>1. TypeOK'
    BY DEF StoreFirst, StoreSecond, Goto, lock, reader, Inv, TypeOK
  <1>2. OneWriter'
    BY DEF StoreFirst, StoreSecond, Goto, lock, reader, Inv, TypeOK, OneWriter, Procs, Inside, Odd
  <1>3. Parity(sequence) = 1
    BY DEF StoreFirst, StoreSecond, Goto, Inv, OneWriter, Procs, Odd
  <1>4. \A r \in Readers : pc[r] \in Reading => missed[r] # 0
    BY <1>3, Unmoved
  <1>5. ReaderKnows' /\ NoTornRead'
    BY <1>4 DEF StoreFirst, StoreSecond, Goto, lock, reader, Inv, TypeOK, ReaderKnows, NoTornRead,
                Reading, Ahead
  <1> QED
    BY <1>1, <1>2, <1>5 DEF Inv

(* The sequence becomes odd: every reader has missed a write.              *)
LEMMA WriteLockKeeps ==
  ASSUME SequenceEven, Inv, NEW w \in Writers, seqlock_write_lock(w)
  PROVE  Inv'
  <1>1. sequence' = After(sequence) /\ pc[w] = "locked" /\ pc' = [pc EXCEPT ![w] = "first"]
    BY DEF seqlock_write_lock, Goto, After
  <1>2. Parity(sequence) = 0
    <2>1. \A p \in Procs : pc[p] \notin Odd
      BY <1>1 DEF Inv, OneWriter, Procs, Inside, Odd
    <2> QED
      BY <2>1, Alternates DEF Inv, OneWriter, TypeOK
  <1>3. sequence' \in 0 .. SequenceRange - 1 /\ Parity(sequence') = 1
    BY <1>1, <1>2, Alternates DEF Inv, TypeOK
  <1>4. TypeOK'
    BY <1>1, <1>3 DEF seqlock_write_lock, words, Inv, TypeOK
  <1>5. OneWriter'
    BY <1>1, <1>3 DEF seqlock_write_lock, words, Inv, TypeOK, OneWriter, Procs, Inside, Odd
  <1>6. ASSUME NEW r \in Readers, pc'[r] \in Reading
        PROVE  /\ Parity(seen'[r]) = 0 /\ 2 * missed'[r] < SequenceRange /\ missed'[r] # 0
               /\ Ahead(r)' = 2 * missed'[r] - Parity(sequence')
    <2>1. pc[r] \in Reading /\ missed'[r] = missed[r] + 1 /\ seen'[r] = seen[r]
      BY <1>1, <1>6 DEF seqlock_write_lock, Inv, TypeOK, Reading
    <2>2. /\ Parity(seen[r]) = 0 /\ Ahead(r) = 2 * missed[r] - 0
          /\ missed[r] \in Nat /\ seen[r] \in 0 .. SequenceRange - 1
      BY <1>2, <2>1 DEF Inv, ReaderKnows, TypeOK
    <2>3. 2 * (missed[r] + 1) < SequenceRange
      BY DEF seqlock_write_lock, ReadersKeepUp
    <2>4. Distance(sequence, seen[r]) + 1 < SequenceRange
      BY <2>2, <2>3 DEF Ahead, SequenceEven
    <2>5. Ahead(r)' = 2 * missed[r] + 1
      BY <1>1, <2>1, <2>2, <2>4, Advances DEF Ahead, Inv, TypeOK
    <2> QED
      BY <1>3, <2>1, <2>2, <2>3, <2>5
  <1>7. ReaderKnows'
    BY <1>6 DEF ReaderKnows, Reading
  <1>8. NoTornRead'
    BY <1>1 DEF seqlock_write_lock, Inv, TypeOK, NoTornRead
  <1> QED
    BY <1>4, <1>5, <1>7, <1>8 DEF Inv

(* The sequence becomes even again.                                        *)
LEMMA WriteUnlockKeeps ==
  ASSUME SequenceEven, Inv, NEW w \in Writers, seqlock_write_unlock(w)
  PROVE  Inv'
  <1>1. sequence' = After(sequence) /\ pc[w] = "close" /\ pc' = [pc EXCEPT ![w] = "unlock"]
    BY DEF seqlock_write_unlock, Goto, After
  <1>2. Parity(sequence) = 1
    BY <1>1 DEF Inv, OneWriter, Procs, Odd
  <1>3. sequence' \in 0 .. SequenceRange - 1 /\ Parity(sequence') = 0
    BY <1>1, <1>2, Alternates DEF Inv, TypeOK
  <1>4. TypeOK'
    BY <1>1, <1>3 DEF seqlock_write_unlock, words, reader, Inv, TypeOK
  <1>5. OneWriter'
    BY <1>1, <1>3 DEF seqlock_write_unlock, words, Inv, TypeOK, OneWriter, Procs, Inside, Odd
  <1>6. ASSUME NEW r \in Readers, pc'[r] \in Reading
        PROVE  /\ Parity(seen'[r]) = 0 /\ 2 * missed'[r] < SequenceRange /\ missed'[r] # 0
               /\ Ahead(r)' = 2 * missed'[r] - Parity(sequence')
    <2>1. pc[r] \in Reading /\ missed'[r] = missed[r] /\ seen'[r] = seen[r]
      BY <1>1, <1>6 DEF seqlock_write_unlock, reader, Inv, TypeOK, Reading
    <2>2. /\ Parity(seen[r]) = 0 /\ Ahead(r) = 2 * missed[r] - 1 /\ 2 * missed[r] < SequenceRange
          /\ missed[r] \in Nat /\ seen[r] \in 0 .. SequenceRange - 1
      BY <1>2, <2>1 DEF Inv, ReaderKnows, TypeOK
    <2>3. Distance(sequence, seen[r]) + 1 < SequenceRange
      BY <2>2 DEF Ahead, SequenceEven
    <2>4. Ahead(r) \in Nat
      BY <2>2 DEF Ahead, Distance, Inv, TypeOK, SequenceEven
    <2>5. Ahead(r)' = 2 * missed[r]
      BY <1>1, <2>1, <2>2, <2>3, Advances DEF Ahead, Inv, TypeOK
    <2> QED
      BY <1>3, <2>1, <2>2, <2>4, <2>5
  <1>7. ReaderKnows'
    BY <1>6 DEF ReaderKnows, Reading
  <1>8. NoTornRead'
    BY <1>1 DEF seqlock_write_unlock, reader, Inv, TypeOK, NoTornRead
  <1> QED
    BY <1>4, <1>5, <1>7, <1>8 DEF Inv

LEMMA ReadBeginKeeps ==
  ASSUME SequenceEven, Inv, NEW r \in Readers, seqlock_read_begin(r)
  PROVE  Inv'
  <1>1. TypeOK'
    BY DEF seqlock_read_begin, Goto, lock, words, Inv, TypeOK
  <1>2. OneWriter'
    BY DEF seqlock_read_begin, Goto, lock, words, Inv, TypeOK, OneWriter, Procs, Inside, Odd
  <1>3. Ahead(r)' = 0 /\ Parity(seen'[r]) = 0 /\ missed'[r] = 0 /\ Parity(sequence') = 0 /\ pc'[r] = "read1"
    BY DEF seqlock_read_begin, Goto, lock, Ahead, Distance, Inv, TypeOK, SequenceEven,
           Parity
  <1>4. ReaderKnows'
    BY <1>3 DEF seqlock_read_begin, Goto, lock, words, Inv, TypeOK, ReaderKnows, Reading, Ahead,
                SequenceEven
  <1>5. NoTornRead'
    BY DEF seqlock_read_begin, Goto, Inv, TypeOK, NoTornRead
  <1> QED
    BY <1>1, <1>2, <1>4, <1>5 DEF Inv

LEMMA LoadKeeps ==
  ASSUME Inv, NEW r \in Readers, LoadFirst(r) \/ LoadSecond(r)
  PROVE  Inv'
  <1>1. /\ UNCHANGED <<sequence, writer, first, second, seen, missed>>
        /\ pc' = [pc EXCEPT ![r] = IF pc[r] = "read1" THEN "read2" ELSE "retry"]
        /\ pc[r] \in {"read1", "read2"}
    BY DEF LoadFirst, LoadSecond, Goto, lock, words
  <1>2. got' = [got EXCEPT ![r] = IF pc[r] = "read1" THEN <<first, got[r][2]>>
                                  ELSE <<got[r][1], second>>]
    <2>1. got[r] \in Values \X Values
      BY DEF Inv, TypeOK
    <2>2. /\ [got[r] EXCEPT ![1] = first] = <<first, got[r][2]>>
          /\ [got[r] EXCEPT ![2] = second] = <<got[r][1], second>>
      BY <2>1
    <2>3. CASE LoadFirst(r)
      BY <2>2, <2>3 DEF LoadFirst, Goto
    <2>4. CASE LoadSecond(r)
      BY <2>2, <2>4 DEF LoadSecond, Goto
    <2> QED
      BY <2>3, <2>4
  <1>3. TypeOK'
    <2>1. got' \in [Readers -> Values \X Values]
      BY <1>2 DEF Inv, TypeOK
    <2> QED
      BY <1>1, <2>1 DEF Inv, TypeOK
  <1>4. OneWriter'
    BY <1>1 DEF Inv, TypeOK, OneWriter, Procs, Inside, Odd
  <1>5. ReaderKnows'
    BY <1>1, <1>2 DEF Inv, TypeOK, ReaderKnows, Reading, Ahead
  <1>6. NoTornRead'
    BY <1>1, <1>2 DEF Inv, TypeOK, NoTornRead
  <1> QED
    BY <1>3, <1>4, <1>5, <1>6 DEF Inv

(* The reader that goes on has missed no write.                            *)
LEMMA RetryKeeps ==
  ASSUME SequenceEven, Inv, NEW r \in Readers, seqlock_read_retry(r) \/ Use(r)
  PROVE  Inv'
  <1>1. TypeOK'
    BY DEF seqlock_read_retry, Use, Goto, lock, words, reader, Inv, TypeOK
  <1>2. OneWriter'
    BY DEF seqlock_read_retry, Use, Goto, lock, words, Inv, TypeOK, OneWriter, Procs, Inside, Odd
  <1>3. ReaderKnows'
    BY DEF seqlock_read_retry, Use, Goto, lock, words, reader, Inv, TypeOK, ReaderKnows, Reading,
           Ahead
  <1>4. pc[r] = "retry" /\ sequence = seen[r] => got[r][1] = got[r][2]
    <2> SUFFICES ASSUME pc[r] = "retry", sequence = seen[r] PROVE got[r][1] = got[r][2]
      OBVIOUS
    <2>1. missed[r] = 0 /\ first = second
      BY Unmoved DEF Reading
    <2> QED
      BY <2>1 DEF Inv, ReaderKnows
  <1>5. NoTornRead'
    BY <1>4 DEF seqlock_read_retry, Use, Goto, reader, Inv, TypeOK, NoTornRead
  <1> QED
    BY <1>1, <1>2, <1>3, <1>5 DEF Inv

LEMMA Step_Inv == ASSUME SequenceEven, Inv, [Next]_vars PROVE Inv'
  <1>1. CASE UNCHANGED vars
    BY <1>1 DEF vars, Inv, TypeOK, OneWriter, ReaderKnows, NoTornRead, Ahead
  <1>2. ASSUME NEW w \in Writers, WriteCall(w) \/ Write(w) PROVE Inv'
    BY <1>2, CallKeeps, LockKeeps, StoreKeeps, WriteLockKeeps, WriteUnlockKeeps DEF Write, Procs
  <1>3. ASSUME NEW r \in Readers, ReadCall(r) \/ Read(r) PROVE Inv'
    BY <1>3, CallKeeps, ReadBeginKeeps, LoadKeeps, RetryKeeps DEF Read, Procs
  <1> QED
    BY <1>1, <1>2, <1>3 DEF Next

(* A reader of the sequence lock that is told not to retry has both words  *)
(* of one write, for any number of readers and writers, as long as none    *)
(* sleeps through a whole turn of the sequence.                            *)
THEOREM ReadsWhole == ASSUME SequenceEven PROVE Spec => []NoTornRead
  <1>1. Init => Inv
    BY Init_Inv
  <1>2. Inv /\ [Next]_vars => Inv'
    BY Step_Inv
  <1>3. Inv => NoTornRead
    BY DEF Inv
  <1> QED
    BY <1>1, <1>2, <1>3, PTL DEF Spec

=============================================================================
