------------------------------ MODULE KlogProofs ------------------------------
(***************************************************************************)
(* Proof that the kernel log holds the latest bytes, for every capacity    *)
(* and however much is written.                                            *)
(***************************************************************************)
EXTENDS Klog, TLAPS

(* A place in the ring.  The remainder is used through Wrapped only.       *)
Place(x) == x % KLOG_CAPACITY

LogTypeOK ==
  /\ log_buffer \in [0 .. KLOG_CAPACITY - 1 -> Bytes \cup {0}]
  /\ log_start \in 0 .. KLOG_CAPACITY - 1
  /\ log_length \in 0 .. KLOG_CAPACITY
  /\ written \in Seq(Bytes)

(* What HoldsLatest says of the bytes.                                     *)
Latest == \A i \in 0 .. log_length - 1 : log_buffer[Place(log_start + i)] = written[Kept + i + 1]

(* HoldsLatest with the start in range, and at 0 until the log is full.    *)
LogInv ==
  /\ LogTypeOK
  /\ log_length = IF Len(written) < KLOG_CAPACITY THEN Len(written) ELSE KLOG_CAPACITY
  /\ Latest
  /\ log_length < KLOG_CAPACITY => log_start = 0

LEMMA Wrapped ==
  ASSUME KlogConstants, NEW x \in 0 .. 2 * KLOG_CAPACITY - 1
  PROVE  Place(x) = IF x < KLOG_CAPACITY THEN x ELSE x - KLOG_CAPACITY
  <1> DEFINE rest == IF x < KLOG_CAPACITY THEN x ELSE x - KLOG_CAPACITY
  <1>1. rest \in 0 .. KLOG_CAPACITY - 1 /\ rest % KLOG_CAPACITY = rest
    BY DEF KlogConstants
  <1>2. (rest + KLOG_CAPACITY) % KLOG_CAPACITY = rest
    BY <1>1 DEF KlogConstants
  <1> QED
    BY <1>1, <1>2 DEF KlogConstants, Place

LEMMA Init_LogInv == ASSUME KlogConstants, klog_init PROVE LogInv
  <1>1. written \in Seq(Bytes) /\ Len(written) = 0
    BY DEF klog_init
  <1> QED
    BY <1>1 DEF klog_init, LogInv, LogTypeOK, Latest, KlogConstants

(* What a byte more does to the history.                                   *)
LEMMA WrittenGrows ==
  ASSUME LogTypeOK, NEW value \in Bytes, log_put(value)
  PROVE  /\ written' \in Seq(Bytes) /\ Len(written) \in Nat /\ Len(written') = Len(written) + 1
         /\ written'[Len(written) + 1] = value
         /\ \A i \in 1 .. Len(written) : written'[i] = written[i]
  <1>1. written' = Append(written, value)
    BY DEF log_put
  <1> QED
    BY <1>1 DEF LogTypeOK

(* Until the log is full a byte goes behind the others.                    *)
LEMMA PutInRoom ==
  ASSUME KlogConstants, LogInv, NEW value \in Bytes, log_put(value),
         log_length < KLOG_CAPACITY
  PROVE  LogInv'
  <1>1. Place(log_start + log_length) = log_length
    <2>1. log_start + log_length = log_length /\ log_length \in 0 .. 2 * KLOG_CAPACITY - 1
      BY DEF LogInv, LogTypeOK, KlogConstants
    <2> QED
      BY <2>1, Wrapped
  <1>2. log_length # KLOG_CAPACITY
    BY DEF LogInv, LogTypeOK, KlogConstants
  <1>3. log_length' = log_length + 1 /\ log_start' = log_start /\ log_start = 0
    BY <1>2 DEF log_put, LogInv
  <1>4. log_buffer' = [log_buffer EXCEPT ![log_length] = value]
    BY <1>1, <1>2 DEF log_put, Place
  <1>5. LogTypeOK'
    BY <1>3, <1>4, WrittenGrows DEF LogInv, LogTypeOK, KlogConstants
  <1>6. Len(written) = log_length /\ Len(written') = log_length + 1
    BY WrittenGrows DEF LogInv, LogTypeOK, KlogConstants
  <1>7. Kept = 0 /\ Kept' = 0
    BY <1>3, <1>6 DEF Kept, LogInv, LogTypeOK
  <1>8. ASSUME NEW i \in 0 .. log_length
        PROVE  log_buffer'[Place(i)] = written'[i + 1]
    <2>1. Place(i) = i
      <3>1. i \in 0 .. 2 * KLOG_CAPACITY - 1 /\ i < KLOG_CAPACITY
        BY DEF LogInv, LogTypeOK, KlogConstants
      <3> QED
        BY <3>1, Wrapped
    <2>2. CASE i < log_length
      <3>1. i \in 0 .. log_length - 1 /\ log_start + i = i /\ Kept + i + 1 = i + 1
        BY <1>3, <1>7, <2>2 DEF LogInv, LogTypeOK
      <3>2. log_buffer[i] = written[i + 1]
        BY <2>1, <3>1 DEF LogInv, Latest
      <3>3. log_buffer'[i] = log_buffer[i]
        BY <1>4, <2>2 DEF LogInv, LogTypeOK
      <3>4. i + 1 \in 1 .. Len(written)
        BY <1>6, <2>2 DEF LogInv, LogTypeOK
      <3>5. written'[i + 1] = written[i + 1]
        BY <3>4, WrittenGrows DEF LogInv
      <3> QED
        BY <2>1, <3>2, <3>3, <3>5
    <2>3. CASE i = log_length
      <3>1. written'[log_length + 1] = value
        BY <1>6, WrittenGrows DEF LogInv
      <3>2. log_length \in 0 .. KLOG_CAPACITY - 1
        BY DEF LogInv, LogTypeOK, KlogConstants
      <3>3. log_buffer'[log_length] = value
        BY <1>4, <3>2 DEF LogInv, LogTypeOK
      <3> QED
        BY <2>1, <2>3, <3>1, <3>3
    <2> QED
      BY <2>2, <2>3 DEF LogInv, LogTypeOK
  <1>9. Latest'
    <2> SUFFICES ASSUME NEW i \in 0 .. log_length' - 1
                 PROVE  log_buffer'[Place(log_start' + i)] = written'[Kept' + i + 1]
      BY DEF Latest, Place
    <2>1. i \in 0 .. log_length /\ log_start' + i = i /\ Kept' + i + 1 = i + 1
      BY <1>3, <1>7 DEF LogInv, LogTypeOK
    <2> QED
      BY <1>8, <2>1
  <1>10. log_length' = IF Len(written') < KLOG_CAPACITY THEN Len(written') ELSE KLOG_CAPACITY
    BY <1>3, <1>6 DEF LogInv, LogTypeOK, KlogConstants
  <1> QED
    BY <1>3, <1>5, <1>9, <1>10 DEF LogInv

(* Once it is full a byte takes the place of the oldest.                   *)
LEMMA PutInFull ==
  ASSUME KlogConstants, LogInv, NEW value \in Bytes, log_put(value),
         log_length = KLOG_CAPACITY
  PROVE  LogInv'
  <1>1. /\ log_length' = KLOG_CAPACITY
        /\ log_start' = Place(log_start + 1)
        /\ log_buffer' = [log_buffer EXCEPT ![log_start] = value]
    BY DEF log_put, Place
  <1>2. log_start' = IF log_start + 1 < KLOG_CAPACITY THEN log_start + 1 ELSE 0
    <2> DEFINE x == log_start + 1
    <2>1. x \in 0 .. 2 * KLOG_CAPACITY - 1 /\ x <= KLOG_CAPACITY
      BY DEF LogInv, LogTypeOK, KlogConstants
    <2>2. Place(x) = IF x < KLOG_CAPACITY THEN x ELSE x - KLOG_CAPACITY
      BY <2>1, Wrapped
    <2> QED
      BY <1>1, <2>1, <2>2 DEF LogInv, LogTypeOK, KlogConstants
  <1>3. LogTypeOK'
    BY <1>1, <1>2, WrittenGrows DEF LogInv, LogTypeOK, KlogConstants
  <1>4. Len(written) >= KLOG_CAPACITY /\ Len(written) \in Nat /\ Len(written') = Len(written) + 1
    BY WrittenGrows DEF LogInv, KlogConstants
  <1>5. Kept = Len(written) - KLOG_CAPACITY /\ Kept' = Len(written) + 1 - KLOG_CAPACITY
    BY <1>1, <1>4 DEF Kept, KlogConstants
  <1>6. ASSUME NEW i \in 0 .. KLOG_CAPACITY - 1
        PROVE  log_buffer'[Place(log_start' + i)] = written'[Kept' + i + 1]
    <2> DEFINE y == log_start' + i
    <2>1. CASE i < KLOG_CAPACITY - 1
      <3> DEFINE x == log_start + (i + 1)
      <3>1. /\ x \in 0 .. 2 * KLOG_CAPACITY - 1 /\ y \in 0 .. 2 * KLOG_CAPACITY - 1
            /\ y = IF log_start + 1 < KLOG_CAPACITY THEN x ELSE x - KLOG_CAPACITY
            /\ y < KLOG_CAPACITY \/ y = x
        BY <1>2, <2>1 DEF LogInv, LogTypeOK, KlogConstants
      <3>2. Place(x) = IF x < KLOG_CAPACITY THEN x ELSE x - KLOG_CAPACITY
        BY <3>1, Wrapped
      <3>3. Place(y) = IF y < KLOG_CAPACITY THEN y ELSE y - KLOG_CAPACITY
        BY <3>1, Wrapped
      <3>4. Place(y) = Place(x) /\ Place(x) # log_start /\ Place(x) \in 0 .. KLOG_CAPACITY - 1
        BY <2>1, <3>1, <3>2, <3>3 DEF LogInv, LogTypeOK, KlogConstants
      <3>5. log_buffer[Place(x)] = written[Kept + (i + 1) + 1]
        <4>1. i + 1 \in 0 .. log_length - 1
          BY <2>1 DEF KlogConstants
        <4> QED
          BY <4>1 DEF LogInv, Latest
      <3>6. log_buffer'[Place(x)] = log_buffer[Place(x)]
        BY <1>1, <3>4 DEF LogInv, LogTypeOK
      <3>7. Kept' + i + 1 = Kept + (i + 1) + 1 /\ Kept + (i + 1) + 1 \in 1 .. Len(written)
        BY <1>4, <1>5, <2>1 DEF KlogConstants
      <3>8. written'[Kept + (i + 1) + 1] = written[Kept + (i + 1) + 1]
        BY <3>7, WrittenGrows DEF LogInv
      <3> QED
        BY <3>4, <3>5, <3>6, <3>7, <3>8
    <2>2. CASE i = KLOG_CAPACITY - 1
      <3>1. y \in 0 .. 2 * KLOG_CAPACITY - 1
            /\ y = IF log_start + 1 < KLOG_CAPACITY THEN log_start + KLOG_CAPACITY ELSE log_start
        BY <1>2, <2>2 DEF LogInv, LogTypeOK, KlogConstants
      <3>2. Place(y) = IF y < KLOG_CAPACITY THEN y ELSE y - KLOG_CAPACITY
        BY <3>1, Wrapped
      <3>3. Place(y) = log_start
        BY <3>1, <3>2 DEF LogInv, LogTypeOK, KlogConstants
      <3>4. Kept' + i + 1 = Len(written) + 1
        BY <1>4, <1>5, <2>2 DEF KlogConstants
      <3>5. written'[Len(written) + 1] = value
        BY WrittenGrows DEF LogInv
      <3>6. log_buffer'[log_start] = value
        BY <1>1 DEF LogInv, LogTypeOK
      <3> QED
        BY <3>3, <3>4, <3>5, <3>6
    <2> QED
      BY <2>1, <2>2 DEF KlogConstants
  <1>7. Latest'
    BY <1>1, <1>6 DEF Latest, Place
  <1>8. log_length' = IF Len(written') < KLOG_CAPACITY THEN Len(written') ELSE KLOG_CAPACITY
    BY <1>1, <1>4 DEF KlogConstants
  <1> QED
    BY <1>1, <1>3, <1>7, <1>8 DEF LogInv, KlogConstants

LEMMA Step_LogInv ==
  ASSUME KlogConstants, LogInv, [\E value \in Bytes : log_put(value)]_log_vars
  PROVE  LogInv'
  <1>1. CASE UNCHANGED log_vars
    BY <1>1 DEF log_vars, LogInv, LogTypeOK, Latest, Kept, Place
  <1>2. ASSUME NEW value \in Bytes, log_put(value) PROVE LogInv'
    <2>1. log_length < KLOG_CAPACITY \/ log_length = KLOG_CAPACITY
      BY DEF LogInv, LogTypeOK, KlogConstants
    <2> QED
      BY <1>2, <2>1, PutInRoom, PutInFull
  <1> QED
    BY <1>1, <1>2

(* Whatever the capacity and however often it wraps, the ring of log.c     *)
(* holds the latest bytes written, in order.                               *)
THEOREM LogHoldsLatest == ASSUME KlogConstants PROVE LogSpec => []HoldsLatest
  <1>1. klog_init => LogInv
    BY Init_LogInv
  <1>2. LogInv /\ [\E value \in Bytes : log_put(value)]_log_vars => LogInv'
    BY Step_LogInv
  <1>3. LogInv => HoldsLatest
    BY DEF LogInv, Latest, HoldsLatest, Place
  <1> QED
    BY <1>1, <1>2, <1>3, PTL DEF LogSpec

=============================================================================
