---------------------------------- MODULE Klog ----------------------------------
(***************************************************************************)
(* The kernel log (src/src/core/log.c): a ring of bytes written by one     *)
(* caller at a time.  A line is what klog_write_category puts together,    *)
(* here a few bytes.                                                       *)
(***************************************************************************)
EXTENDS Integers, Sequences

CONSTANTS
  KLOG_CAPACITY, Bytes,
  MaxWritten        \* bound on the bytes ever written

KlogConstants == KLOG_CAPACITY \in Nat \ {0}

VARIABLES
  log_buffer, log_start, log_length,
  written           \* history: every byte put into the log

log_vars == <<log_buffer, log_start, log_length, written>>

klog_init ==
  /\ log_buffer = [i \in 0 .. KLOG_CAPACITY - 1 |-> 0]
  /\ log_start = 0 /\ log_length = 0 /\ written = <<>>

(* Mutation of log_put: a full log drops no byte from its start.           *)
log_put_keeps_start(value) ==
  LET full == log_length = KLOG_CAPACITY
      position == IF full THEN log_start ELSE (log_start + log_length) % KLOG_CAPACITY
  IN  /\ log_length' = IF full THEN log_length ELSE log_length + 1
      /\ log_buffer' = [log_buffer EXCEPT ![position] = value]
      /\ written' = Append(written, value)
      /\ UNCHANGED log_start

log_put(value) ==
  LET full == log_length = KLOG_CAPACITY
      position == IF full THEN log_start ELSE (log_start + log_length) % KLOG_CAPACITY
  IN  /\ log_length' = IF full THEN log_length ELSE log_length + 1
      /\ log_start' = IF full THEN (log_start + 1) % KLOG_CAPACITY ELSE log_start
      /\ log_buffer' = [log_buffer EXCEPT ![position] = value]
      /\ written' = Append(written, value)

(* A copy that does not fit is cut at its end: the oldest bytes are kept.  *)
klog_copy(capacity) ==
  LET count == IF log_length >= capacity THEN capacity - 1 ELSE log_length
  IN  [i \in 1 .. count |-> log_buffer[(log_start + i - 1) % KLOG_CAPACITY]]

LogNext == \E value \in Bytes : Len(written) < MaxWritten /\ log_put(value)
LogSpec == klog_init /\ [][\E value \in Bytes : log_put(value)]_log_vars
------------------------------------------------------------------------------
Kept == Len(written) - log_length
(* The log holds the last KLOG_CAPACITY bytes ever written, in order and   *)
(* however often it has wrapped.                                           *)
HoldsLatest ==
  /\ log_length = IF Len(written) < KLOG_CAPACITY THEN Len(written) ELSE KLOG_CAPACITY
  /\ \A i \in 0 .. log_length - 1 :
       log_buffer[(log_start + i) % KLOG_CAPACITY] = written[Kept + i + 1]

(* Whatever room the caller has, klog_copy fills it with the beginning of  *)
(* what the log holds.                                                     *)
CopiesOldest ==
  \A capacity \in 1 .. KLOG_CAPACITY + 2 :
    LET copy == klog_copy(capacity) IN
    /\ Len(copy) < capacity /\ (Len(copy) = log_length \/ Len(copy) = capacity - 1)
    /\ \A i \in DOMAIN copy : copy[i] = written[Kept + i]

=============================================================================
