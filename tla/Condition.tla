------------------------------ MODULE Condition ------------------------------
(***************************************************************************)
(* Conditions (src/src/core/sync.c).  A waiter takes a snapshot of the     *)
(* sequence, looks at what it is waiting for, and then waits until the     *)
(* sequence is no longer the snapshot: a signal that comes between the     *)
(* snapshot and the wait is not lost.                                      *)
(***************************************************************************)
EXTENDS Integers

CONSTANTS
  CPUs,            \* the processors that wait
  SequenceRange    \* the sequence is counted modulo this: 2^32 in the code

RangeNotZero == SequenceRange \in Nat /\ SequenceRange > 1

VARIABLES
  sequence,
  pc,          \* "idle", "checking" after the snapshot, or "waiting"
  snapshot,
  missed       \* history: signals since the snapshot

vars == <<sequence, pc, snapshot, missed>>

Goto(c, from, to) == pc[c] = from /\ pc' = [pc EXCEPT ![c] = to]

(* condition_init.                                                         *)
Init ==
  /\ sequence = 0
  /\ pc = [c \in CPUs |-> "idle"]
  /\ snapshot = [c \in CPUs |-> 0]
  /\ missed = [c \in CPUs |-> 0]

condition_snapshot(c) ==
  /\ Goto(c, "idle", "checking")
  /\ snapshot' = [snapshot EXCEPT ![c] = sequence]
  /\ missed' = [missed EXCEPT ![c] = 0]
  /\ UNCHANGED sequence

(* What was waited for is there already: no wait.                          *)
NoNeed(c) == Goto(c, "checking", "idle") /\ UNCHANGED <<sequence, snapshot, missed>>

(* Mutation of condition_wait: the snapshot is taken here.                 *)
condition_wait_late(c) ==
  /\ Goto(c, "checking", "waiting")
  /\ snapshot' = [snapshot EXCEPT ![c] = sequence]
  /\ UNCHANGED <<sequence, missed>>

condition_wait(c) == Goto(c, "checking", "waiting") /\ UNCHANGED <<sequence, snapshot, missed>>

(* The load that ends the wait.                                            *)
Woken(c) ==
  /\ Goto(c, "waiting", "idle")
  /\ sequence # snapshot[c]
  /\ UNCHANGED <<sequence, snapshot, missed>>

(* No waiter sleeps while the sequence goes once around: 2^32 signals.     *)
WaitersKeepUp == \A c \in CPUs : pc[c] # "idle" => missed[c] + 1 < SequenceRange

condition_signal ==
  /\ WaitersKeepUp
  /\ sequence' = (sequence + 1) % SequenceRange
  /\ missed' = [c \in CPUs |-> IF pc[c] = "idle" THEN 0 ELSE missed[c] + 1]
  /\ UNCHANGED <<pc, snapshot>>

Next ==
  \/ condition_signal
  \/ \E c \in CPUs : condition_snapshot(c) \/ NoNeed(c) \/ condition_wait(c) \/ Woken(c)

Spec == Init /\ [][Next]_vars

(* A processor inside a wait keeps running.                                *)
FairSpec == Spec /\ \A c \in CPUs : WF_vars(Woken(c))
------------------------------------------------------------------------------
(* The sequence is an unsigned number, and labels are known.               *)
TypeOK ==
  /\ sequence \in 0 .. SequenceRange - 1
  /\ pc \in [CPUs -> {"idle", "checking", "waiting"}]
  /\ snapshot \in [CPUs -> 0 .. SequenceRange - 1]
  /\ missed \in [CPUs -> Nat]

(* A waiter that was signalled after its snapshot returns, whether or not  *)
(* it had begun to wait.                                                   *)
NoLostSignal == \A c \in CPUs : (pc[c] = "waiting" /\ missed[c] > 0) ~> pc[c] = "idle"

=============================================================================
