------------------------------ MODULE Semaphore ------------------------------
(***************************************************************************)
(* The counting semaphore (src/src/core/sync.c).  semaphore_try_wait loads *)
(* the count, then takes one permit with a compare-exchange that fails     *)
(* when the count has moved; semaphore_wait repeats it until it succeeds.  *)
(***************************************************************************)
EXTENDS Integers

CONSTANTS
  CPUs,
  Permits,      \* the count given to semaphore_init
  MaxSignals    \* bound: semaphore_signal is called this often

SemaphoreConstants == Permits \in Nat /\ MaxSignals \in Nat

VARIABLES
  count,
  pc,           \* "idle", or where in try_wait the processor is
  blocking,     \* the processor called semaphore_wait, not semaphore_try_wait
  seen,         \* try_wait's local copy of the count
  signals,      \* history: calls of semaphore_signal
  taken         \* history: waits that returned with a permit

vars == <<count, pc, blocking, seen, signals, taken>>

Goto(c, from, to) == pc[c] = from /\ pc' = [pc EXCEPT ![c] = to]

(* semaphore_init.                                                         *)
Init ==
  /\ count = Permits
  /\ pc = [c \in CPUs |-> "idle"]
  /\ blocking = [c \in CPUs |-> FALSE]
  /\ seen = [c \in CPUs |-> 0]
  /\ signals = 0 /\ taken = 0

Call(c, blocks) ==
  /\ Goto(c, "idle", "load")
  /\ blocking' = [blocking EXCEPT ![c] = blocks]
  /\ UNCHANGED <<count, seen, signals, taken>>

semaphore_wait(c) == Call(c, TRUE)
semaphore_try_wait(c) == Call(c, FALSE)

(* The load of try_wait: a count of zero ends it, and semaphore_wait calls *)
(* it again.                                                               *)
Load(c) ==
  /\ seen' = [seen EXCEPT ![c] = count]
  /\ Goto(c, "load", IF count # 0 THEN "exchange" ELSE IF blocking[c] THEN "load" ELSE "idle")
  /\ UNCHANGED <<count, blocking, signals, taken>>

(* Mutation of Exchange: the count is stored without being compared.       *)
Exchange_plain_store(c) ==
  /\ Goto(c, "exchange", "idle")
  /\ count' = seen[c] - 1 /\ taken' = taken + 1
  /\ UNCHANGED <<blocking, seen, signals>>

(* Mutation of Exchange: a lost race ends the wait.                         *)
Exchange_gives_up(c) ==
  /\ Goto(c, "exchange", "idle")
  /\ IF count = seen[c] THEN count' = count - 1 /\ taken' = taken + 1
     ELSE UNCHANGED <<count, taken>>
  /\ UNCHANGED <<blocking, seen, signals>>

Exchange(c) ==
  /\ \/ /\ count = seen[c]
        /\ Goto(c, "exchange", "idle")
        /\ count' = count - 1 /\ taken' = taken + 1
     \/ /\ count # seen[c]
        /\ Goto(c, "exchange", "load")
        /\ UNCHANGED <<count, taken>>
  /\ UNCHANGED <<blocking, seen, signals>>

semaphore_signal(c) ==
  /\ pc[c] = "idle" /\ signals < MaxSignals
  /\ count' = count + 1 /\ signals' = signals + 1
  /\ UNCHANGED <<pc, blocking, seen, taken>>

Next ==
  \E c \in CPUs : \/ semaphore_wait(c) \/ semaphore_try_wait(c) \/ Load(c) \/ Exchange(c)
                  \/ semaphore_signal(c)

Spec == Init /\ [][Next]_vars

(* A processor inside a wait keeps running.                                *)
FairSpec == Spec /\ \A c \in CPUs : WF_vars(Load(c) \/ Exchange(c))
------------------------------------------------------------------------------
(* The count never goes below zero, and labels are known.                  *)
TypeOK ==
  /\ count \in Nat /\ signals \in 0 .. MaxSignals /\ taken \in Nat
  /\ pc \in [CPUs -> {"idle", "load", "exchange"}]
  /\ blocking \in [CPUs -> BOOLEAN]
  /\ seen \in [CPUs -> Nat]

(* Every permit is taken at most once and none is lost: what waits took    *)
(* and what is left add up to what was given.                              *)
PermitsConserved == count + taken = Permits + signals

(* A permit somebody is waiting for is taken by somebody: one processor's  *)
(* failed compare-exchange is another's success.                           *)
Waiting(c) == blocking[c] /\ pc[c] # "idle"
PermitsUsed == \A n \in 0 .. Permits + MaxSignals :
  (taken = n /\ count > 0 /\ \E c \in CPUs : Waiting(c)) ~> taken > n

=============================================================================
