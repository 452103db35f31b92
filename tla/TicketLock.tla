----------------------------- MODULE TicketLock ------------------------------
(***************************************************************************)
(* The ticket lock (src/src/core/sync.c).  Each atomic operation is one    *)
(* step of the processor that makes it; on x86 every one of them is a      *)
(* locked instruction or an ordered load, so steps interleave.  Tickets    *)
(* are unsigned counters and wrap around.                                  *)
(***************************************************************************)
EXTENDS Integers, FiniteSets

CONSTANTS
  CPUs,
  TicketRange    \* tickets are counted modulo this: 2^32 in the code

(* At most one ticket per processor is out, so they all differ.            *)
TicketsSuffice ==
  IsFiniteSet(CPUs) /\ TicketRange \in Nat \ {0} /\ Cardinality(CPUs) <= TicketRange

VARIABLES
  next, serving, \* the lock
  pc,            \* "idle", "waiting" for its ticket, or "holding" the lock
  ticket,        \* the local variable of ticket_lock_acquire
  earlier        \* history: who asked before the processor and is not done yet

vars == <<next, serving, pc, ticket, earlier>>

(* ticket_lock_init, before any processor uses the lock.                   *)
Init ==
  /\ next = 0 /\ serving = 0
  /\ pc = [c \in CPUs |-> "idle"]
  /\ ticket = [c \in CPUs |-> 0]
  /\ earlier = [c \in CPUs |-> {}]

(* The history only records: who is in the lock's queue when c joins it,   *)
(* and that c has left it.                                                 *)
Queued == {c \in CPUs : pc[c] # "idle"}
Joins(c) == earlier' = [earlier EXCEPT ![c] = Queued]
Leaves(c) == earlier' = [d \in CPUs |-> earlier[d] \ {c}]

ticket_lock_acquire(c) ==
  /\ pc[c] = "idle"
  /\ ticket' = [ticket EXCEPT ![c] = next]
  /\ next' = (next + 1) % TicketRange
  /\ pc' = [pc EXCEPT ![c] = "waiting"]
  /\ Joins(c)
  /\ UNCHANGED serving

(* Mutation of Served: any ticket that has been reached or passed will do. *)
Served_passed(c) ==
  /\ pc[c] = "waiting"
  /\ ticket[c] <= serving
  /\ pc' = [pc EXCEPT ![c] = "holding"]
  /\ UNCHANGED <<next, serving, ticket, earlier>>

(* The load that ends the wait.                                            *)
Served(c) ==
  /\ pc[c] = "waiting"
  /\ serving = ticket[c]
  /\ pc' = [pc EXCEPT ![c] = "holding"]
  /\ UNCHANGED <<next, serving, ticket, earlier>>

(* Mutation of ticket_lock_release: the counter does not wrap.             *)
ticket_lock_release_no_wrap(c) ==
  /\ pc[c] = "holding"
  /\ serving' = serving + 1
  /\ pc' = [pc EXCEPT ![c] = "idle"]
  /\ Leaves(c)
  /\ UNCHANGED <<next, ticket>>

(* Mutation of ticket_lock_release: the releaser gives way to the newest.  *)
ticket_lock_release_to_last(c) ==
  /\ pc[c] = "holding"
  /\ serving' = (next - 1) % TicketRange
  /\ pc' = [pc EXCEPT ![c] = "idle"]
  /\ Leaves(c)
  /\ UNCHANGED <<next, ticket>>

ticket_lock_release(c) ==
  /\ pc[c] = "holding"
  /\ serving' = (serving + 1) % TicketRange
  /\ pc' = [pc EXCEPT ![c] = "idle"]
  /\ Leaves(c)
  /\ UNCHANGED <<next, ticket>>

Next == \E c \in CPUs : ticket_lock_acquire(c) \/ Served(c) \/ ticket_lock_release(c)

Spec == Init /\ [][Next]_vars

(* Processors run: one that can leave the wait does, one that holds the    *)
(* lock releases it.                                                       *)
FairSpec == Spec /\ \A c \in CPUs : WF_vars(Served(c)) /\ WF_vars(ticket_lock_release(c))
------------------------------------------------------------------------------
(* The variables are counters in range and known labels.                   *)
TypeOK ==
  /\ next \in 0 .. TicketRange - 1 /\ serving \in 0 .. TicketRange - 1
  /\ pc \in [CPUs -> {"idle", "waiting", "holding"}]
  /\ ticket \in [CPUs -> 0 .. TicketRange - 1]
  /\ earlier \in [CPUs -> SUBSET CPUs]

(* No two processors hold the lock, wrap-around included.                  *)
MutualExclusion ==
  \A c, d \in CPUs : pc[c] = "holding" /\ pc[d] = "holding" => c = d

(* Fair: a processor has the lock only when everybody who asked before it  *)
(* has had it and given it back.                                           *)
Fifo == \A c \in CPUs : pc[c] = "holding" => earlier[c] = {}

(* Whoever draws a ticket gets the lock.                                   *)
EveryoneServed == \A c \in CPUs : (pc[c] = "waiting" ~> pc[c] = "holding")

=============================================================================
