------------------------------- MODULE RwLock --------------------------------
(***************************************************************************)
(* The reader/writer lock (src/src/core/sync.c), one atomic operation a    *)
(* step.  The order of a locked add followed by a load is the program      *)
(* order on x86, which is what both sides of this lock rely on.            *)
(***************************************************************************)
EXTENDS Integers, FiniteSets

CONSTANT CPUs

ASSUME CPUsFinite == IsFiniteSet(CPUs)

VARIABLES
  readers, writer, \* the lock
  pc

vars == <<readers, writer, pc>>

Goto(c, from, to) == pc[c] = from /\ pc' = [pc EXCEPT ![c] = to]

(* rwlock_init.                                                            *)
Init == readers = 0 /\ writer = 0 /\ pc = [c \in CPUs |-> "idle"]

(* rwlock_read_lock: wait for no writer, announce the reader, look again   *)
(* and take the announcement back if a writer has come.                    *)
ReadCall(c) == Goto(c, "idle", "r_wait") /\ UNCHANGED <<readers, writer>>
ReadNoWriter(c) == Goto(c, "r_wait", "r_add") /\ writer = 0 /\ UNCHANGED <<readers, writer>>
ReadAnnounce(c) == Goto(c, "r_add", "r_check") /\ readers' = readers + 1 /\ UNCHANGED writer

(* Mutation of ReadConfirm: the writer is not looked at again.             *)
ReadConfirm_blind(c) == Goto(c, "r_check", "reading") /\ UNCHANGED <<readers, writer>>
ReadConfirm(c) == Goto(c, "r_check", "reading") /\ writer = 0 /\ UNCHANGED <<readers, writer>>

ReadBackOff(c) == Goto(c, "r_check", "r_undo") /\ writer # 0 /\ UNCHANGED <<readers, writer>>

(* Mutation of ReadUndo: the announcement stays.                           *)
ReadUndo_forgets(c) == Goto(c, "r_undo", "r_wait") /\ UNCHANGED <<readers, writer>>
ReadUndo(c) == Goto(c, "r_undo", "r_wait") /\ readers' = readers - 1 /\ UNCHANGED writer

rwlock_read_unlock(c) == Goto(c, "reading", "idle") /\ readers' = readers - 1 /\ UNCHANGED writer

(* rwlock_write_lock: claim the writer flag, then wait for the readers.    *)
WriteCall(c) == Goto(c, "idle", "w_claim") /\ UNCHANGED <<readers, writer>>
WriteClaim(c) == Goto(c, "w_claim", "w_drain") /\ writer = 0 /\ writer' = 1 /\ UNCHANGED readers
WriteDrained(c) == Goto(c, "w_drain", "writing") /\ readers = 0 /\ UNCHANGED <<readers, writer>>

rwlock_write_unlock(c) == Goto(c, "writing", "idle") /\ writer' = 0 /\ UNCHANGED readers

Read(c) ==
  \/ ReadNoWriter(c) \/ ReadAnnounce(c) \/ ReadConfirm(c) \/ ReadBackOff(c) \/ ReadUndo(c)
  \/ rwlock_read_unlock(c)
Write(c) == WriteClaim(c) \/ WriteDrained(c) \/ rwlock_write_unlock(c)

Next == \E c \in CPUs : ReadCall(c) \/ WriteCall(c) \/ Read(c) \/ Write(c)

Spec == Init /\ [][Next]_vars

(* Processors run, and sections end: a call under way takes its next step  *)
(* when it can.                                                            *)
FairSpec == Spec /\ \A c \in CPUs : WF_vars(Read(c)) /\ WF_vars(Write(c))
------------------------------------------------------------------------------
Announced == {c \in CPUs : pc[c] \in {"r_check", "r_undo", "reading"}}
Claimed == {c \in CPUs : pc[c] \in {"w_drain", "writing"}}

(* The lock words and labels keep their types.                             *)
TypeOK ==
  /\ readers \in Nat /\ writer \in {0, 1}
  /\ pc \in [CPUs -> {"idle", "r_wait", "r_add", "r_check", "r_undo", "reading",
                      "w_claim", "w_drain", "writing"}]

(* The reader count is the number of processors that have announced        *)
(* themselves and not taken it back: neither lost nor left behind when a   *)
(* reader backs off.                                                       *)
ReadersCounted == readers = Cardinality(Announced)

(* A writer excludes readers and other writers.                            *)
Exclusion ==
  \A c, d \in CPUs : pc[c] = "writing" /\ pc[d] \in {"reading", "writing"} => c = d

(* The writer flag belongs to exactly one processor while it is set.       *)
WriterOwned ==
  /\ writer = 0 => Claimed = {}
  /\ \A c, d \in Claimed : c = d

(* A writer that has claimed the lock gets it, however many readers come:  *)
(* they wait for the flag, and each backs off at most once.                *)
WriterProgress == \A c \in CPUs : (pc[c] = "w_drain" ~> pc[c] = "writing")

=============================================================================
