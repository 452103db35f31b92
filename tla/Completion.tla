----------------------------- MODULE Completion ------------------------------
(***************************************************************************)
(* Completions (src/src/core/sync.c): completion_complete lets one waiter  *)
(* go, completion_complete_all lets all of them go, now and later.  Both   *)
(* live in one unsigned counter whose greatest value means "all".          *)
(***************************************************************************)
EXTENDS Integers

CONSTANTS
  CPUs,             \* the processors that wait
  DoneMax,          \* UINT32_MAX
  MaxCompletes,     \* bound: completion_complete is called this often
  CompleteAfterAll  \* it may be called after completion_complete_all

CompletionConstants ==
  /\ DoneMax \in Nat \ {0}
  /\ MaxCompletes \in Nat
  /\ CompleteAfterAll \in BOOLEAN

VARIABLES
  done,
  pc,           \* "idle", or where in completion_try_wait the processor is
  seen,         \* try_wait's local copy of done
  completes,    \* history: calls of completion_complete
  all,          \* history: completion_complete_all was called
  released      \* history: waits that returned before that

vars == <<done, pc, seen, completes, all, released>>

Goto(c, from, to) == pc[c] = from /\ pc' = [pc EXCEPT ![c] = to]

(* completion_init.                                                        *)
Init ==
  /\ done = 0
  /\ pc = [c \in CPUs |-> "idle"]
  /\ seen = [c \in CPUs |-> 0]
  /\ completes = 0 /\ all = FALSE /\ released = 0

completion_complete ==
  /\ completes < MaxCompletes
  /\ all => CompleteAfterAll
  /\ done' = (done + 1) % (DoneMax + 1)
  /\ completes' = completes + 1
  /\ UNCHANGED <<pc, seen, all, released>>

completion_complete_all ==
  /\ done' = DoneMax
  /\ all' = TRUE
  /\ UNCHANGED <<pc, seen, completes, released>>

completion_wait(c) == Goto(c, "idle", "load") /\ UNCHANGED <<done, seen, completes, all, released>>

(* The load of try_wait.  On zero completion_wait calls it again; on the   *)
(* greatest value it returns and leaves the counter alone.                 *)
Load(c) ==
  /\ seen' = [seen EXCEPT ![c] = done]
  /\ Goto(c, "load", CASE done = 0 -> "load" [] done = DoneMax -> "idle" [] OTHER -> "exchange")
  /\ UNCHANGED <<done, completes, all, released>>

(* Mutation of Exchange: the counter is stored without being compared.     *)
Exchange_plain_store(c) ==
  /\ Goto(c, "exchange", "idle")
  /\ done' = seen[c] - 1
  /\ released' = released + IF all THEN 0 ELSE 1
  /\ UNCHANGED <<seen, completes, all>>

Exchange(c) ==
  /\ \/ /\ done = seen[c]
        /\ Goto(c, "exchange", "idle")
        /\ done' = done - 1
        /\ released' = released + IF all THEN 0 ELSE 1
     \/ /\ done # seen[c]
        /\ Goto(c, "exchange", "load")
        /\ UNCHANGED <<done, released>>
  /\ UNCHANGED <<seen, completes, all>>

Next ==
  \/ completion_complete \/ completion_complete_all
  \/ \E c \in CPUs : completion_wait(c) \/ Load(c) \/ Exchange(c)

Spec == Init /\ [][Next]_vars

(* A processor inside a wait keeps running.                                *)
FairSpec == Spec /\ \A c \in CPUs : WF_vars(Load(c) \/ Exchange(c))
------------------------------------------------------------------------------
(* The counter is an unsigned number, and labels are known.                *)
TypeOK ==
  /\ done \in 0 .. DoneMax /\ completes \in 0 .. MaxCompletes
  /\ all \in BOOLEAN /\ released \in Nat
  /\ pc \in [CPUs -> {"idle", "load", "exchange"}]
  /\ seen \in [CPUs -> 0 .. DoneMax]

(* Until everybody is let go, a completion releases exactly one waiter:    *)
(* none is lost and none is used twice.  After completion_complete_all the *)
(* counter stays at "all", whatever exchange was under way.                *)
CompletionsCounted == IF all THEN done = DoneMax ELSE done + released = completes

(* After completion_complete_all every waiter returns.                     *)
AllReleased == \A c \in CPUs : (all /\ pc[c] # "idle") ~> pc[c] = "idle"

=============================================================================
