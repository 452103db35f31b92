------------------------------ MODULE MCThreads -------------------------------
(***************************************************************************)
(* The scheduler and the synchronization primitives for TLC, each on its   *)
(* own: a behaviour runs threads or uses one of the primitives, on the     *)
(* same processors, and the others stay as their initialisation left them. *)
(* task.c takes only spinlocks, around sections without a wait.            *)
(***************************************************************************)
EXTENDS RwLock

CONSTANTS
  TicketRange,
  Permits, MaxSignals,
  DoneMax, MaxCompletes, CompleteAfterAll,
  ConditionRange,
  Writers, Readers, Values, SequenceRange,
  TASK_MAX, Priorities, Stacks, NoStack, CounterRange, MaxPid, MaxTick, ShellMayStop

VARIABLES
  part,                                                        \* the one in use
  next, serving, ticket_pc, ticket, earlier,                   \* ticket lock
  count, semaphore_pc, blocking, permits_seen, signals, taken, \* semaphore
  done, completion_pc, done_seen, completes, all, released,    \* completion
  condition, condition_pc, snapshot, signals_missed,           \* condition
  sequence, seqlock_writer, first, second, seqlock_pc, sequence_seen, got,
  writes_missed,                                               \* sequence lock
  sched, next_pid, free, exited, now                           \* scheduler

Ticket == INSTANCE TicketLock WITH pc <- ticket_pc
Semaphores == INSTANCE Semaphore WITH pc <- semaphore_pc, seen <- permits_seen
Completions == INSTANCE Completion WITH pc <- completion_pc, seen <- done_seen
Conditions == INSTANCE Condition WITH
  sequence <- condition, pc <- condition_pc, missed <- signals_missed,
  SequenceRange <- ConditionRange
Seq == INSTANCE SeqLock WITH
  writer <- seqlock_writer, pc <- seqlock_pc, seen <- sequence_seen, missed <- writes_missed
Threads == INSTANCE Sched

ASSUME ThreadConstants ==
  /\ Ticket!TicketsSuffice
  /\ Semaphores!SemaphoreConstants
  /\ Completions!CompletionConstants
  /\ Conditions!RangeNotZero
  /\ Seq!SequenceEven
  /\ Threads!SchedConstants

ticket_vars == <<next, serving, ticket_pc, ticket, earlier>>
semaphore_vars == <<count, semaphore_pc, blocking, permits_seen, signals, taken>>
completion_vars == <<done, completion_pc, done_seen, completes, all, released>>
condition_vars == <<condition, condition_pc, snapshot, signals_missed>>
seqlock_vars ==
  <<sequence, seqlock_writer, first, second, seqlock_pc, sequence_seen, got, writes_missed>>
lock_vars ==
  <<vars, ticket_vars, semaphore_vars, completion_vars, condition_vars, seqlock_vars>>
sched_vars == <<sched, next_pid, free, exited, now>>
thread_vars == <<part, lock_vars, sched_vars>>
------------------------------------------------------------------------------
MCInit ==
  /\ part \in {"rwlock", "ticket", "semaphore", "completion", "condition", "seqlock", "threads"}
  /\ Init /\ Ticket!Init /\ Semaphores!Init /\ Completions!Init /\ Conditions!Init /\ Seq!Init
  /\ Threads!Init

LockNext ==
  \/ /\ part = "rwlock" /\ Next
     /\ UNCHANGED <<ticket_vars, semaphore_vars, completion_vars, condition_vars, seqlock_vars>>
  \/ /\ part = "ticket" /\ Ticket!Next
     /\ UNCHANGED <<vars, semaphore_vars, completion_vars, condition_vars, seqlock_vars>>
  \/ /\ part = "semaphore" /\ Semaphores!Next
     /\ UNCHANGED <<vars, ticket_vars, completion_vars, condition_vars, seqlock_vars>>
  \/ /\ part = "completion" /\ Completions!Next
     /\ UNCHANGED <<vars, ticket_vars, semaphore_vars, condition_vars, seqlock_vars>>
  \/ /\ part = "condition" /\ Conditions!Next
     /\ UNCHANGED <<vars, ticket_vars, semaphore_vars, completion_vars, seqlock_vars>>
  \/ /\ part = "seqlock" /\ Seq!Next
     /\ UNCHANGED <<vars, ticket_vars, semaphore_vars, completion_vars, condition_vars>>

MCNext ==
  /\ UNCHANGED part
  /\ \/ LockNext /\ UNCHANGED sched_vars
     \/ part = "threads" /\ Threads!Next /\ UNCHANGED lock_vars

(* The fairness of the modules: a processor inside a primitive keeps       *)
(* running, one that holds a lock gives it back, and a thread yields.  One *)
(* part is in use, so fairness to a disjunction is fairness to its step.   *)
in_use ==
  CASE part = "rwlock" -> vars
    [] part = "ticket" -> ticket_vars
    [] part = "semaphore" -> semaphore_vars
    [] part = "completion" -> completion_vars
    [] part = "condition" -> condition_vars
    [] part = "seqlock" -> seqlock_vars
    [] part = "threads" -> sched_vars

Proceed(c) ==
  /\ UNCHANGED part
  /\ \/ part = "rwlock" /\ Read(c)
     \/ part = "ticket" /\ Ticket!Served(c)
     \/ part = "semaphore" /\ (Semaphores!Load(c) \/ Semaphores!Exchange(c))
     \/ part = "completion" /\ (Completions!Load(c) \/ Completions!Exchange(c))
     \/ part = "condition" /\ Conditions!Woken(c)

GiveBack(c) ==
  /\ UNCHANGED part
  /\ \/ part = "rwlock" /\ Write(c)
     \/ part = "ticket" /\ Ticket!ticket_lock_release(c)

Yield == UNCHANGED part /\ part = "threads" /\ Threads!task_yield

MCSpec ==
  /\ MCInit /\ [][MCNext]_thread_vars
  /\ \A c \in CPUs : WF_in_use(Proceed(c)) /\ WF_in_use(GiveBack(c))
  /\ WF_in_use(Yield)
------------------------------------------------------------------------------
(* Every primitive's counters stay in range and its labels known.          *)
SyncTypeOK ==
  /\ TypeOK
  /\ Ticket!TypeOK
  /\ Semaphores!TypeOK
  /\ Completions!TypeOK
  /\ Conditions!TypeOK
  /\ Seq!TypeOK

(* No two processors hold the ticket lock, wrap-around included.           *)
TicketMutualExclusion == Ticket!MutualExclusion

(* A processor holds the ticket lock only when everybody who asked for it  *)
(* before has had it and given it back.                                    *)
TicketFifo == Ticket!Fifo

(* Nothing is lost and nothing is taken twice: what waits on a semaphore   *)
(* took and what is left add up to what was given; until everybody is let  *)
(* go a completion releases exactly one waiter, and after                  *)
(* completion_complete_all the counter stays at "all", whatever exchange   *)
(* was under way; and every counter stays in its range.                    *)
TokensConserved == SyncTypeOK /\ Semaphores!PermitsConserved /\ Completions!CompletionsCounted

(* Who waits is served: a writer enters once the readers have left, a      *)
(* drawn ticket comes up, a permit somebody waits for is taken, a waiter   *)
(* returns after completion_complete_all, and one signalled between its    *)
(* snapshot and its wait returns.                                          *)
WaitersServed ==
  /\ WriterProgress /\ Ticket!EveryoneServed /\ Semaphores!PermitsUsed
  /\ Completions!AllReleased /\ Conditions!NoLostSignal

(* A sequence-lock reader told not to retry has both words of one write.   *)
NoTornRead == Seq!NoTornRead

(* The scheduler's statistics count the tasks of each state.               *)
StatsExact == Threads!StatsExact

(* Only the current task runs, none after its end, and each on a stack of  *)
(* its own that was not freed.                                             *)
TasksSound == Threads!TasksSound

(* The processor goes to a task of the highest priority that could have    *)
(* had it.                                                                 *)
PriorityRespected == Threads!PriorityRespected

(* A thread that nothing outranks gets the processor, however often its    *)
(* equals yield.                                                           *)
NoStarvation == Threads!NoStarvation

=============================================================================
