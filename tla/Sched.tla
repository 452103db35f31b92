-------------------------------- MODULE Sched --------------------------------
(***************************************************************************)
(* The cooperative scheduler (src/src/task/task.c) on the processor that   *)
(* owns it.  The other processors have no current task, so task_yield      *)
(* returns at once on them; here the running task is the only actor, and a *)
(* call runs to its end, or to the context switch it contains, in one step.*)
(*                                                                         *)
(* Abstractions.  An affinity mask is whether it contains the scheduler's  *)
(* processor.  The counters that nothing reads (context_switches, yields,  *)
(* runtime_ticks) and the names are left out.  A call whose checks fail    *)
(* returns -1 and changes nothing.                                         *)
(***************************************************************************)
EXTENDS Integers, FiniteSets

CONSTANTS
  TASK_MAX,
  Priorities,       \* the priorities callers use
  Stacks,           \* what pmm_alloc_pages can still give out for stacks
  NoStack,
  CounterRange,     \* the statistics are unsigned counters modulo this
  MaxPid,           \* bound: no task is created with a greater pid
  MaxTick,          \* bound: the clock stops here
  ShellMayStop      \* task 0 may sleep, be blocked or lose its processor

Tasks == 0 .. TASK_MAX - 1
Counted == {"RUNNING", "READY", "SLEEPING", "BLOCKED", "ZOMBIE"}

SchedConstants ==
  /\ TASK_MAX \in Nat \ {0} /\ CounterRange \in Nat \ {0}
  /\ MaxPid \in Nat /\ MaxTick \in Nat
  /\ Priorities \subseteq Nat
  /\ NoStack \notin Stacks
  /\ ShellMayStop \in BOOLEAN

VARIABLES
  sched,      \* tasks, current_task, round_robin_cursor, scheduler_stats
  next_pid,
  free,       \* external: the stacks the page allocator holds
  exited,     \* the tasks whose entry function has returned
  now         \* external: the tick count the timer reports

vars == <<sched, next_pid, free, exited, now>>

Unused == [state |-> "UNUSED", pid |-> 0, priority |-> 0, affine |-> FALSE,
           wake_tick |-> 0, stack |-> NoStack]

Used(s) == {i \in Tasks : s.tasks[i].state # "UNUSED"}
index_by_pid(s, pid) == {i \in Used(s) : s.tasks[i].pid = pid}
Me == sched.current
------------------------------------------------------------------------------
(* Scheduler state as a value: each operator is what a critical section    *)
(* does to it.                                                             *)

(* One task less in the count of from, one more in the count of to.        *)
Recount(s, from, to) ==
  [s EXCEPT !.stats[from] = (@ - 1) % CounterRange, !.stats[to] = (@ + 1) % CounterRange]
SetState(s, i, state) == [s EXCEPT !.tasks[i].state = state]
Move(s, i, from, to) == Recount(SetState(s, i, to), from, to)

Eligible(s, i) == s.tasks[i].state = "READY" /\ s.tasks[i].affine

(* Mutation of choose_next: the first eligible task after the cursor.      *)
choose_next_first(s, previous) ==
  LET ahead == {k \in 1 .. TASK_MAX : Eligible(s, (s.cursor + k) % TASK_MAX)}
  IN  IF ahead = {} THEN previous
      ELSE (s.cursor + (CHOOSE k \in ahead : \A j \in ahead : k <= j)) % TASK_MAX

choose_next(s, previous) ==
  LET Index(k) == (s.cursor + k) % TASK_MAX
      scan[k \in 0 .. TASK_MAX] ==
        IF k = 0 THEN [selected |-> previous, best |-> 0]
        ELSE LET i == Index(k)
                 so_far == scan[k - 1]
             IN  IF /\ Eligible(s, i)
                    /\ so_far.selected = previous \/ s.tasks[i].priority > so_far.best
                 THEN [selected |-> i, best |-> s.tasks[i].priority]
                 ELSE so_far
  IN  scan[TASK_MAX].selected

(* Mutation of SwitchTo: the cursor is never moved.                        *)
SwitchTo_no_cursor(s, next) == [Move(s, next, "READY", "RUNNING") EXCEPT !.current = next]

SwitchTo(s, next) ==
  [Move(s, next, "READY", "RUNNING") EXCEPT !.current = next, !.cursor = next]

Readied(s) ==
  IF s.tasks[s.current].state = "RUNNING" THEN Move(s, s.current, "RUNNING", "READY") ELSE s

(* Mutation of Yield: a task that finds no other is left as it is.         *)
Yield_keeps_ready(s) ==
  \E r \in {Readied(s)} : \E n \in {choose_next(r, r.current)} :
    sched' = IF n = r.current THEN r ELSE SwitchTo(r, n)

(* The critical section of task_yield, entered in scheduler state s.  The  *)
(* task that finds no other continues as RUNNING, whatever state it gave   *)
(* itself before.                                                          *)
Yield(s) ==
  \E r \in {Readied(s)} : \E n \in {choose_next(r, r.current)} :
    sched' = IF n = r.current THEN Move(r, n, "READY", "RUNNING") ELSE SwitchTo(r, n)
------------------------------------------------------------------------------
(* The calls of the running task.                                          *)

MayStop(i) == i # 0 \/ ShellMayStop

task_create_kernel(priority, affine) ==
  /\ Me \notin exited
  /\ next_pid <= MaxPid
  /\ \E stack \in free, i \in Tasks \ (Used(sched) \cup {0}) :
       /\ \A j \in Tasks \ (Used(sched) \cup {0}) : i <= j
       /\ sched' = [sched EXCEPT
            !.tasks[i] = [state |-> "READY", pid |-> next_pid, priority |-> priority,
                          affine |-> affine, wake_tick |-> 0, stack |-> stack],
            !.stats["READY"] = (@ + 1) % CounterRange]
       /\ free' = free \ {stack}
  /\ next_pid' = next_pid + 1
  /\ UNCHANGED <<exited, now>>

(* A running task yields; one whose entry has returned does nothing else.  *)
task_yield ==
  /\ Yield(sched)
  /\ UNCHANGED <<next_pid, free, exited, now>>

(* Mutation of task_sleep_until: one tick too many.                        *)
task_sleep_until_late(tick) ==
  /\ Me \notin exited /\ MayStop(Me)
  /\ Yield([Move(sched, Me, "RUNNING", "SLEEPING") EXCEPT !.tasks[Me].wake_tick = tick + 1])
  /\ UNCHANGED <<next_pid, free, exited, now>>

task_sleep_until(tick) ==
  /\ Me \notin exited /\ MayStop(Me)
  /\ Yield([Move(sched, Me, "RUNNING", "SLEEPING") EXCEPT !.tasks[Me].wake_tick = tick])
  /\ UNCHANGED <<next_pid, free, exited, now>>

(* task_bootstrap after the entry function returned.                       *)
task_bootstrap ==
  /\ Me \notin exited /\ Me # 0
  /\ Yield(Move(sched, Me, "RUNNING", "ZOMBIE"))
  /\ exited' = exited \cup {Me}
  /\ UNCHANGED <<next_pid, free, now>>

task_wake(pid) ==
  /\ Me \notin exited
  /\ \E i \in index_by_pid(sched, pid) :
       /\ sched.tasks[i].state \in {"SLEEPING", "BLOCKED"}
       /\ sched' = Move(sched, i, sched.tasks[i].state, "READY")
  /\ UNCHANGED <<next_pid, free, exited, now>>

(* Mutation of task_block: a sleeping task may be blocked too.             *)
task_block_any(pid) ==
  /\ Me \notin exited
  /\ \E i \in index_by_pid(sched, pid) :
       /\ sched.tasks[i].state # "ZOMBIE" /\ MayStop(i)
       /\ sched' = Move(sched, i, "READY", "BLOCKED")
  /\ UNCHANGED <<next_pid, free, exited, now>>

task_block(pid) ==
  /\ Me \notin exited
  /\ \E i \in index_by_pid(sched, pid) :
       /\ sched.tasks[i].state = "READY" /\ MayStop(i)
       /\ sched' = Move(sched, i, "READY", "BLOCKED")
  /\ UNCHANGED <<next_pid, free, exited, now>>

task_set_affinity(pid, affine) ==
  /\ Me \notin exited
  /\ \E i \in index_by_pid(sched, pid) :
       /\ affine \/ MayStop(i)
       /\ sched' = [sched EXCEPT !.tasks[i].affine = affine]
  /\ UNCHANGED <<next_pid, free, exited, now>>

(* Mutation of task_reap: the state of the task is not looked at.          *)
task_reap_any(pid) ==
  /\ Me \notin exited
  /\ \E i \in index_by_pid(sched, pid) :
       /\ i # 0
       /\ sched' = [sched EXCEPT !.tasks[i] = Unused,
                                 !.stats["ZOMBIE"] = (@ - 1) % CounterRange]
       /\ free' = free \cup {sched.tasks[i].stack}
       /\ exited' = exited \ {i}
  /\ UNCHANGED <<next_pid, now>>

task_reap(pid) ==
  /\ Me \notin exited
  /\ \E i \in index_by_pid(sched, pid) :
       /\ sched.tasks[i].state = "ZOMBIE"
       /\ sched' = [sched EXCEPT !.tasks[i] = Unused,
                                 !.stats["ZOMBIE"] = (@ - 1) % CounterRange]
       /\ free' = free \cup {sched.tasks[i].stack}
       /\ exited' = exited \ {i}
  /\ UNCHANGED <<next_pid, now>>

(* The tick handler, for a caller that runs it once a tick.                *)
Due(s, tick) == {i \in Tasks : s.tasks[i].state = "SLEEPING" /\ s.tasks[i].wake_tick <= tick}

task_scheduler_tick ==
  /\ now < MaxTick
  /\ now' = now + 1
  /\ LET due == Due(sched, now') IN
     sched' = [sched EXCEPT
       !.tasks = [i \in Tasks |-> [@[i] EXCEPT !.state = IF i \in due THEN "READY" ELSE @]],
       !.stats = [@ EXCEPT !["SLEEPING"] = (@ - Cardinality(due)) % CounterRange,
                           !["READY"] = (@ + Cardinality(due)) % CounterRange]]
  /\ UNCHANGED <<next_pid, free, exited>>
------------------------------------------------------------------------------
(* task_init: the shell, pid 1, runs as task 0 on the boot stack.          *)
task_init ==
  [tasks |-> [i \in Tasks |-> IF i = 0 THEN [Unused EXCEPT !.state = "RUNNING", !.pid = 1,
                                                           !.priority = 10, !.affine = TRUE]
                              ELSE Unused],
   current |-> 0, cursor |-> 0,
   stats |-> [c \in Counted |-> IF c = "RUNNING" THEN 1 ELSE 0]]

Init ==
  /\ sched = task_init
  /\ next_pid = 2
  /\ free = Stacks
  /\ exited = {}
  /\ now = 0

Next ==
  \/ \E priority \in Priorities, affine \in BOOLEAN : task_create_kernel(priority, affine)
  \/ task_yield
  \/ \E tick \in 0 .. MaxTick : task_sleep_until(tick)
  \/ task_bootstrap
  \/ \E pid \in 1 .. MaxPid :
       \/ task_wake(pid)
       \/ task_block(pid)
       \/ \E affine \in BOOLEAN : task_set_affinity(pid, affine)
       \/ task_reap(pid)
  \/ task_scheduler_tick

Spec == Init /\ [][Next]_vars

(* A kernel thread is written to give the processor back: whichever task   *)
(* runs, sooner or later it yields.                                        *)
FairSpec == Spec /\ WF_vars(task_yield)
------------------------------------------------------------------------------
TaskRecords ==
  [state : Counted \cup {"UNUSED", "STOPPED"}, pid : 0 .. MaxPid, priority : Nat,
   affine : BOOLEAN, wake_tick : 0 .. MaxTick, stack : Stacks \cup {NoStack}]

(* Every variable keeps the type task.h gives it.                          *)
TypeOK ==
  /\ sched.tasks \in [Tasks -> TaskRecords]
  /\ sched.current \in Tasks /\ sched.cursor \in Tasks
  /\ sched.stats \in [Counted -> 0 .. CounterRange - 1]
  /\ next_pid \in Nat /\ free \subseteq Stacks /\ exited \subseteq Tasks /\ now \in 0 .. MaxTick

InState(c) == {i \in Tasks : sched.tasks[i].state = c}

(* The statistics count the tasks: every queue counter equals the number   *)
(* of tasks in that state, through sleeps, wakes, exits and reaps.         *)
StatsExact == \A c \in Counted : sched.stats[c] = Cardinality(InState(c))

(* Exactly the current task is RUNNING, and a task whose entry returned is *)
(* a zombie until it is reaped: it never gets the processor back.          *)
OnlyCurrentRuns == InState("RUNNING") = {sched.current} /\ exited = InState("ZOMBIE")

(* Every thread has a stack of its own that the page allocator does not    *)
(* hold: the processor never runs on a stack that was freed.               *)
StacksOwned ==
  \A i \in Used(sched) \ {0} :
    /\ sched.tasks[i].stack \in Stacks \ free
    /\ \A j \in Used(sched) \ {0, i} : sched.tasks[j].stack # sched.tasks[i].stack

(* The task table is sound: types, who runs, and whose the stacks are.     *)
TasksSound == TypeOK /\ OnlyCurrentRuns /\ StacksOwned

(* The processor goes to a task of the highest priority that could have    *)
(* had it.                                                                 *)
PriorityRespected ==
  [][sched'.current # sched.current =>
       \A i \in Tasks : Eligible(sched', i) =>
         sched'.tasks[i].priority <= sched'.tasks[sched'.current].priority]_vars

(* A task that is ready, allowed on this processor and outranked by none.  *)
Foremost(i) ==
  /\ Eligible(sched, i)
  /\ \A j \in Used(sched) : sched.tasks[j].priority <= sched.tasks[i].priority

(* Round robin: a thread that nothing outranks gets the processor, however *)
(* often its equals yield.                                                 *)
NoStarvation == \A i \in Tasks : Foremost(i) ~> ~Foremost(i)

=============================================================================
