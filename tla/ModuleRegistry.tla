---------------------------- MODULE ModuleRegistry ----------------------------
(***************************************************************************)
(* The registry of kernel modules (src/src/core/module.c).  Every section  *)
(* under module_lock is one step.  module_load and module_unload release   *)
(* the lock while they call into modules and keep the position of their    *)
(* slot meanwhile; a removal shifts the slots behind it.  A caller is a    *)
(* stack of calls, since module_load loads the dependencies first.         *)
(***************************************************************************)
EXTENDS Integers, FiniteSets, Sequences, SequencesExt

CONSTANTS
  Names,            \* valid descriptors, by name
  Builtin,          \* the ones registered live by the kernel, in order
  Dependencies,     \* from a name to its sequence of dependencies
  MODULE_LIMIT,
  Callers,
  MaxUsers          \* bound on what modules acquire by themselves

VARIABLES
  modules,          \* the slots in use
  calls,            \* per caller, the stack of calls with the innermost first
  answer,           \* per caller, what the call that has just returned said
  users,            \* history: references modules hold by module_acquire
  raced             \* history: a slot went or moved under another caller

module_vars == <<modules, calls, answer, users, raced>>

Slot(name, state) == [name |-> name, state |-> state, references |-> 0]

(* find_slot: the position of the first slot of that name, 0 if none.      *)
find_slot(name) ==
  LET found == {i \in 1 .. Len(modules) : modules[i].name = name}
  IN  IF found = {} THEN 0 ELSE CHOOSE i \in found : \A j \in found : i <= j
StateOf(name) == IF find_slot(name) = 0 THEN "unloaded" ELSE modules[find_slot(name)].state
Registrable(name) == find_slot(name) = 0 /\ Len(modules) < MODULE_LIMIT

Call(op, name, position) == [op |-> op, name |-> name, position |-> position, index |-> 1]

Top(c) == calls[c][1]
Deps(c) == Dependencies[Top(c).name]
Idle(c) == calls[c] = <<>>
Return(c, result) ==
  /\ calls' = [calls EXCEPT ![c] = Tail(@)]
  /\ answer' = [answer EXCEPT ![c] = result /\ Len(calls[c]) > 1]
Become(c, op, index) ==
  calls' = [calls EXCEPT ![c][1].op = op, ![c][1].index = index]

(* The first section of module_load, called with rest on the stack.        *)
EnterLoad(c, name, rest) ==
  LET position == find_slot(name) IN
  IF StateOf(name) \in {"unloaded", "loading", "unloading", "live"}
  THEN /\ answer' = [answer EXCEPT ![c] = StateOf(name) = "live"]
       /\ calls' = [calls EXCEPT ![c] = rest]
       /\ UNCHANGED modules
  ELSE /\ modules' = [modules EXCEPT ![position].state = "loading"]
       /\ calls' = [calls EXCEPT ![c] = <<Call("load", name, position)>> \o rest]
       /\ UNCHANGED answer

module_register(c, name) ==
  /\ Idle(c) /\ Registrable(name)
  /\ modules' = Append(modules, Slot(name, "registered"))
  /\ UNCHANGED <<calls, answer, users, raced>>

module_load(c, name) == Idle(c) /\ EnterLoad(c, name, <<>>) /\ UNCHANGED <<users, raced>>

(* The end of module_elf_load: the descriptor is registered, then loaded.  *)
module_elf_load(c, name) ==
  /\ Idle(c) /\ Registrable(name)
  /\ modules' = Append(modules, Slot(name, "registered"))
  /\ calls' = [calls EXCEPT ![c] = <<Call("elf", name, 0)>>]
  /\ UNCHANGED <<answer, users, raced>>

ElfLoads(c) ==
  /\ ~Idle(c) /\ Top(c).op = "elf"
  /\ EnterLoad(c, Top(c).name, <<Call("elf_loaded", Top(c).name, 0)>>)
  /\ UNCHANGED <<users, raced>>

(* Mutation of LoadDependency: the dependency is loaded and not acquired.  *)
LoadDependency_unreferenced(c) ==
  /\ ~Idle(c) /\ Top(c).op = "load" /\ Top(c).index <= Len(Deps(c))
  /\ EnterLoad(c, Deps(c)[Top(c).index],
               <<[Top(c) EXCEPT !.index = @ + 1]>> \o Tail(calls[c]))
  /\ UNCHANGED <<users, raced>>

LoadDependency(c) ==
  /\ ~Idle(c) /\ Top(c).op = "load" /\ Top(c).index <= Len(Deps(c))
  /\ EnterLoad(c, Deps(c)[Top(c).index],
               <<[Top(c) EXCEPT !.op = "acquire"]>> \o Tail(calls[c]))
  /\ UNCHANGED <<users, raced>>

(* module_acquire of the dependency, if it was loaded.                     *)
AcquireDependency(c) ==
  /\ ~Idle(c) /\ Top(c).op = "acquire"
  /\ LET name == Deps(c)[Top(c).index] IN
     IF answer[c] /\ StateOf(name) = "live"
     THEN /\ modules' = [modules EXCEPT ![find_slot(name)].references = @ + 1]
          /\ Become(c, "load", Top(c).index + 1)
     ELSE Become(c, "undo", Top(c).index) /\ UNCHANGED modules
  /\ UNCHANGED <<answer, users, raced>>

(* descriptor->init(), which may refuse.                                   *)
CallInit(c, ok) ==
  /\ ~Idle(c) /\ Top(c).op = "load" /\ Top(c).index > Len(Deps(c))
  /\ Become(c, IF ok THEN "live" ELSE "undo", Top(c).index)
  /\ UNCHANGED <<modules, answer, users, raced>>

Released(name) ==
  IF find_slot(name) # 0 /\ modules[find_slot(name)].references # 0
  THEN [modules EXCEPT ![find_slot(name)].references = @ - 1] ELSE modules

(* Mutation of UndoDependency: the first dependency is kept.               *)
UndoDependency_keeps_first(c) ==
  /\ ~Idle(c) /\ Top(c).op = "undo"
  /\ IF Top(c).index > 2
     THEN /\ modules' = Released(Deps(c)[Top(c).index - 1])
          /\ Become(c, "undo", Top(c).index - 1)
     ELSE Become(c, "failed", 1) /\ UNCHANGED modules
  /\ UNCHANGED <<answer, users, raced>>

(* A failed load releases what it has acquired, the last one first.        *)
UndoDependency(c) ==
  /\ ~Idle(c) /\ Top(c).op = "undo"
  /\ IF Top(c).index > 1
     THEN /\ modules' = Released(Deps(c)[Top(c).index - 1])
          /\ Become(c, "undo", Top(c).index - 1)
     ELSE Become(c, "failed", 1) /\ UNCHANGED modules
  /\ UNCHANGED <<answer, users, raced>>

(* The last section of module_load writes to the slot it had found.        *)
FinishLoad(c) ==
  /\ ~Idle(c) /\ Top(c).op \in {"live", "failed"}
  /\ modules' = IF Top(c).position <= Len(modules)
                THEN [modules EXCEPT ![Top(c).position].state = Top(c).op] ELSE modules
  /\ Return(c, Top(c).op = "live")
  /\ UNCHANGED <<users, raced>>

(* The slot at a position goes; the ones behind it move up.                *)
RemoveSlot(c, position) ==
  /\ modules' = IF position <= Len(modules) THEN RemoveAt(modules, position)
                ELSE Front(modules)
  /\ raced' = (\/ raced \/ position > Len(modules)
                \/ modules[position].state \notin {"failed", "unloading"}
                \/ \E d \in Callers : \E i \in 1 .. Len(calls[d]) :
                 (d # c \/ i > 1) /\ calls[d][i].position >= position)

(* A module that module_elf_load could not load is removed by name.        *)
ElfLoaded(c) ==
  /\ ~Idle(c) /\ Top(c).op = "elf_loaded"
  /\ IF answer[c] \/ find_slot(Top(c).name) = 0 THEN UNCHANGED <<modules, raced>>
     ELSE RemoveSlot(c, find_slot(Top(c).name))
  /\ Return(c, answer[c])
  /\ UNCHANGED users

(* Mutation of Unloadable: the references are not looked at.               *)
Unloadable_referenced(name) ==
  StateOf(name) = "live" /\ name \notin {Builtin[i] : i \in 1 .. Len(Builtin)}

Unloadable(name) ==
  /\ StateOf(name) = "live" /\ modules[find_slot(name)].references = 0
  /\ name \notin {Builtin[i] : i \in 1 .. Len(Builtin)}

(* The first section of module_unload, then descriptor->exit().            *)
module_unload(c, name) ==
  /\ Idle(c) /\ Unloadable(name)
  /\ modules' = [modules EXCEPT ![find_slot(name)].state = "unloading"]
  /\ calls' = [calls EXCEPT ![c] = <<Call("unload", name, find_slot(name))>>]
  /\ UNCHANGED <<answer, users, raced>>

UnloadRelease(c) ==
  /\ ~Idle(c) /\ Top(c).op = "unload" /\ Top(c).index <= Len(Deps(c))
  /\ modules' = Released(Deps(c)[Top(c).index])
  /\ Become(c, "unload", Top(c).index + 1)
  /\ UNCHANGED <<answer, users, raced>>

FinishUnload(c) ==
  /\ ~Idle(c) /\ Top(c).op = "unload" /\ Top(c).index > Len(Deps(c))
  /\ RemoveSlot(c, Top(c).position)
  /\ Return(c, TRUE)
  /\ UNCHANGED users

(* The two calls the kernel exports to modules, made at any time.          *)
module_acquire(name) ==
  /\ StateOf(name) = "live" /\ users[name] < MaxUsers
  /\ modules' = [modules EXCEPT ![find_slot(name)].references = @ + 1]
  /\ users' = [users EXCEPT ![name] = @ + 1]
  /\ UNCHANGED <<calls, answer, raced>>

module_release(name) ==
  /\ users[name] > 0
  /\ modules' = Released(name)
  /\ users' = [users EXCEPT ![name] = @ - 1]
  /\ UNCHANGED <<calls, answer, raced>>

(* module_init, and the built-in modules registered live.                  *)
module_init ==
  /\ modules = [i \in 1 .. Len(Builtin) |-> Slot(Builtin[i], "live")]
  /\ calls = [c \in Callers |-> <<>>] /\ answer = [c \in Callers |-> FALSE]
  /\ users = [n \in Names |-> 0] /\ raced = FALSE

(* The model ends where a call works on the slot of another module.        *)
ModuleNext ==
  /\ ~raced
  /\ \/ \E c \in Callers :
          \/ \E n \in Names : \/ module_register(c, n) \/ module_load(c, n)
                              \/ module_elf_load(c, n) \/ module_unload(c, n)
          \/ ElfLoads(c) \/ LoadDependency(c) \/ AcquireDependency(c)
          \/ \E ok \in BOOLEAN : CallInit(c, ok)
          \/ UndoDependency(c) \/ FinishLoad(c) \/ ElfLoaded(c)
          \/ UnloadRelease(c) \/ FinishUnload(c)
     \/ \E n \in Names : module_acquire(n) \/ module_release(n)
------------------------------------------------------------------------------
(* How many of the first i - 1 dependencies of a module are called name.   *)
Counted(deps, i, name) == Cardinality({j \in 1 .. i - 1 : deps[j] = name})

Sum(S, Value(_)) == FoldSet(LAMBDA x, total : Value(x) + total, 0, S)
CallFrames == UNION {{<<c, i>> : i \in 1 .. Len(calls[c])} : c \in Callers}
HeldByCall(frame, name) ==
  LET call == calls[frame[1]][frame[2]]
      deps == Dependencies[call.name]
  IN  CASE call.op \in {"load", "acquire", "undo"} -> Counted(deps, call.index, name)
        [] call.op = "live" -> Counted(deps, Len(deps) + 1, name)
        [] call.op = "unload" -> Counted(deps, Len(deps) + 1, name) - Counted(deps, call.index, name)
        [] OTHER -> 0
HeldByModule(i, name) ==
  IF modules[i].state = "live"
  THEN Counted(Dependencies[modules[i].name], Len(Dependencies[modules[i].name]) + 1, name)
  ELSE 0

(* Until a slot goes or moves under another caller, a module's              *)
(* reference count is exactly the live modules that depend on it, what     *)
(* loads and unloads under way hold of it, and what modules acquired; a    *)
(* load that fails or meets itself in a cycle leaves no reference behind.  *)
ReferencesExact ==
  raced \/ \A i \in 1 .. Len(modules) : LET name == modules[i].name IN
    modules[i].references =
      users[name] + Sum(1 .. Len(modules), LAMBDA j : HeldByModule(j, name))
                  + Sum(CallFrames, LAMBDA f : HeldByCall(f, name))

(* Until then a live module's dependencies are live: none is unloaded      *)
(* under it, whoever loads and unloads what at the same time.              *)
DependenciesLive ==
  raced \/ \A i \in 1 .. Len(modules) : modules[i].state = "live" =>
    \A j \in 1 .. Len(Dependencies[modules[i].name]) :
      StateOf(Dependencies[modules[i].name][j]) = "live"

=============================================================================
