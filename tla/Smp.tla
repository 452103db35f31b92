--------------------------------- MODULE Smp ---------------------------------
(***************************************************************************)
(* Processor startup and inter-processor interrupts (src/src/arch/smp.c,   *)
(* with the startup trampoline and the IPI half of apic.c).                *)
(*                                                                         *)
(* The bootstrap processor (BSP) runs smp_init and makes every later call; *)
(* an application processor (AP) starts through the trampoline, announces  *)
(* itself and then only answers interrupts, so tlb_lock is never contended *)
(* and is left out.  Slot k is the record cpus[k] and the stack allocated  *)
(* for it.  A wait of the BSP ends when its condition holds or when its    *)
(* iteration bound is reached.                                             *)
(***************************************************************************)
EXTENDS Integers, FiniteSets

CONSTANTS
  Firmware,         \* the processors the firmware lists, 1 .. n
  APs,              \* the ones that are there
  SMP_MAX_CPUS,
  CounterRange,     \* counters are unsigned, modulo this: 2^32 in the code
  MaxRequests,      \* bound: smp_tlb_shootdown is called this often
  SlowProcessors    \* a bounded wait may end while its answer is on the way

ASSUME SmpConstants ==
  /\ Firmware \subseteq Nat \ {0} /\ IsFiniteSet(Firmware) /\ APs \subseteq Firmware
  /\ SMP_MAX_CPUS \in Nat \ {0} /\ MaxRequests \in Nat
  /\ CounterRange \in Nat /\ CounterRange > SMP_MAX_CPUS
  /\ SlowProcessors \in BOOLEAN

Slots == 1 .. SMP_MAX_CPUS - 1
NoSlot == 0
IPIs == {"RESCHEDULE", "TLB_SHOOTDOWN", "STOP"}

VARIABLES
  bsp,              \* where the BSP is, and its locals
  discovered_cpus, online_cpus,
  cpus,             \* slot -> apic_id, online, reschedule_pending
  trampoline,       \* the slot whose stack and record an AP will take
  ap,               \* AP -> where it is, the slots of its stack and record, and
                    \* whether it is inside smp_tlb_ipi
  pending,          \* AP -> the interrupts latched in its local APIC
  tlb,              \* tlb_address, as the number of the call, tlb_acknowledged
  flushed,          \* AP -> history: the last call whose range it invalidated
  targets,          \* history: the APs online when the last call began
  settled           \* history: then every AP that is up was counted and owed no answer

vars == <<bsp, discovered_cpus, online_cpus, cpus, trampoline, ap, pending, tlb,
          flushed, targets, settled>>
records == <<discovered_cpus, online_cpus, cpus>>
flush == <<tlb, flushed, targets, settled>>

Unstarted == [pc |-> "off", stack |-> NoSlot, record |-> NoSlot, flushing |-> FALSE]
Unfilled == [apic_id |-> 0, online |-> FALSE, reschedule_pending |-> FALSE]

(* smp_init up to its loop.                                                *)
Init ==
  /\ bsp = [pc |-> "next", index |-> 1, expected |-> 0, booting |-> TRUE, result |-> "none"]
  /\ discovered_cpus = 1 /\ online_cpus = 1
  /\ cpus = [k \in Slots |-> Unfilled]
  /\ trampoline = NoSlot
  /\ ap = [a \in APs |-> Unstarted]
  /\ pending = [a \in APs |-> {}]
  /\ tlb = [request |-> 0, acknowledged |-> 0]
  /\ flushed = [a \in APs |-> 0]
  /\ targets = {} /\ settled = TRUE

At(label) == bsp.pc = label
Goto(label) == bsp' = [bsp EXCEPT !.pc = label]
------------------------------------------------------------------------------
(* The bootstrap processor in smp_init.                                    *)

(* Mutation of Full: one slot too many.                                    *)
Full_late == discovered_cpus > SMP_MAX_CPUS

Full == discovered_cpus >= SMP_MAX_CPUS
Listed == bsp.index \in Firmware

(* No stack can be allocated: the processor is left out.                   *)
SkipProcessor ==
  /\ At("next") /\ Listed /\ ~Full
  /\ bsp' = [bsp EXCEPT !.index = @ + 1]
  /\ UNCHANGED <<records, trampoline, ap, pending, flush>>

PrepareProcessor ==
  /\ At("next") /\ Listed /\ ~Full
  /\ cpus' = [cpus EXCEPT ![discovered_cpus] = [Unfilled EXCEPT !.apic_id = bsp.index]]
  /\ trampoline' = discovered_cpus
  /\ discovered_cpus' = discovered_cpus + 1
  /\ Goto("start")
  /\ UNCHANGED <<online_cpus, ap, pending, flush>>

(* The startup interrupts reach the processor, or it is not there.         *)
Woken(a) == a \in APs /\ ap' = [ap EXCEPT ![a].pc = "stack"]

apic_start_application_processor ==
  /\ At("start")
  /\ \/ Goto("wait") /\ (Woken(bsp.index) \/ UNCHANGED ap)
     \/ /\ bsp' = [bsp EXCEPT !.pc = "next", !.index = @ + 1]
        /\ (SlowProcessors /\ Woken(bsp.index)) \/ UNCHANGED ap
  /\ UNCHANGED <<records, trampoline, pending, flush>>

Answering(a) == a \in APs /\ ap[a].pc \in {"stack", "record", "entry", "enabled"}

(* Mutation of AwaitProcessor: the BSP does not wait.                      *)
AwaitProcessor_not ==
  /\ At("wait")
  /\ bsp' = [bsp EXCEPT !.pc = "next", !.index = @ + 1]
  /\ UNCHANGED <<records, trampoline, ap, pending, flush>>

(* Mutation of AwaitProcessor: there is no bound on the wait.              *)
AwaitProcessor_forever ==
  /\ At("wait")
  /\ cpus[discovered_cpus - 1].online
  /\ bsp' = [bsp EXCEPT !.pc = "next", !.index = @ + 1]
  /\ UNCHANGED <<records, trampoline, ap, pending, flush>>

AwaitProcessor ==
  /\ At("wait")
  /\ \/ cpus[discovered_cpus - 1].online
     \/ SlowProcessors \/ ~Answering(bsp.index)
  /\ bsp' = [bsp EXCEPT !.pc = "next", !.index = @ + 1]
  /\ UNCHANGED <<records, trampoline, ap, pending, flush>>

BeginSelfTest ==
  /\ At("next") /\ (~Listed \/ Full)
  /\ bsp' = [bsp EXCEPT !.pc = "test", !.index = 1]
  /\ UNCHANGED <<records, trampoline, ap, pending, flush>>

(* smp_init is over and the kernel goes on, with its result.               *)
Finish(result) == bsp' = [bsp EXCEPT !.pc = "up", !.booting = FALSE, !.result = result]
------------------------------------------------------------------------------
(* smp_request_reschedule and the self-test that uses it.                  *)

(* The processors an IPI sent to the record k reaches: the ones whose      *)
(* local APIC has that id and is enabled.                                  *)
Listening == {a \in APs : ap[a].pc \in {"enabled", "flagged", "idle"}}
Latch(S, ipi) == pending' = [a \in APs |-> IF a \in S THEN pending[a] \cup {ipi} ELSE pending[a]]
Send(k, ipi) == Latch(Listening \cap {cpus[k].apic_id}, ipi)

(* The interrupt controller may refuse.                                    *)
TestProcessor ==
  /\ At("test") /\ bsp.index < discovered_cpus
  /\ IF cpus[bsp.index].online
     THEN \/ Send(bsp.index, "RESCHEDULE") /\ Goto("test_wait")
          \/ Finish("failed") /\ UNCHANGED pending
     ELSE Finish("failed") /\ UNCHANGED pending
  /\ cpus' = [cpus EXCEPT ![bsp.index].reschedule_pending = FALSE]
  /\ UNCHANGED <<discovered_cpus, online_cpus, trampoline, ap, flush>>

AwaitReschedule ==
  /\ At("test_wait")
  /\ IF cpus[bsp.index].reschedule_pending
     THEN /\ cpus' = [cpus EXCEPT ![bsp.index].reschedule_pending = FALSE]
          /\ bsp' = [bsp EXCEPT !.pc = "test", !.index = @ + 1]
     ELSE /\ SlowProcessors
          /\ Finish("failed") /\ UNCHANGED cpus
  /\ UNCHANGED <<discovered_cpus, online_cpus, trampoline, ap, pending, flush>>

smp_request_reschedule(k) ==
  /\ At("up") /\ k < discovered_cpus /\ cpus[k].online
  /\ Send(k, "RESCHEDULE")
  /\ UNCHANGED <<bsp, records, trampoline, ap, flush>>

smp_stop_cpu(k) ==
  /\ At("up") /\ k < discovered_cpus /\ cpus[k].online
  /\ Send(k, "STOP")
  /\ UNCHANGED <<bsp, records, trampoline, ap, flush>>
------------------------------------------------------------------------------
(* smp_tlb_shootdown: publish the range, count the processors, interrupt   *)
(* them all, wait for as many acknowledgements.                            *)

Online == {a \in APs : \E k \in Slots : cpus[k].apic_id = a /\ cpus[k].online}

Acknowledging(a) == ap[a].flushing \/ (a \in Listening /\ "TLB_SHOOTDOWN" \in pending[a])

Settled ==
  /\ online_cpus = 1 + Cardinality({a \in APs : ap[a].pc \in {"idle", "stopping"}})
  /\ \A a \in APs : ap[a].pc \notin {"enabled", "flagged"} /\ ~Acknowledging(a)

smp_tlb_shootdown ==
  /\ At("up") \/ (At("test") /\ bsp.index >= discovered_cpus)
  /\ tlb.request < MaxRequests
  /\ tlb' = [request |-> tlb.request + 1, acknowledged |-> 0]
  /\ targets' = Online
  /\ settled' = Settled
  /\ bsp' = [bsp EXCEPT !.pc = "broadcast", !.result = "none"]
  /\ UNCHANGED <<records, trampoline, ap, pending, flushed>>

apic_broadcast_fixed ==
  /\ At("broadcast")
  /\ bsp' = [bsp EXCEPT !.pc = "tlb_wait", !.expected = (online_cpus - 1) % CounterRange]
  /\ Latch(IF online_cpus # 1 THEN Listening ELSE {}, "TLB_SHOOTDOWN")
  /\ UNCHANGED <<records, trampoline, ap, flush>>

(* The interrupt controller does not take the broadcast.                   *)
BroadcastFails ==
  /\ At("broadcast") /\ online_cpus # 1
  /\ Finish("failed")
  /\ (SlowProcessors /\ Latch(Listening, "TLB_SHOOTDOWN")) \/ UNCHANGED pending
  /\ UNCHANGED <<records, trampoline, ap, flush>>

(* Mutation of AwaitAcknowledgements: one answer is enough.                *)
AwaitAcknowledgements_one ==
  /\ At("tlb_wait")
  /\ \/ tlb.acknowledged >= 1 \/ bsp.expected = 0
     \/ SlowProcessors \/ \A a \in APs : ~Acknowledging(a)
  /\ Finish(IF tlb.acknowledged >= 1 \/ bsp.expected = 0 THEN "ok" ELSE "failed")
  /\ UNCHANGED <<records, trampoline, ap, pending, flush>>

AwaitAcknowledgements ==
  /\ At("tlb_wait")
  /\ \/ tlb.acknowledged >= bsp.expected
     \/ SlowProcessors \/ \A a \in APs : ~Acknowledging(a)
  /\ Finish(IF tlb.acknowledged = bsp.expected THEN "ok" ELSE "failed")
  /\ UNCHANGED <<records, trampoline, ap, pending, flush>>
------------------------------------------------------------------------------
(* An application processor.                                               *)

Step(a, from, to) ==
  ap[a].pc = from /\ ~ap[a].flushing /\ ap' = [ap EXCEPT ![a].pc = to]

(* The trampoline loads the stack pointer, then the record.                *)
LoadStack(a) ==
  /\ ap[a].pc = "stack"
  /\ ap' = [ap EXCEPT ![a].pc = "record", ![a].stack = trampoline]
  /\ UNCHANGED <<bsp, records, trampoline, pending, flush>>

LoadRecord(a) ==
  /\ ap[a].pc = "record"
  /\ ap' = [ap EXCEPT ![a].pc = "entry", ![a].record = trampoline]
  /\ UNCHANGED <<bsp, records, trampoline, pending, flush>>

(* smp_ap_entry.                                                           *)
EnableInterrupts(a) ==
  Step(a, "entry", "enabled") /\ UNCHANGED <<bsp, records, trampoline, pending, flush>>

SetOnline(a) ==
  /\ Step(a, "enabled", "flagged")
  /\ cpus' = [cpus EXCEPT ![ap[a].record].online = TRUE]
  /\ UNCHANGED <<bsp, discovered_cpus, online_cpus, trampoline, pending, flush>>

CountOnline(a) ==
  /\ Step(a, "flagged", "idle")
  /\ online_cpus' = (online_cpus + 1) % CounterRange
  /\ UNCHANGED <<bsp, discovered_cpus, cpus, trampoline, pending, flush>>

(* An interrupt is taken between two instructions of smp_ap_entry; another *)
(* of the same kind may be latched while its handler runs.                 *)
Taken(a, ipi) ==
  /\ a \in Listening /\ ~ap[a].flushing /\ ipi \in pending[a]
  /\ pending' = [pending EXCEPT ![a] = @ \ {ipi}]

smp_reschedule_ipi(a) ==
  /\ Taken(a, "RESCHEDULE")
  /\ cpus' = [cpus EXCEPT ![ap[a].record].reschedule_pending = TRUE]
  /\ UNCHANGED <<bsp, discovered_cpus, online_cpus, trampoline, ap, flush>>

smp_tlb_ipi(a) ==
  /\ Taken(a, "TLB_SHOOTDOWN")
  /\ ap' = [ap EXCEPT ![a].flushing = TRUE]
  /\ flushed' = [flushed EXCEPT ![a] = tlb.request]
  /\ UNCHANGED <<bsp, records, trampoline, tlb, targets, settled>>

Acknowledge(a) ==
  /\ ap[a].flushing
  /\ ap' = [ap EXCEPT ![a].flushing = FALSE]
  /\ tlb' = [tlb EXCEPT !.acknowledged = @ + 1]
  /\ UNCHANGED <<bsp, records, trampoline, pending, flushed, targets, settled>>

smp_stop_ipi(a) ==
  /\ Taken(a, "STOP")
  /\ cpus' = [cpus EXCEPT ![ap[a].record].online = FALSE]
  /\ ap' = [ap EXCEPT ![a].pc = "stopping"]
  /\ UNCHANGED <<bsp, discovered_cpus, online_cpus, trampoline, flush>>

CountStopped(a) ==
  /\ Step(a, "stopping", "stopped")
  /\ online_cpus' = (online_cpus - 1) % CounterRange
  /\ UNCHANGED <<bsp, discovered_cpus, cpus, trampoline, pending, flush>>
------------------------------------------------------------------------------
Bootstrap ==
  \/ SkipProcessor \/ PrepareProcessor \/ apic_start_application_processor \/ AwaitProcessor
  \/ BeginSelfTest \/ TestProcessor \/ AwaitReschedule
  \/ apic_broadcast_fixed \/ BroadcastFails \/ AwaitAcknowledgements

Application(a) ==
  \/ LoadStack(a) \/ LoadRecord(a) \/ EnableInterrupts(a) \/ SetOnline(a) \/ CountOnline(a)
  \/ smp_reschedule_ipi(a) \/ smp_tlb_ipi(a) \/ Acknowledge(a)
  \/ smp_stop_ipi(a) \/ CountStopped(a)

Next ==
  \/ Bootstrap \/ smp_tlb_shootdown
  \/ \E k \in Slots : smp_request_reschedule(k) \/ smp_stop_cpu(k)
  \/ \E a \in APs : Application(a)

Spec == Init /\ [][Next]_vars

(* Processors that run keep running and take the interrupts sent to them;  *)
(* the BSP goes on with the call it is in.                                 *)
SelfTestShootdown == bsp.booting /\ smp_tlb_shootdown
Progress ==
  WF_vars(Bootstrap) /\ WF_vars(SelfTestShootdown) /\ \A a \in APs : WF_vars(Application(a))
FairSpec == Spec /\ Progress
------------------------------------------------------------------------------
(* Every variable keeps its type; in particular the counts stay within the *)
(* table.                                                                  *)
TypeOK ==
  /\ bsp \in [pc : {"next", "start", "wait", "test", "test_wait", "broadcast", "tlb_wait", "up"},
              index : Nat, expected : Nat, booting : BOOLEAN, result : {"none", "ok", "failed"}]
  /\ discovered_cpus \in 1 .. SMP_MAX_CPUS /\ online_cpus \in 0 .. CounterRange - 1
  /\ cpus \in [Slots -> [apic_id : Firmware \cup {0}, online : BOOLEAN, reschedule_pending : BOOLEAN]]
  /\ trampoline \in Slots \cup {NoSlot}
  /\ ap \in [APs -> [pc : {"off", "stack", "record", "entry", "enabled", "flagged", "idle",
                           "stopping", "stopped"},
                     stack : Slots \cup {NoSlot}, record : Slots \cup {NoSlot},
                     flushing : BOOLEAN]]
  /\ pending \in [APs -> SUBSET IPIs]
  /\ tlb \in [request : 0 .. MaxRequests, acknowledged : Nat]
  /\ flushed \in [APs -> 0 .. MaxRequests] /\ targets \subseteq APs
  /\ settled \in BOOLEAN

(* Every processor runs on the stack, and as the record, that was prepared *)
(* for it: no two share either.                                            *)
OwnStackAndRecord ==
  \A a \in APs :
    /\ ap[a].stack # NoSlot => cpus[ap[a].stack].apic_id = a
    /\ ap[a].record # NoSlot => ap[a].record = ap[a].stack

(* Processors that start in time keep to their own slots, and the counts   *)
(* to the table.                                                           *)
StartupSound == TypeOK /\ OwnStackAndRecord

(* An acknowledged shootdown is a complete one: when smp_tlb_shootdown     *)
(* returns 0, every processor that was online when it was called has       *)
(* invalidated the range, or is stopped.                                   *)
AcknowledgedByAll ==
  (At("up") /\ bsp.result = "ok") =>
    \A a \in targets : flushed[a] = tlb.request \/ ap[a].pc \in {"stopping", "stopped"}

(* The same of the calls made while online_cpus counted every processor    *)
(* that is up and none had yet to answer an earlier call: stops and        *)
(* reschedules that race the call do not make it return 0 too early.       *)
ShootdownComplete == settled => AcknowledgedByAll

(* smp_init and every shootdown return, also when processors do not start, *)
(* or stop while they are waited for.                                      *)
EveryCallReturns == ~At("up") ~> At("up")

=============================================================================
