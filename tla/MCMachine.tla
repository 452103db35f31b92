------------------------------ MODULE MCMachine ------------------------------
(***************************************************************************)
(* Memory and storage for TLC: the heap, the page allocator with the DMA   *)
(* buffers on top of it, paging, the registration of the block devices,    *)
(* the ATA driver and the VirtIO driver.                                   *)
(*                                                                         *)
(* A behaviour exercises one of them, because they share no state.         *)
(* heap_init takes its pages from the page allocator once and the tables   *)
(* keep theirs; the drivers are called through the block layer's read and  *)
(* write functions only, with requests it has checked (CallsInRange).      *)
(***************************************************************************)
EXTENDS VirtioBlk, Sequences

CONSTANTS
  HEAP_BYTES, HEADER, CANARY, UINT64_MAX, Sizes, Counts,
  MemoryPages, KernelPages, PageRange,
  DMA_PAGE_SIZE, DMA_UINT64_MAX, Handles, DmaSizes, Alignments, Limits,
  Frames, Tables,
  Sectors,
  BLOCK_DEVICE_MAX, ATA_MAX_DEVICES, LBA28_SECTORS, WordRange, QueueSizes

Drives ==
  [answers : {TRUE}, atapi : {FALSE}, data_ready : {TRUE}, sectors : {0, 3, WordRange - 1}]
    \cup {[answers |-> FALSE, atapi |-> FALSE, data_ready |-> FALSE, sectors |-> 3],
          [answers |-> TRUE, atapi |-> TRUE, data_ready |-> TRUE, sectors |-> 3],
          [answers |-> TRUE, atapi |-> FALSE, data_ready |-> FALSE, sectors |-> 3]}

VARIABLES
  part,                                                    \* the one in use
  memory, heap_used, heap_allocations, extent,             \* heap
  page_bitmap, used_pages, peak_used_pages, owned,         \* page allocator
  dma_buffers,
  pml4, pdpt, pd, pt, free_tables, mapped_page_count, tlb, init_at,  \* paging
  medium, ata_pc, ata_call, ata_sector, ata_result, medium_before, ata_lost,
  block_devices, position, ata_devices, virtio

heap_vars == <<memory, heap_used, heap_allocations, extent>>
dma_vars == <<page_bitmap, used_pages, peak_used_pages, owned, dma_buffers>>
vmm_vars == <<pml4, pdpt, pd, pt, free_tables, mapped_page_count, tlb, init_at>>
ata_vars == <<medium, ata_pc, ata_call, ata_sector, ata_result, medium_before, ata_lost>>
block_vars == <<block_devices, position, ata_devices, virtio>>
machine_vars == <<part, heap_vars, dma_vars, vmm_vars, ata_vars, block_vars, vars>>

Kernel == INSTANCE Heap
DMA == INSTANCE Dma WITH Sizes <- DmaSizes, buffers <- dma_buffers

(* The kernel image in the huge page the loader mapped; a driver maps a    *)
(* page next to it, one in the same directory and one far away.            *)
Paging == INSTANCE Vmm WITH
  Virtual <- {<<0, 0, 0, 4>>, <<0, 0, 1, 0>>, <<1, 0, 0, 0>>},
  KernelImage <- << <<<<0, 0, 0, 0>>, "null">>, <<<<0, 0, 0, 1>>, "text">>,
                    <<<<0, 0, 0, 2>>, "rodata">>, <<<<0, 0, 0, 3>>, "data">> >>,
  Indices <- 0 .. 4, HugeEntries <- {<<0, 0, 0>>, <<0, 0, 1>>},
  Flags <- {{"W"}, {"W", "NX"}}

Drive == INSTANCE Ata
Registry == INSTANCE Block

ASSUME MachineConstants ==
  /\ Kernel!HeapConstants /\ DMA!DmaConstants
  /\ Drive!AtaConstants /\ Registry!BlockConstants

MachineInit ==
  /\ part \in {"heap", "pages", "paging", "block", "ata", "virtio"}
  /\ Kernel!Init /\ DMA!DmaInit /\ Paging!Init /\ Drive!Init /\ Registry!Init /\ Init

MachineNext ==
  /\ UNCHANGED part
  /\ \/ /\ part = "heap" /\ Kernel!Next
        /\ UNCHANGED <<dma_vars, vmm_vars, ata_vars, block_vars, vars>>
     \/ /\ part = "pages" /\ DMA!DmaNext
        /\ UNCHANGED <<heap_vars, vmm_vars, ata_vars, block_vars, vars>>
     \/ /\ part = "paging" /\ Paging!Next
        /\ UNCHANGED <<heap_vars, dma_vars, ata_vars, block_vars, vars>>
     \/ /\ part = "block" /\ Registry!Next
        /\ UNCHANGED <<heap_vars, dma_vars, vmm_vars, ata_vars, vars>>
     \/ /\ part = "ata" /\ Drive!Next
        /\ UNCHANGED <<heap_vars, dma_vars, vmm_vars, block_vars, vars>>
     \/ /\ part = "virtio" /\ Next
        /\ UNCHANGED <<heap_vars, dma_vars, vmm_vars, ata_vars, block_vars>>

(* The polls of both drivers are bounded loops: a call keeps running.      *)
MachineSpec ==
  /\ MachineInit /\ [][MachineNext]_machine_vars
  /\ WF_ata_vars(part = "ata" /\ Drive!Step)
  /\ WF_vars(part = "virtio" /\ Driver)
------------------------------------------------------------------------------

(* pmm_alloc_pages hands out no page twice and none of the kernel,         *)
(* pmm_free_pages loses none, and used_pages counts them; a run is the     *)
(* lowest that is long enough, and a call fails only when there is none.   *)
PagesAccounted == part = "pages" => DMA!TypeOK /\ DMA!PagesAccounted /\ DMA!FirstFit

(* A DMA buffer is whole, its own and within reach of its device.          *)
DmaSound == part = "pages" => DMA!DmaSound

(* The counted mappings are the mappings, the caller's TLB is never stale, *)
(* and the kernel image keeps its protection.                              *)
PagingSound ==
  part = "paging" => Paging!MappedExact /\ Paging!LocalTlbCoherent /\ Paging!KernelProtected

(* A call on one page leaves the translation of every other.               *)
TranslationKept == Paging!TranslationKept

(* Every ATA transfer sends or fetches its sectors in order and touches no *)
(* other; a success covers them all and a failure leaves a prefix.         *)
TransfersExact == Drive!TypeOK /\ Drive!TransfersExact

(* The registry and the drivers agree on which devices exist, and no       *)
(* driver is called for a sector its device does not have.                 *)
RegistrySound == part = "block" => Registry!RegistryAgrees /\ Registry!CallsInRange

(* A device that never answers holds up no caller: every ATA and VirtIO    *)
(* call returns.                                                           *)
CallsReturn == (ata_pc # "idle" ~> ata_pc = "idle") /\ (virtio_pc # "idle" ~> virtio_pc = "idle")

=============================================================================
