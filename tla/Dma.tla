---------------------------------- MODULE Dma ----------------------------------
(***************************************************************************)
(* Buffers for devices (src/src/device/dma.c), taken from the page         *)
(* allocator.  Addresses are counted in bytes of a small page; a device    *)
(* reaches the addresses below Limit (2^address_bits).  Memory is coherent *)
(* and identity mapped, so mapping and synchronising only order accesses.  *)
(***************************************************************************)
EXTENDS Pmm, Sequences

CONSTANTS
  DMA_PAGE_SIZE,
  DMA_UINT64_MAX,   \* scaled, like UINT32_MAX = PageRange - 1
  Handles,          \* the dma_buffer_t records of callers
  Sizes, Alignments, Limits

DmaConstants == PmmConstants /\ DMA_PAGE_SIZE \in Nat \ {0} /\ DMA_UINT64_MAX \in Nat

NoBuffer == [physical_address |-> 0, size |-> 0, allocation_base |-> 0,
             allocation_pages |-> 0, limit |-> 0]

VARIABLE buffers

dma_vars == <<page_bitmap, used_pages, peak_used_pages, owned, buffers>>

align_up(value, alignment) == ((value + alignment - 1) \div alignment) * alignment

Alignment(alignment) == IF alignment < DMA_PAGE_SIZE THEN DMA_PAGE_SIZE ELSE alignment

(* Mutation of TotalPages: no room to align inside the run.                *)
TotalPages_unaligned(size, alignment) == (size + DMA_PAGE_SIZE - 1) \div DMA_PAGE_SIZE

TotalPages(size, alignment) ==
  (size + DMA_PAGE_SIZE - 1) \div DMA_PAGE_SIZE + alignment \div DMA_PAGE_SIZE - 1

PowerOfTwo(n) == \E e \in 0 .. n : n = 2 ^ e

(* Mutation of Acceptable: a count of pages that 32 bits cannot hold.      *)
Acceptable_any_count(size, alignment) ==
  size # 0 /\ PowerOfTwo(alignment) /\ size <= DMA_UINT64_MAX - DMA_PAGE_SIZE

(* The requests dma_alloc takes to the page allocator.                     *)
Acceptable(size, alignment) ==
  /\ size # 0 /\ PowerOfTwo(alignment) /\ size <= DMA_UINT64_MAX - DMA_PAGE_SIZE
  /\ TotalPages(size, alignment) < PageRange

(* A run that ends above what the device reaches is given back: the call   *)
(* fails and leaves no trace but the peak.  A buffer in use is not passed  *)
(* again.                                                                  *)
dma_alloc(h, size, alignment, limit) ==
  LET a == Alignment(alignment)
      total == TotalPages(size, a) % PageRange
      base == Scan(total)
      physical == align_up(base * DMA_PAGE_SIZE, a)
  IN  /\ Acceptable(size, a) /\ buffers[h] = NoBuffer
      /\ total # 0 /\ total <= managed_pages /\ base < managed_pages
      /\ IF physical + size > limit
         THEN /\ peak_used_pages' = IF used_pages + total > peak_used_pages
                                    THEN used_pages + total ELSE peak_used_pages
              /\ UNCHANGED <<page_bitmap, used_pages, owned, buffers>>
         ELSE /\ pmm_alloc_pages(total)
              /\ buffers' = [buffers EXCEPT ![h] =
                   [physical_address |-> physical, size |-> size, allocation_base |-> base,
                    allocation_pages |-> total, limit |-> limit]]

(* Freeing a record twice is harmless: the first call clears it.           *)
dma_free(h) ==
  /\ buffers[h].allocation_base # 0 /\ buffers[h].allocation_pages # 0
  /\ pmm_free_pages(buffers[h].allocation_base, buffers[h].allocation_pages)
  /\ buffers' = [buffers EXCEPT ![h] = NoBuffer]

(* Mutation of SegmentLength: the limit of the device is forgotten.        *)
SegmentLength_page_only(cursor, size, max_segment_size) ==
  LET page_left == DMA_PAGE_SIZE - (cursor % DMA_PAGE_SIZE)
  IN  IF size < page_left THEN size ELSE page_left

SegmentLength(cursor, size, max_segment_size) ==
  LET page_left == DMA_PAGE_SIZE - (cursor % DMA_PAGE_SIZE)
      length == IF size < page_left THEN size ELSE page_left
  IN  IF length > max_segment_size THEN max_segment_size ELSE length

(* The segments from cursor on; more than capacity of them is a failure.   *)
dma_build_scatter(address, size, max_segment_size, capacity) ==
  LET end == address + size
      from[cursor \in address .. end] ==
        IF cursor = end THEN <<>>
        ELSE LET length == SegmentLength(cursor, end - cursor, max_segment_size)
             IN  <<[physical_address |-> cursor, length |-> length]>> \o from[cursor + length]
      segments == from[address]
  IN  IF Len(segments) > capacity THEN [ok |-> FALSE, segments |-> <<>>]
      ELSE [ok |-> TRUE, segments |-> segments]

(* Other callers of the page allocator keep their hands off the buffers.   *)
OfBuffers == {<<buffers[h].allocation_base, buffers[h].allocation_pages>> : h \in Handles}

DmaInit == Init /\ buffers = [h \in Handles |-> NoBuffer]

DmaNext ==
  \/ \E count \in 0 .. managed_pages + 1 : pmm_alloc_pages(count) /\ UNCHANGED buffers
  \/ \E start, count \in 0 .. managed_pages + 1 :
       /\ MayFree(start, count) /\ <<start, count>> \notin OfBuffers
       /\ pmm_free_pages(start, count) /\ UNCHANGED buffers
  \/ \E h \in Handles :
       \/ \E size \in Sizes, alignment \in Alignments, limit \in Limits :
            dma_alloc(h, size, alignment, limit)
       \/ dma_free(h)
------------------------------------------------------------------------------
(* A buffer dma_alloc returned lies, whole, in pages that are its own and  *)
(* below what its device reaches, whatever was allocated and freed around  *)
(* it; the segments dma_build_scatter makes of it cover it in order, each  *)
(* within one page and no longer than the device takes.                    *)
PagesOf(b) == b.physical_address \div DMA_PAGE_SIZE ..
              (b.physical_address + b.size - 1) \div DMA_PAGE_SIZE
ScatterCovers(b, max_segment_size) ==
  LET s == dma_build_scatter(b.physical_address, b.size, max_segment_size, b.size).segments
      Last(i) == s[i].physical_address + s[i].length - 1
  IN  /\ s[1].physical_address = b.physical_address
      /\ Last(Len(s)) = b.physical_address + b.size - 1
      /\ \A i \in 1 .. Len(s) :
           /\ i > 1 => s[i].physical_address = Last(i - 1) + 1
           /\ s[i].length \in 1 .. max_segment_size
           /\ s[i].physical_address \div DMA_PAGE_SIZE = Last(i) \div DMA_PAGE_SIZE
DmaSound ==
  \A h \in Handles : LET b == buffers[h] IN b # NoBuffer =>
    /\ <<b.allocation_base, b.allocation_pages>> \in owned
    /\ PagesOf(b) \subseteq Run(b.allocation_base, b.allocation_pages)
    /\ b.physical_address + b.size <= b.limit
    /\ \A m \in {1, DMA_PAGE_SIZE - 1, DMA_PAGE_SIZE + 1} : ScatterCovers(b, m)

=============================================================================
