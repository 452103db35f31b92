-------------------------------- MODULE Heap ---------------------------------
(***************************************************************************)
(* The kernel heap (src/src/memory/heap.c).  kmalloc, kfree and krealloc   *)
(* hold heap_lock, so a call is one step.  memory is the headers, by       *)
(* address, with their links: the magic number is being in its domain.     *)
(* Callers stay inside what they asked for and free what they were given,  *)
(* so no canary is overwritten; payload bytes are left out.  Sizes and     *)
(* addresses are in bytes.                                                 *)
(***************************************************************************)
EXTENDS Integers, FiniteSets, FiniteSetsExt

CONSTANTS
  HEAP_BYTES,       \* HEAP_PAGES * 4096
  HEADER,           \* sizeof(heap_block_t)
  CANARY,           \* sizeof(uint64_t)
  UINT64_MAX,
  Sizes,            \* the sizes callers ask for
  Counts            \* the element counts given to kcalloc

HeapConstants ==
  /\ {HEAP_BYTES, HEADER, CANARY, UINT64_MAX} \subseteq Nat \ {0}
  /\ HEADER < HEAP_BYTES /\ HEAP_BYTES < UINT64_MAX
  /\ Sizes \subseteq 0 .. UINT64_MAX /\ Counts \subseteq Nat \ {0}

None == -1          \* the null pointer
heap_first == 0

VARIABLES
  memory,           \* address of a header -> the header
  heap_used, heap_allocations,
  extent            \* history: what the owner of a block may use of it

vars == <<memory, heap_used, heap_allocations, extent>>

heap_init ==
  /\ memory = [a \in {heap_first} |-> [free |-> TRUE, size |-> HEAP_BYTES - HEADER,
                                       requested |-> 0, next |-> None, previous |-> None]]
  /\ heap_used = 0 /\ heap_allocations = 0
  /\ extent = [a \in {} |-> 0]
------------------------------------------------------------------------------
wrap(value) == value % (UINT64_MAX + 1)
align16(value) == LET up == wrap(value + 15) IN up - (up % 16)


(* The size a block needs for size bytes; 0 when kmalloc refuses them.     *)
BlockSize(size) ==
  IF size = 0 \/ size > UINT64_MAX - CANARY - 15 THEN 0 ELSE align16(size + CANARY)

(* Mutation of Split: the block after the new one keeps its link back.     *)
Split_stale_link(m, a, need) ==
  LET s == a + HEADER + need IN
  IF m[a].size < need + HEADER + 16 THEN m
  ELSE [b \in DOMAIN m \cup {s} |->
          CASE b = a -> [m[a] EXCEPT !.next = s, !.size = need]
            [] b = s -> [free |-> TRUE, size |-> m[a].size - need - HEADER, requested |-> 0,
                         next |-> m[a].next, previous |-> a]
            [] OTHER -> m[b]]

(* The rest of block a becomes a free block if it can hold a header and 16 *)
(* bytes.                                                                  *)
Split(m, a, need) ==
  LET s == a + HEADER + need IN
  IF m[a].size < need + HEADER + 16 THEN m
  ELSE [b \in DOMAIN m \cup {s} |->
          CASE b = a -> [m[a] EXCEPT !.next = s, !.size = need]
            [] b = s -> [free |-> TRUE, size |-> m[a].size - need - HEADER, requested |-> 0,
                         next |-> m[a].next, previous |-> a]
            [] b = m[a].next -> [m[b] EXCEPT !.previous = s]
            [] OTHER -> m[b]]

Occupy(m, a, need, requested) ==
  [Split(m, a, need) EXCEPT ![a].free = FALSE, ![a].requested = requested]

(* The first block of the list that is free and large enough.  The list is *)
(* in address order.                                                       *)
Fitting(m, need) == {a \in DOMAIN m : m[a].free /\ m[a].size >= need}
FirstFit(m, need) == Min(Fitting(m, need))

(* Mutation of Absorb: the block after keeps its link back.                *)
Absorb_stale_link(m, a, b) ==
  [c \in DOMAIN m \ {b} |->
     IF c = a THEN [m[a] EXCEPT !.size = @ + HEADER + m[b].size, !.next = m[b].next]
     ELSE m[c]]

(* Block b, which follows a, becomes part of a.                            *)
Absorb(m, a, b) ==
  [c \in DOMAIN m \ {b} |->
     CASE c = a -> [m[a] EXCEPT !.size = @ + HEADER + m[b].size, !.next = m[b].next]
       [] c = m[b].next -> [m[c] EXCEPT !.previous = a]
       [] OTHER -> m[c]]

MergeNext(m, a) ==
  LET n == m[a].next IN IF n # None /\ m[n].free THEN Absorb(m, a, n) ELSE m

(* Mutation of MergePrevious: only the block after is looked at.           *)
MergePrevious_never(m, a) == m

MergePrevious(m, a) ==
  LET p == m[a].previous IN IF p # None /\ m[p].free THEN Absorb(m, p, a) ELSE m

Release(m, a) ==
  LET freed == [m EXCEPT ![a].free = TRUE, ![a].requested = 0]
  IN  MergePrevious(MergeNext(freed, a), a)
------------------------------------------------------------------------------
(* A call that finds no block returns 0 and changes nothing but a failure  *)
(* count.                                                                  *)
Allocate(size, use) ==
  LET need == BlockSize(size) IN
  /\ need # 0 /\ Fitting(memory, need) # {}
  /\ LET a == FirstFit(memory, need) IN
     /\ memory' = Occupy(memory, a, need, size)
     /\ heap_used' = heap_used + memory'[a].size
     /\ heap_allocations' = heap_allocations + 1
     /\ extent' = [b \in DOMAIN extent \cup {a} |-> IF b = a THEN use ELSE extent[b]]

kmalloc(size) == Allocate(size, size)

kcalloc(count, size) ==
  /\ size # 0 /\ size <= UINT64_MAX \div count
  /\ Allocate(wrap(count * size), count * size)

kfree(a) ==
  /\ a \in DOMAIN extent
  /\ memory' = Release(memory, a)
  /\ heap_used' = heap_used - memory[a].size
  /\ heap_allocations' = heap_allocations - 1
  /\ extent' = [b \in DOMAIN extent \ {a} |-> extent[b]]

(* A smaller size stays in place.                                          *)
Shrink(a, size) ==
  /\ size <= memory[a].requested
  /\ memory' = [memory EXCEPT ![a].requested = size]
  /\ extent' = [extent EXCEPT ![a] = size]
  /\ UNCHANGED <<heap_used, heap_allocations>>

(* Mutation of Grow: the size of the old block is not taken off.           *)
Grow_keeps_old(a, size) ==
  LET need == BlockSize(size) IN
  /\ size > memory[a].requested
  /\ need # 0 /\ Fitting(memory, need) # {}
  /\ LET b == FirstFit(memory, need)
         grown == Occupy(memory, b, need, size)
     IN  /\ memory' = Release(grown, a)
         /\ heap_used' = heap_used + grown[b].size
         /\ extent' = [c \in (DOMAIN extent \ {a}) \cup {b} |-> IF c = b THEN size ELSE extent[c]]
  /\ UNCHANGED heap_allocations

(* A greater size takes a new block first and then frees the old one.      *)
Grow(a, size) ==
  LET need == BlockSize(size) IN
  /\ size > memory[a].requested
  /\ need # 0 /\ Fitting(memory, need) # {}
  /\ LET b == FirstFit(memory, need)
         grown == Occupy(memory, b, need, size)
     IN  /\ memory' = Release(grown, a)
         /\ heap_used' = heap_used + grown[b].size - memory[a].size
         /\ extent' = [c \in (DOMAIN extent \ {a}) \cup {b} |-> IF c = b THEN size ELSE extent[c]]
  /\ UNCHANGED heap_allocations

krealloc(a, size) ==
  /\ a \in DOMAIN extent /\ size # 0
  /\ Shrink(a, size) \/ Grow(a, size)

Init == heap_init

Next ==
  \/ \E size \in Sizes : kmalloc(size)
  \/ \E count \in Counts, size \in Sizes : kcalloc(count, size)
  \/ \E a \in DOMAIN memory : kfree(a)
  \/ \E a \in DOMAIN memory, size \in Sizes : krealloc(a, size)

Spec == Init /\ [][Next]_vars
------------------------------------------------------------------------------
Blocks == DOMAIN memory
Headers ==
  [free : BOOLEAN, size : Nat, requested : Nat, next : Blocks \cup {None},
   previous : Blocks \cup {None}]

(* Links lead to headers; the counters are not negative.                   *)
TypeOK ==
  /\ Blocks \subseteq 0 .. HEAP_BYTES - 1 /\ memory \in [Blocks -> Headers]
  /\ heap_used \in Nat /\ heap_allocations \in Nat
  /\ DOMAIN extent \subseteq Blocks

(* heap_validate always succeeds, and more: the blocks lie end to end from *)
(* the first byte of the heap to the last, the list runs through them in   *)
(* both directions, and no byte is lost.                                   *)
End(a) == a + HEADER + memory[a].size
heap_validate ==
  /\ heap_first \in Blocks /\ memory[heap_first].previous = None
  /\ \A a \in Blocks :
       LET n == memory[a].next IN
       IF n = None THEN End(a) = HEAP_BYTES
       ELSE n = End(a) /\ memory[n].previous = a

(* Freeing coalesces fully: no two free blocks are neighbours.             *)
Coalesced ==
  \A a \in Blocks : memory[a].free /\ memory[a].next # None => ~memory[memory[a].next].free

(* The statistics count the blocks in use and their bytes, and the blocks  *)
(* in use are the ones somebody owns.                                      *)
UsedExact ==
  LET taken == {a \in Blocks : ~memory[a].free} IN
  /\ taken = DOMAIN extent
  /\ heap_allocations = Cardinality(taken)
  /\ heap_used = MapThenSumSet(LAMBDA a : memory[a].size, taken)

(* What the owner may use ends before the canary, also after overflow of   *)
(* the size arithmetic was possible and after a block was resized in place.*)
PayloadFits == \A a \in DOMAIN extent : extent[a] + CANARY <= memory[a].size

=============================================================================
