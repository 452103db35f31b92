--------------------------------- MODULE Pmm ---------------------------------
(***************************************************************************)
(* The physical page allocator (src/src/memory/pmm.c).  Every call holds   *)
(* pmm_lock from its first to its last access, so a call is one step.  The *)
(* request counters, which nothing but pmm_get_stats reads, are left out.  *)
(***************************************************************************)
EXTENDS Integers, FiniteSets

CONSTANTS
  MemoryPages,      \* the memory the loader reports, after both limits
  KernelPages,      \* the pages up to kernel_end, rounded up
  PageRange         \* page numbers and counts are computed modulo this: 2^32

PmmConstants ==
  MemoryPages \in Nat /\ KernelPages \in Nat /\ PageRange \in Nat /\ MemoryPages < PageRange

managed_pages == MemoryPages
reserved_pages == IF KernelPages > managed_pages THEN managed_pages ELSE KernelPages

Pages == 0 .. managed_pages - 1
Run(start, count) == start .. start + count - 1

VARIABLES
  page_bitmap,      \* the pages whose bit is set
  used_pages,
  peak_used_pages,
  owned             \* history: the runs handed out and not freed since

vars == <<page_bitmap, used_pages, peak_used_pages, owned>>

Owned == UNION {Run(r[1], r[2]) : r \in owned}

pmm_init_limit ==
  /\ page_bitmap = 0 .. reserved_pages - 1
  /\ used_pages = reserved_pages
  /\ peak_used_pages = reserved_pages
  /\ owned = {}

(* Mutation of Scan: the next start lies past the whole run tried.         *)
Scan_long_skip(count) ==
  LET scan[start \in Nat] ==
        IF start + count > managed_pages THEN managed_pages
        ELSE IF Run(start, count) \cap page_bitmap = {} THEN start
             ELSE scan[start + count]
  IN  scan[reserved_pages]

(* Where pmm_alloc_pages finds its run; managed_pages when there is none.  *)
(* On a page in use the next start is the page after it.                   *)
Scan(count) ==
  LET FirstUsed(S) == CHOOSE p \in S : \A q \in S : p <= q
      scan[start \in Nat] ==
        IF start + count > managed_pages THEN managed_pages
        ELSE LET used == Run(start, count) \cap page_bitmap
             IN  IF used = {} THEN start ELSE scan[FirstUsed(used) + 1]
  IN  scan[reserved_pages]

pmm_alloc_pages(count) ==
  LET start == Scan(count) IN
  /\ count # 0 /\ count <= managed_pages
  /\ start < managed_pages
  /\ page_bitmap' = page_bitmap \cup Run(start, count)
  /\ used_pages' = used_pages + count
  /\ peak_used_pages' = IF used_pages' > peak_used_pages THEN used_pages' ELSE peak_used_pages
  /\ owned' = owned \cup {<<start, count>>}

(* The pages the loop of pmm_free_pages goes through.                      *)
Cleared(start, count) == {(start + page) % PageRange : page \in 0 .. count - 1}

(* Mutation of pmm_free_pages: a run that reaches past the end is refused, *)
(* and so is the one that ends there.                                      *)
pmm_free_pages_off_by_one(start, count) ==
  /\ count # 0 /\ start >= reserved_pages
  /\ LET freed == IF (start + count) % PageRange < managed_pages
                  THEN Cleared(start, count) \cap page_bitmap ELSE {}
     IN  /\ page_bitmap' = page_bitmap \ freed
         /\ used_pages' = used_pages - Cardinality(freed)
  /\ owned' = owned \ {<<start, count>>}
  /\ UNCHANGED peak_used_pages

pmm_free_pages(start, count) ==
  /\ count # 0 /\ start >= reserved_pages /\ (start + count) % PageRange <= managed_pages
  /\ LET freed == Cleared(start, count) \cap page_bitmap IN
     /\ page_bitmap' = page_bitmap \ freed
     /\ used_pages' = used_pages - Cardinality(freed)
  /\ owned' = owned \ {<<start, count>>}
  /\ UNCHANGED peak_used_pages

(* Callers free a run they were given, or one they have freed before and   *)
(* nobody has been given since.  The check of pmm_free_pages refuses a run *)
(* that reaches past the last page, but not one so long that start + count *)
(* wraps: no caller has a count that did not come from an allocation.      *)
MayFree(start, count) == <<start, count>> \in owned \/ Run(start, count) \cap Owned = {}

Init == pmm_init_limit

Next ==
  \/ \E count \in 0 .. managed_pages + 1 : pmm_alloc_pages(count)
  \/ \E start, count \in 0 .. managed_pages + 1 :
       MayFree(start, count) /\ pmm_free_pages(start, count)

Spec == Init /\ [][Next]_vars
------------------------------------------------------------------------------
(* The bitmap covers the managed pages.                                    *)
TypeOK ==
  /\ page_bitmap \subseteq Pages
  /\ used_pages \in 0 .. managed_pages /\ peak_used_pages \in used_pages .. managed_pages
  /\ owned \subseteq Pages \X (1 .. managed_pages)

(* No page is handed out twice, no page of the kernel is handed out, and   *)
(* no page is lost: what is marked is the kernel and what callers own.     *)
(* used_pages counts the marked pages, double frees included.              *)
PagesAccounted ==
  /\ \A r, s \in owned : r # s => Run(r[1], r[2]) \cap Run(s[1], s[2]) = {}
  /\ page_bitmap = (0 .. reserved_pages - 1) \cup Owned
  /\ Owned \cap (0 .. reserved_pages - 1) = {}
  /\ used_pages = Cardinality(page_bitmap)

(* The scan skips ahead and still misses no run: pmm_alloc_pages returns   *)
(* the lowest run of free pages that is long enough, and fails only when   *)
(* there is none.                                                          *)
Fits(start, count) == start + count <= managed_pages /\ Run(start, count) \cap page_bitmap = {}
FirstFit ==
  \A count \in 1 .. managed_pages :
    LET fits == {start \in reserved_pages .. managed_pages - 1 : Fits(start, count)}
    IN  IF fits = {} THEN Scan(count) = managed_pages
        ELSE Scan(count) \in fits /\ \A s \in fits : Scan(count) <= s

=============================================================================
