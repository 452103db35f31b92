---------------------------------- MODULE Vmm ----------------------------------
(***************************************************************************)
(* The virtual memory manager (src/src/memory/vmm.c).  A page is named by  *)
(* its four table indices.  The loader maps the low memory with huge pages *)
(* of the third level; walk splits one the first time a page inside it is  *)
(* looked at.  Tables come from the page allocator, which may have none    *)
(* left.  A processor may load a translation it finds in the tables into   *)
(* its TLB at any time; the calls run on one processor and invalidate its  *)
(* TLB only.                                                               *)
(***************************************************************************)
EXTENDS Integers, FiniteSets, Sequences

CONSTANTS
  Virtual,          \* the pages drivers map: <<pml4, pdpt, pd, pt>> indices
  KernelImage,      \* the pages vmm_init protects, in its order, with their section
  Indices,          \* of the last level: the pages of a huge page
  HugeEntries,      \* the third-level entries the loader has filled
  Frames,           \* physical pages to map
  Flags,            \* WRITABLE, NO_EXECUTE and so on, in combinations
  Tables            \* pages the allocator can give for tables

Unmapped == [frame |-> <<"none", 0>>, flags |-> {}]

VARIABLES
  pml4, pdpt,       \* the present entries of the first two levels
  pd,               \* third level: absent, huge or table
  pt,               \* fourth level, for the pages below a table
  free_tables,
  mapped_page_count,
  tlb,              \* the translations the calling processor has loaded
  init_at           \* vmm_init's place in KernelImage; past it when done

table_vars == <<pml4, pdpt, pd, pt, free_tables, mapped_page_count, tlb>>
vars == <<pml4, pdpt, pd, pt, free_tables, mapped_page_count, tlb, init_at>>

Entry(v) == <<v[1], v[2], v[3]>>
ImagePages == {KernelImage[i][1] : i \in 1 .. Len(KernelImage)}
Entries == {Entry(v) : v \in Virtual \cup ImagePages}
Pages == {<<e[1], e[2], e[3], i>> : e \in Entries, i \in Indices}

(* What the hardware finds: identity mapped below a huge page.             *)
Identity(v) == [frame |-> <<"low", v>>, flags |-> {"W"}]
Translation(v) ==
  CASE pd[Entry(v)] = "huge" -> Identity(v)
    [] pd[Entry(v)] = "table" -> pt[v]
    [] OTHER -> Unmapped

(* The tables as the loader leaves them, before vmm_init.                  *)
Init ==
  /\ pml4 = {e[1] : e \in HugeEntries} /\ pdpt = {<<e[1], e[2]>> : e \in HugeEntries}
  /\ pd = [e \in Entries |-> IF e \in HugeEntries THEN "huge" ELSE "absent"]
  /\ pt = [v \in Pages |-> Unmapped]
  /\ free_tables = Tables
  /\ mapped_page_count = Cardinality(HugeEntries \cap Entries) * Cardinality(Indices)
  /\ tlb = {} /\ init_at = 1

(* walk takes a new table for every level that is missing, the upper ones  *)
(* first; what it took stays when the next one cannot be had.              *)
Missing(v) ==
  (IF v[1] \in pml4 THEN 0 ELSE 1) + (IF <<v[1], v[2]>> \in pdpt THEN 0 ELSE 1)
    + (IF pd[Entry(v)] = "table" THEN 0 ELSE 1)
Reaches(v, create) ==
  IF pd[Entry(v)] = "absent" THEN create /\ Missing(v) <= free_tables
  ELSE Missing(v) <= free_tables

(* Mutation of split_huge_page: every entry gets the base of the first.    *)
split_huge_page_same_base(e) ==
  [v \in Pages |-> IF Entry(v) = e THEN Identity(<<e[1], e[2], e[3], 0>>) ELSE pt[v]]

split_huge_page(e) == [v \in Pages |-> IF Entry(v) = e THEN Identity(v) ELSE pt[v]]

(* The tables after walk(v, create), whether or not it reached the page.   *)
Walked(v, create) ==
  LET e == Entry(v)
      makes == IF create THEN Missing(v) ELSE IF pd[e] = "huge" THEN 1 ELSE 0
      taken == IF makes <= free_tables THEN makes ELSE free_tables
  IN  [pml4 |-> IF taken > 0 THEN pml4 \cup {v[1]} ELSE pml4,
       pdpt |-> IF taken > (IF v[1] \in pml4 THEN 0 ELSE 1)
                THEN pdpt \cup {<<v[1], v[2]>>} ELSE pdpt,
       pd |-> IF Reaches(v, create) THEN [pd EXCEPT ![e] = "table"] ELSE pd,
       pt |-> IF pd[e] = "huge" /\ Reaches(v, create) THEN split_huge_page(e) ELSE pt,
       free |-> free_tables - taken]

Walk(v, create) ==
  LET w == Walked(v, create) IN
  pml4' = w.pml4 /\ pdpt' = w.pdpt /\ pd' = w.pd /\ free_tables' = w.free

invalidate(v) == tlb' = {t \in tlb : t[1] # v}

(* Mutation of vmm_map_page: a page mapped anew is counted again.          *)
vmm_map_page_counts_again(v, frame, flags) ==
  /\ Walk(v, TRUE)
  /\ IF Reaches(v, TRUE)
     THEN /\ pt' = [Walked(v, TRUE).pt EXCEPT ![v] = [frame |-> frame, flags |-> flags]]
          /\ mapped_page_count' = mapped_page_count + 1
          /\ invalidate(v)
     ELSE pt' = Walked(v, TRUE).pt /\ UNCHANGED <<mapped_page_count, tlb>>

vmm_map_page(v, frame, flags) ==
  /\ Walk(v, TRUE)
  /\ LET found == Walked(v, TRUE).pt IN
     IF Reaches(v, TRUE)
     THEN /\ pt' = [found EXCEPT ![v] = [frame |-> frame, flags |-> flags]]
          /\ mapped_page_count' = mapped_page_count + (IF found[v] = Unmapped THEN 1 ELSE 0)
          /\ invalidate(v)
     ELSE pt' = found /\ UNCHANGED <<mapped_page_count, tlb>>

(* Mutation of vmm_unmap_page: the TLB keeps its entry.                    *)
vmm_unmap_page_keeps_tlb(v) ==
  /\ Walk(v, FALSE)
  /\ LET found == Walked(v, FALSE).pt IN
     IF Reaches(v, FALSE) /\ found[v] # Unmapped
     THEN /\ pt' = [found EXCEPT ![v] = Unmapped]
          /\ mapped_page_count' = mapped_page_count - 1
     ELSE pt' = found /\ UNCHANGED mapped_page_count
  /\ UNCHANGED tlb

vmm_unmap_page(v) ==
  /\ Walk(v, FALSE)
  /\ LET found == Walked(v, FALSE).pt IN
     IF Reaches(v, FALSE) /\ found[v] # Unmapped
     THEN /\ pt' = [found EXCEPT ![v] = Unmapped]
          /\ mapped_page_count' =
               IF mapped_page_count # 0 THEN mapped_page_count - 1 ELSE mapped_page_count
          /\ invalidate(v)
     ELSE pt' = found /\ UNCHANGED <<mapped_page_count, tlb>>

(* Looking at a page splits the huge page it is in.                        *)
vmm_query_page(v) ==
  /\ Walk(v, FALSE)
  /\ pt' = Walked(v, FALSE).pt
  /\ UNCHANGED <<mapped_page_count, tlb>>

TlbFill(v) ==
  /\ Translation(v) # Unmapped
  /\ tlb' = tlb \cup {<<v, Translation(v)>>}
  /\ UNCHANGED <<pml4, pdpt, pd, pt, free_tables, mapped_page_count>>

(* Mutation of SectionFlags: read-only data stays executable.              *)
SectionFlags_executable(section) ==
  CASE section = "text" -> {"G"}
    [] section = "rodata" -> {"G"}
    [] section = "data" -> {"W", "G", "NX"}

SectionFlags(section) ==
  CASE section = "text" -> {"G"}
    [] section = "rodata" -> {"G", "NX"}
    [] section = "data" -> {"W", "G", "NX"}

(* One call of vmm_init: the null page goes, then the image is mapped on   *)
(* itself section by section.  A call that fails is a panic.               *)
vmm_init ==
  /\ init_at <= Len(KernelImage)
  /\ LET v == KernelImage[init_at][1]
         section == KernelImage[init_at][2]
     IN  IF section = "null" THEN Reaches(v, FALSE) /\ vmm_unmap_page(v)
         ELSE Reaches(v, TRUE) /\ vmm_map_page(v, <<"low", v>>, SectionFlags(section))
  /\ init_at' = init_at + 1

Done == init_at > Len(KernelImage)

Next ==
  \/ vmm_init
  \/ \E v \in Virtual : Done /\ UNCHANGED init_at /\
       \/ \E frame \in Frames, flags \in Flags : vmm_map_page(v, frame, flags)
       \/ vmm_unmap_page(v)
  \/ \E v \in Virtual \cup ImagePages : UNCHANGED init_at /\
       \/ vmm_query_page(v) /\ Done
       \/ TlbFill(v)
------------------------------------------------------------------------------
(* vmm_mapped_pages is the number of pages the hardware translates, after  *)
(* split huge pages, pages mapped again and calls that failed halfway.     *)
Mapped == {v \in Pages : Translation(v) # Unmapped}
MappedExact == mapped_page_count = Cardinality(Mapped)

(* The processor that makes the calls holds no translation the tables no   *)
(* longer say.                                                             *)
LocalTlbCoherent == \A t \in tlb : t[2] = Translation(t[1])

(* Once vmm_init is through, no call of a driver and no look at a page     *)
(* takes its protection from the kernel: the null page stays unmapped, the *)
(* image on itself, and no page of it is writable and executable.          *)
KernelProtected ==
  Done => \A i \in 1 .. Len(KernelImage) :
    LET t == Translation(KernelImage[i][1]) IN
    IF KernelImage[i][2] = "null" THEN t = Unmapped
    ELSE /\ t.frame = <<"low", KernelImage[i][1]>>
         /\ ~("W" \in t.flags /\ "NX" \notin t.flags)
         /\ KernelImage[i][2] = "rodata" => "NX" \in t.flags

(* A call changes the translation of no page but the one it names, also    *)
(* when it splits a huge page or runs out of tables halfway.               *)
TranslationKept ==
  [][\E v \in Virtual \cup ImagePages :
       \A p \in Pages \ {v} : Translation(p)' = Translation(p)]_vars

=============================================================================
