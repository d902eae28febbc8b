----------------------------- MODULE MemLayout -----------------------------
(***************************************************************************)
(* The memory map (include/mm.h, include/board.h) and init_mm with         *)
(* map_kernel_section(s) (mm/mm.c), with the real addresses.  A virtual    *)
(* kernel address is given by its offset from KERNEL_VA_START; the         *)
(* kernel's page tables are counted in sections of 2 MB.                   *)
(***************************************************************************)
EXTENDS Integers, FiniteSetsExt

CONSTANTS
  MEM_BASE, IMAGE_OFFSET, LOW_SIZE, PAGING_MEMORY,  \* bytes
  PAGE_SIZE, FAN,      \* bytes of a page, entries of a table
  BootMap,             \* the sections start.S maps at KERNEL_VA_START
  PFLASH1_PA, PFLASH1_VA, PFLASH1_SIZE   \* sections, sections, bytes

IMAGE_START == MEM_BASE + IMAGE_OFFSET
LOW_MEM == IMAGE_START + LOW_SIZE
PAGING_PAGES == PAGING_MEMORY \div PAGE_SIZE
SECTION_SIZE == PAGE_SIZE * FAN
Sections == PFLASH1_SIZE \div SECTION_SIZE + (IF PFLASH1_SIZE % SECTION_SIZE # 0 THEN 1 ELSE 0)

\* The entry of section s in the tables of level 2, 1 and 0.
Level(s, l) == (s \div (CASE l = 0 -> 1 [] l = 1 -> FAN [] l = 2 -> FAN * FAN)) % FAN

\* The memory begins at a section, start.S maps all of it and fills one table,
\* and the flash is mapped elsewhere, where the first table reaches.  There
\* are pages left for two new tables for each section of the flash.
MemLayoutConstants ==
  /\ {MEM_BASE, IMAGE_OFFSET, LOW_SIZE, PAGING_MEMORY,
      PFLASH1_PA, PFLASH1_VA, PFLASH1_SIZE} \subseteq Nat
  /\ PAGE_SIZE \in Nat \ {0, 1} /\ FAN \in Nat \ {0}
  /\ LOW_MEM % PAGE_SIZE = 0 /\ PAGING_MEMORY % PAGE_SIZE = 0
  /\ MEM_BASE % SECTION_SIZE = 0
  /\ DOMAIN BootMap = 0..(FAN - 1)
  /\ \A s \in 0..(FAN - 1) :
       s * SECTION_SIZE < IMAGE_OFFSET + LOW_SIZE + PAGING_MEMORY =>
         BootMap[s] = s + MEM_BASE \div SECTION_SIZE
  /\ IMAGE_OFFSET + LOW_SIZE + PAGING_MEMORY <= FAN * SECTION_SIZE
  /\ FAN <= PFLASH1_VA /\ PFLASH1_VA + Sections <= FAN * FAN * FAN
  /\ 2 * Sections < PAGING_PAGES

VARIABLES
  tbl,      \* the kernel's tables: the entries of each that are not empty
  done,     \* sections that map_kernel_sections has behind
  free      \* the pages below this one are free

vars == <<tbl, done, free>>

(***************************************************************************)
(* Pages.                                                                  *)
(***************************************************************************)
pa_to_pfn(pa) == (pa - LOW_MEM) \div PAGE_SIZE
pfn_to_pa(pfn) == pfn * PAGE_SIZE + LOW_MEM

\* Error: the offset is counted from the image.
VaFromImage(pa) == pa - IMAGE_START

va(pa) == pa - MEM_BASE
pa_of(v) == v + MEM_BASE

(***************************************************************************)
(* The kernel's page tables: -1 is the first one, pg_tbl_start, with one   *)
(* entry, and the two below it that start.S fills; tables that are added   *)
(* are pages.                                                              *)
(***************************************************************************)
Put(t, k, i, v) ==
  [x \in DOMAIN t \cup {k} |->
     IF x # k THEN t[x]
     ELSE [j \in (IF k \in DOMAIN t THEN DOMAIN t[k] ELSE {}) \cup {i} |->
             IF j = i THEN v ELSE t[k][j]]]
Has(t, k, i) == k \in DOMAIN t /\ i \in DOMAIN t[k]

Init ==
  /\ tbl = [k \in {-1, -2, -3} |->
       IF k = -3 THEN BootMap ELSE [i \in {0} |-> k - 1]]
  /\ done = 0 /\ free = PAGING_PAGES

\* Error: an entry of the second table is replaced whether used or not.
NextTableNew(t, k, i, page) == [tbl |-> Put(t, k, i, page), next |-> page, free |-> page]

\* The table below entry i of table k; page is the next free page.
NextTable(t, k, i, page) ==
  IF Has(t, k, i) THEN [tbl |-> t, next |-> t[k][i], free |-> page + 1]
  ELSE [tbl |-> Put(t, k, i, page), next |-> page, free |-> page]

\* Section number s of the flash.
map_kernel_section ==
  /\ done < Sections
  /\ LET a == PFLASH1_VA + done
         pud == NextTable(tbl, -1, Level(a, 2), free - 1)
         pmd == NextTable(pud.tbl, pud.next, Level(a, 1), pud.free - 1)
     IN /\ tbl' = IF Has(pmd.tbl, pmd.next, Level(a, 0)) THEN pmd.tbl
                  ELSE Put(pmd.tbl, pmd.next, Level(a, 0), PFLASH1_PA + done)
        /\ free' = pmd.free
  /\ done' = done + 1

\* The sections are mapped; the end of the image is compared and reported.
init_mm ==
  /\ done = Sections
  /\ done' = done + 1
  /\ UNCHANGED <<tbl, free>>

Next == map_kernel_section \/ init_mm

Spec == Init /\ [][Next]_vars

(***************************************************************************)
(* Properties.                                                             *)
(***************************************************************************)
\* alloc_page hands out pages from the highest down, and the kernel's tables
\* are the three of start.S or pages that were handed out.
TypeOK ==
  /\ done \in 0..(Sections + 1)
  /\ free \in 0..PAGING_PAGES
  /\ DOMAIN tbl \subseteq {-1, -2, -3} \cup free..(PAGING_PAGES - 1)

Mapped(s) ==
  LET e(k, l) == IF k = 0 THEN 0 ELSE IF Has(tbl, k, Level(s, l)) THEN tbl[k][Level(s, l)] ELSE 0
  IN e(e(e(-1, 2), 1), 0)

\* The mapping of the memory stays as start.S made it, and the flash appears
\* where PFLASH1_BASE says, section by section.
KernelMapExact ==
  /\ \A s \in DOMAIN BootMap : Mapped(s) = BootMap[s]
  /\ \A s \in 0..(Sections - 1) :
       Mapped(PFLASH1_VA + s) =
         (IF s < done THEN PFLASH1_PA + s ELSE 0)

\* When the flash is mapped: free_page finds the page of every address that
\* get_free_page may return, and of every address in it; the page is inside
\* the memory the kernel has mapped and does not touch the next page.
PageOfAddress == done = Sections =>
  \A p \in 0..(PAGING_PAGES - 1) :
    LET v == va(pfn_to_pa(p)) IN
    /\ \A o \in {0, 1, PAGE_SIZE - 1} : pa_to_pfn(pa_of(v + o)) = p
    /\ pa_to_pfn(pa_of(v + PAGE_SIZE)) = p + 1
    /\ Mapped(v \div SECTION_SIZE) = pa_of(v) \div SECTION_SIZE

=============================================================================
