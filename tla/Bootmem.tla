------------------------------- MODULE Bootmem -------------------------------
(***************************************************************************)
(* The boot memory allocator, kernel/mm/bootmem.c, and the order in which  *)
(* arch_init() uses it: regions are registered while the boot loader's     *)
(* memory map is parsed, the page tables and then the page structs are     *)
(* taken from bootmem, and bootmem_mark_free() releases what is left, page *)
(* by page.                                                                *)
(*                                                                         *)
(* Addresses count units of memory; a page has PAGE_SIZE units.            *)
(***************************************************************************)
EXTENDS Integers, FiniteSets, FiniteSetsExt

CONSTANTS
  PAGE_SIZE,
  ADDR_LIMIT,   \* one past the last physical address: 2^32
  MAX_MEM_REGIONS,
  KERNEL_PHYS_START, KERNEL_PHYS_END,  \* the kernel image
  StructSize,   \* sizeof(struct page)
  Regions,      \* the memory maps: <<start, end, type>> that may be registered
  MaxEntries,   \* bound: entries of a memory map
  Requests,     \* <<size, alignment>> of calls of bootmem_alloc()
  MaxAllocs     \* bound: such calls

RESERVED  == 0
AVAILABLE == 1

Index == 1 .. MAX_MEM_REGIONS

ASSUME BootmemConstants ==
  /\ PAGE_SIZE \in Nat \ {0}
  /\ MAX_MEM_REGIONS \in Nat \ {0}
  /\ StructSize \in Nat \ {0}
  /\ KERNEL_PHYS_START \in Nat /\ KERNEL_PHYS_START % PAGE_SIZE = 0
  /\ KERNEL_PHYS_END \in Nat /\ KERNEL_PHYS_START < KERNEL_PHYS_END
  /\ ADDR_LIMIT \in Nat /\ KERNEL_PHYS_END < ADDR_LIMIT
  /\ Regions \subseteq Nat \X Nat \X {RESERVED, AVAILABLE}
  /\ Requests \subseteq (Nat \ {0}) \X (Nat \ {0})
  /\ MaxEntries \in Nat /\ MaxAllocs \in Nat

VARIABLES
  mem_regions,   \* the array, each entry [start, end, type]
  region_count,
  highest_pfn,
  phase,         \* how far arch_init() is
  i, first_page, \* the loops of bootmem_mark_free()
  map,           \* the entries of the memory map registered so far
  allocs,        \* memory handed out: a set of <<start, end>>
  freed          \* per page frame: how often page_initial_free() was called

bootmemVars == <<mem_regions, region_count, highest_pfn, i, first_page, map, allocs,
                 freed>>

-----------------------------------------------------------------------------
(* Address arithmetic *)

ALIGN(a, n) == ((a + n - 1) \div n) * n
ALIGN_DOWN(a, n) == (a \div n) * n

PAGE_ALIGN(a) == ALIGN(a, PAGE_SIZE)
PAGE_ALIGN_DOWN(a) == ALIGN_DOWN(a, PAGE_SIZE)
PA_TO_PFN(a) == a \div PAGE_SIZE

kernel_start == PAGE_ALIGN(KERNEL_PHYS_START)
kernel_end   == PAGE_ALIGN(KERNEL_PHYS_END)

Empty == [start |-> 0, end |-> 0, type |-> RESERVED]

BootmemInit ==
  /\ mem_regions = [k \in Index |-> Empty]
  /\ region_count = 0
  /\ highest_pfn = 0
  /\ i = 1
  /\ first_page = 0
  /\ map = {}
  /\ allocs = {}
  /\ freed = [p \in {} |-> 0]

-----------------------------------------------------------------------------
(* bootmem_add_mem_region() *)

\* Mutant: the room in the array is not checked again
StoreUnchecked(b, s, e, t) ==
  LET vacant == {k \in Index : b.regions[k].start = 0}
      high   == Max({b.highest, PA_TO_PFN(e)})
  IN
  IF vacant = {} THEN [b EXCEPT !.count = @ + 1, !.highest = high]
  ELSE [b EXCEPT !.regions[Min(vacant)] = [start |-> s, end |-> e, type |-> t],
                 !.count = @ + 1, !.highest = high]

\* Record a region that lies clear of the kernel.  An entry that starts at
\* address 0 counts as vacant; a full array is an error.
Store(b, s, e, t) ==
  LET vacant == {k \in Index : b.regions[k].start = 0}
      high   == Max({b.highest, PA_TO_PFN(e)})
  IN
  IF b.count = MAX_MEM_REGIONS THEN b
  ELSE IF vacant = {} THEN [b EXCEPT !.highest = high]
  ELSE [b EXCEPT !.regions[Min(vacant)] = [start |-> s, end |-> e, type |-> t],
                 !.count = @ + 1, !.highest = high]

Surrounds(s, e)    == s < kernel_start /\ e > kernel_end
OverlapsHead(s, e) == s < kernel_start /\ e > kernel_start
OverlapsTail(s, e) == s < kernel_end /\ e > kernel_end

\* Mutant: a region around the kernel is cut, and what lies behind it dropped
AddCuts(b, s, e, t) ==
  CASE Surrounds(s, e)    -> Store(b, s, kernel_start, t)
    [] OverlapsHead(s, e) /\ ~Surrounds(s, e) -> Store(b, s, kernel_start, t)
    [] OverlapsTail(s, e) /\ s >= kernel_start -> Store(b, kernel_end, e, t)
    [] OTHER -> Store(b, s, e, t)

\* Mutant: a region that begins in the kernel is not adjusted
AddKeepsTail(b, s, e, t) ==
  CASE Surrounds(s, e)    ->
         Store(Store(b, s, kernel_start, t), kernel_end, e, t)
    [] OverlapsHead(s, e) /\ ~Surrounds(s, e) -> Store(b, s, kernel_start, t)
    [] OTHER -> Store(b, s, e, t)

\* Keep clear of the kernel: split the region, cut its end or its beginning.  The
\* recursive calls of the split get regions that need no adjustment, and their
\* results are ignored.
Adjust(b, s, e, t) ==
  CASE Surrounds(s, e)    ->
         Store(Store(b, s, kernel_start, t), kernel_end, e, t)
    [] OverlapsHead(s, e) /\ ~Surrounds(s, e) -> Store(b, s, kernel_start, t)
    [] OverlapsTail(s, e) /\ s >= kernel_start -> Store(b, kernel_end, e, t)
    [] OTHER -> Store(b, s, e, t)

\* The region cannot be used: no room in the array, in the kernel, empty or
\* upside down
Refused(b, s, e) ==
  \/ b.count = MAX_MEM_REGIONS
  \/ s >= kernel_start /\ e < kernel_end
  \/ e - s < PAGE_SIZE

\* The code takes a region that lies within the image and ends with its last page
\* for one that does not touch the image
MissedEntry(s, e) ==
  PAGE_ALIGN(s) >= kernel_start /\ PAGE_ALIGN_DOWN(e) = kernel_end

\* The entries of a memory map do not overlap
Apart(r, q) == r[2] <= q[1] \/ q[2] <= r[1]

\* The boundaries are aligned inwards first
bootmem_add_mem_region(start, end, type) ==
  LET s == PAGE_ALIGN(start)
      e == PAGE_ALIGN_DOWN(end)
      b == [regions |-> mem_regions, count |-> region_count, highest |-> highest_pfn]
      n == IF Refused(b, s, e) THEN b ELSE Adjust(b, s, e, type)
  IN
  /\ mem_regions' = n.regions
  /\ region_count' = n.count
  /\ highest_pfn' = n.highest

\* An entry of the memory map is registered
register(r, start, end, type) ==
  /\ phase = "map"
  /\ Cardinality(map) < MaxEntries
  /\ \A q \in map : Apart(r, q)
  /\ map' = map \cup {r}
  /\ bootmem_add_mem_region(start, end, type)
  /\ UNCHANGED <<phase, i, first_page, allocs, freed>>

-----------------------------------------------------------------------------
(* bootmem_alloc() *)

\* Mutant: the region still begins where it began
TakeKeepsStart(k, start, size) == mem_regions

\* Region k can satisfy the request
Fits(k, size, alignment) ==
  LET start == ALIGN(mem_regions[k].start, alignment) IN
  /\ mem_regions[k].type = AVAILABLE
  /\ start < mem_regions[k].end
  /\ mem_regions[k].end - start >= size

\* The array once [start, start + size) is taken off the front of region k
Take(k, start, size) == [mem_regions EXCEPT ![k].start = start + size]

\* From the first region that fits
bootmem_alloc(size, alignment) ==
  LET k     == Min({j \in Index : Fits(j, size, alignment)})
      start == ALIGN(mem_regions[k].start, alignment)
  IN
  /\ mem_regions' = Take(k, start, size)
  /\ allocs' = allocs \cup {<<start, start + size>>}

Possible(size, alignment) == \E k \in Index : Fits(k, size, alignment)

\* Any user of bootmem_alloc() before buddy_init()
early_alloc(size, alignment) ==
  /\ phase = "paging"
  /\ Cardinality(allocs) < MaxAllocs
  /\ Possible(size, alignment)
  /\ bootmem_alloc(size, alignment)
  /\ UNCHANGED <<region_count, highest_pfn, phase, i, first_page, map, freed>>

paging_start ==
  /\ phase = "map"
  /\ phase' = "paging"
  /\ UNCHANGED bootmemVars

\* buddy_init(): the page structs, one for each frame up to highest_pfn; the
\* kernel panics when no region has room for them, or when there is none at all.
buddy_init ==
  /\ phase = "paging"
  /\ IF highest_pfn > 0 /\ Possible(highest_pfn * StructSize, 1)
       THEN /\ bootmem_alloc(highest_pfn * StructSize, 1)
            /\ phase' = "alloc"
            /\ freed' = [p \in 0 .. highest_pfn - 1 |-> 0]
       ELSE /\ phase' = "panic"
            /\ UNCHANGED <<mem_regions, allocs, freed>>
  /\ UNCHANGED <<region_count, highest_pfn, i, first_page, map>>

-----------------------------------------------------------------------------
(* bootmem_mark_free() *)

\* Enter the loop over the pages of region k, or pass over a vacant entry
EnterRegion(k) ==
  first_page' = IF k \in Index THEN PAGE_ALIGN(mem_regions[k].start) ELSE 0

mark_free_start ==
  /\ phase = "alloc"
  /\ phase' = "free"
  /\ i' = 1
  /\ EnterRegion(1)
  /\ UNCHANGED <<mem_regions, region_count, highest_pfn, map, allocs, freed>>

end_page(k) == PAGE_ALIGN_DOWN(mem_regions[k].end)

InRegion ==
  mem_regions[i].start # 0 /\ first_page < end_page(i)

\* Clear PF_INVALID and page_initial_free(): the type of the region is not
\* looked at
mark_free_page ==
  /\ phase = "free"
  /\ i <= region_count
  /\ InRegion
  /\ freed' = [p \in DOMAIN freed \cup {PA_TO_PFN(first_page)} |->
                 (IF p \in DOMAIN freed THEN freed[p] ELSE 0)
                 + (IF p = PA_TO_PFN(first_page) THEN 1 ELSE 0)]
  /\ first_page' = first_page + PAGE_SIZE
  /\ UNCHANGED <<mem_regions, region_count, highest_pfn, phase, i, map, allocs>>

\* Mutant: the entry is passed over without counting on
SkipStays ==
  /\ phase = "free"
  /\ i <= region_count
  /\ ~InRegion
  /\ UNCHANGED <<bootmemVars, phase>>

mark_free_next ==
  /\ phase = "free"
  /\ i <= region_count
  /\ ~InRegion
  /\ i' = i + 1
  /\ EnterRegion(i + 1)
  /\ UNCHANGED <<mem_regions, region_count, highest_pfn, phase, map, allocs, freed>>

mark_free_done ==
  /\ phase = "free"
  /\ i > region_count
  /\ phase' = "done"
  /\ UNCHANGED <<mem_regions, region_count, highest_pfn, i, first_page, map, allocs,
                 freed>>

\* bootmem_reset(): the tests start over
bootmem_reset ==
  /\ phase = "done"
  /\ mem_regions' = [k \in Index |-> Empty]
  /\ region_count' = 0
  /\ highest_pfn' = 0
  /\ phase' = "map"
  /\ i' = 1
  /\ first_page' = 0
  /\ map' = {}
  /\ allocs' = {}
  /\ freed' = [p \in {} |-> 0]

-----------------------------------------------------------------------------
(* Properties *)

\* the addresses of a page frame
PageUnits(p) == p * PAGE_SIZE .. (p + 1) * PAGE_SIZE - 1

Released == {p \in DOMAIN freed : freed[p] > 0}

\* Every variable has the type of the C object it stands for.
BootmemTypeOK ==
  /\ mem_regions \in [Index -> [start : Nat, end : Nat, type : {RESERVED, AVAILABLE}]]
  /\ region_count \in 0 .. MAX_MEM_REGIONS
  /\ highest_pfn \in Nat
  /\ i \in 1 .. MAX_MEM_REGIONS + 1
  /\ first_page \in Nat
  /\ map \subseteq Nat \X Nat \X {RESERVED, AVAILABLE}
  /\ \A a \in allocs : a \in Nat \X Nat
  /\ \A p \in DOMAIN freed : p \in Nat /\ freed[p] \in Nat

\* No page that holds a part of the kernel image, and no page that holds memory
\* handed out by bootmem_alloc() (the page structs above all), is released.
InUseNotReleased ==
  \A p \in Released :
    /\ PageUnits(p) \cap (KERNEL_PHYS_START .. KERNEL_PHYS_END - 1) = {}
    /\ \A a \in allocs : PageUnits(p) \cap (a[1] .. a[2] - 1) = {}

\* bootmem_alloc() hands out memory once, all of it AVAILABLE and outside the
\* kernel.
AllocsApart ==
  \A a \in allocs :
    /\ \A b \in allocs : a # b => a[2] <= b[1] \/ b[2] <= a[1]
    /\ a[2] <= KERNEL_PHYS_START \/ KERNEL_PHYS_END <= a[1]
    /\ \E r \in map : r[3] = AVAILABLE /\ r[1] <= a[1] /\ a[2] <= r[2]

\* "regions containing kernel code are adjusted to avoid the kernel code region,
\* but preserve the other areas": in the end every page of an entry of the memory
\* map that neither the kernel nor bootmem uses has been released, if the array
\* was large enough and the entry ends below 2^32.  Nothing is released twice,
\* and only pages that have a page struct: page_from_pfn() does not check its
\* argument.
OtherAreasPreserved ==
  /\ \A p \in DOMAIN freed : freed[p] <= 1 /\ (freed[p] = 1 => p < highest_pfn)
  /\ phase = "done" /\ region_count < MAX_MEM_REGIONS =>
       \A r \in map : r[2] < ADDR_LIMIT =>
         \A p \in PA_TO_PFN(PAGE_ALIGN(r[1])) .. PA_TO_PFN(r[2]) - 1 :
           \/ p \in Released
           \/ p \in PA_TO_PFN(kernel_start) .. PA_TO_PFN(kernel_end) - 1
           \/ \E a \in allocs : PageUnits(p) \cap (a[1] .. a[2] - 1) # {}

=============================================================================
