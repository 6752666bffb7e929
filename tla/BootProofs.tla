----------------------------- MODULE BootProofs ------------------------------
(***************************************************************************)
(* Memory while the kernel boots, for every page size, memory map, array   *)
(* size and place of the kernel image: bootmem_alloc() never hands out     *)
(* memory twice, and bootmem_mark_free() releases no page that is in use   *)
(* and every other one.                                                    *)
(*                                                                         *)
(* The first two take one hypothesis, about the map: no entry that lies    *)
(* within the image ends with its last page.  The third takes two more, on *)
(* the map and on the alignments asked for.                                *)
(***************************************************************************)
EXTENDS Boot, BootmemProofs

NoMissedEntry ==
  /\ \A r \in Regions : ~MissedEntry(r[1], r[2])
  /\ \A r \in MmapEntries : ~MissedEntry(r[1] % ADDR_LIMIT, r[2] % ADDR_LIMIT)

-----------------------------------------------------------------------------
(* The steps of arch_init() *)

\* The page tables, the page structs and the release of memory.
LEMMA MemoryCallInv ==
  ASSUME IInv, memory_call
  PROVE  IInv'
<1>1. CASE kmap_table
  <2>1. phase = "paging" /\ UNCHANGED <<region_count, highest_pfn, i, first_page, map, freed>>
    BY <1>1 DEF kmap_table
  <2>2. CASE Possible(PAGE_SIZE, PAGE_SIZE)
    <3>1. bootmem_alloc(PAGE_SIZE, PAGE_SIZE) /\ phase' = phase
      BY <1>1, <2>2 DEF kmap_table
    <3>2. QED BY <2>1, <2>2, <3>1, EarlyAllocInv, BootmemConstants, Zenon
  <2>3. CASE ~Possible(PAGE_SIZE, PAGE_SIZE)
    <3>1. phase' = "panic" /\ UNCHANGED <<mem_regions, allocs>>
      BY <1>1, <2>3, Zenon DEF kmap_table
    <3>2. QED BY <2>1, <3>1, MemoryKept, Zenon DEF Early
  <2>4. QED BY <2>2, <2>3
<1>2. CASE ~kmap_table
  BY <1>2, BootmemStepInv DEF memory_call, after_paging
<1>3. QED BY <1>1, <1>2

\* Other users of bootmem_alloc(), and bootmem_reset().
LEMMA TestStepInv ==
  ASSUME IInv, test_step
  PROVE  IInv'
<1>1. CASE other_alloc
  <2>1. PICK q \in Requests : early_alloc(q[1], q[2])
    BY <1>1 DEF other_alloc
  <2>2. q[1] \in Nat \ {0} /\ q[2] \in Nat \ {0}
    BY BootmemConstants
  <2>3. QED BY <2>1, <2>2, EarlyAllocInv, Zenon DEF early_alloc
<1>2. CASE bootmem_reset
  BY <1>2, ResetInv
<1>3. QED BY <1>1, <1>2, Zenon DEF test_step

\* What multiboot_parse() registers of an entry lies within the entry.
LEMMA MmapInv ==
  ASSUME IInv, NoMissedEntry, NEW r \in MmapEntries, mmap_entry(r)
  PROVE  IInv'
<1> DEFINE start == r[1] % ADDR_LIMIT
           end == r[2] % ADDR_LIMIT
<1>1. r \in Nat \X Nat \X Types /\ r[1] \in Nat /\ r[2] \in Nat
  BY BootConstants DEF Types
<1>2. /\ r[1] <= KERNEL_PHYS_END /\ r[3] = AVAILABLE
      /\ register(r, start, end, r[3])
  BY Zenon DEF mmap_entry, Appropriate
<1>3. start = r[1]
  BY <1>1, <1>2, BootmemConstants
<1>4. start \in Nat /\ end \in Nat /\ end <= r[2]
  BY <1>1, BootmemConstants
<1>5. ~MissedEntry(start, end)
  BY Zenon DEF NoMissedEntry
<1>6. r[1] <= start
  BY <1>1, <1>3
<1> HIDE DEF start, end
<1>7. QED BY <1>1, <1>2, <1>4, <1>5, <1>6, RegisterInv

\* Other code registers an entry as it is.
LEMMA AddRegionInv ==
  ASSUME IInv, NoMissedEntry, NEW r \in Regions, add_region(r)
  PROVE  IInv'
<1>1. r \in Nat \X Nat \X Types /\ r[1] \in Nat /\ r[2] \in Nat
  BY BootmemConstants DEF Types
<1>2. register(r, r[1], r[2], r[3]) /\ ~MissedEntry(r[1], r[2])
  BY DEF add_region, NoMissedEntry
<1>3. QED BY <1>1, <1>2, RegisterInv

\* Initially there is no memory.
LEMMA InitInv == Init => IInv
<1> SUFFICES ASSUME Init PROVE IInv
  OBVIOUS
<1>1. /\ mem_regions = [k \in Index |-> Empty] /\ region_count = 0 /\ highest_pfn = 0
      /\ phase = "off" /\ map = {} /\ allocs = {} /\ freed = [p \in {} |-> 0]
  BY DEF Init, BootmemInit
<1>2. MemInv
  BY <1>1, BootmemConstants DEF MemInv, MapInv, RegionsInv, AllocsInv, Empty, Region, Types,
                                Usable
<1>3. ReleaseInv
  BY <1>1 DEF ReleaseInv, Released
<1>4. QED BY <1>2, <1>3, Zenon DEF IInv

\* The terminal, the root file system, the shell and its keys leave memory alone here.
LEMMA LaterStepInv ==
  ASSUME IInv,
         \/ \E magic \in BOOLEAN : power_on(magic)
         \/ \E memory \in BOOLEAN : start_tty(memory) \/ start_root(memory)
         \/ shell_init \/ apple_print \/ key_backspace \/ key_enter \/ key_enter_fstype
         \/ fstype_remove \/ fstype_return
         \/ \E key \in Keys : key_char(key)
         \/ UNCHANGED vars
  PROVE  IInv'
<1>1. UNCHANGED bootmemVars
  BY Zenon DEF power_on, start_tty, start_root, shell_init, apple_print, key_backspace,
     key_enter, key_enter_fstype, fstype_remove, fstype_return, key_char, KeyArrives, vars
<1>2. \/ phase' = phase
      \/ phase = "off"
      \/ phase' \in {"root", "fault", "panic", "shell"}
  BY Zenon DEF power_on, start_tty, start_root, shell_init, apple_print, key_backspace,
     key_enter, key_enter_fstype, fstype_remove, fstype_return, key_char, KeyArrives, vars
<1>3. phase = "off" => phase' \in {"off", "map", "error", "root", "fault", "panic", "shell"}
  BY Zenon DEF power_on, start_tty, start_root, shell_init, apple_print, key_backspace,
     key_enter, key_enter_fstype, fstype_remove, fstype_return, key_char, KeyArrives, vars
<1>4. QED BY <1>1, <1>2, <1>3, MemoryKept, Zenon DEF bootmemVars, Early

\* The invariant is inductive.
LEMMA NextInv ==
  ASSUME NoMissedEntry
  PROVE  IInv /\ [Next]_vars => IInv'
<1> SUFFICES ASSUME IInv, [Next]_vars PROVE IInv'
  OBVIOUS
<1>1. CASE \E r \in MmapEntries : mmap_entry(r)
  BY <1>1, MmapInv
<1>2. CASE \E r \in Regions : add_region(r)
  BY <1>2, AddRegionInv
<1>3. CASE memory_step
  BY <1>3, MemoryCallInv DEF memory_step
<1>4. CASE test_step
  BY <1>4, TestStepInv
<1>5. CASE ~(\E r \in MmapEntries : mmap_entry(r)) /\ ~(\E r \in Regions : add_region(r))
             /\ ~memory_step /\ ~test_step
  BY <1>5, LaterStepInv DEF Next
<1>6. QED BY <1>1, <1>2, <1>3, <1>4, <1>5

\* bootmem_alloc() never hands out memory twice, never memory of the kernel image, and
\* only memory the loader calls available: whatever the map, however many of its entries
\* the image splits or cuts, and with addresses cut to 32 bits.
THEOREM AllocsNeverShared ==
  ASSUME NoMissedEntry
  PROVE  Spec => []AllocsApart
BY InitInv, NextInv, InvAllocsApart, PTL DEF Spec

\* bootmem_mark_free() releases no page of the kernel image or of the page structs and
\* page tables taken from bootmem: the start of a region that was moved by an allocation
\* is rounded up to a page.
THEOREM InUseNeverReleased ==
  ASSUME NoMissedEntry
  PROVE  Spec => []InUseNotReleased
BY InitInv, NextInv, InvInUseNotReleased, PTL DEF Spec

-----------------------------------------------------------------------------
(* All that the map offers is kept *)

\* No entry of a map starts at address 0, which marks a vacant entry of the array
NoEntryAtZero == \A r \in Regions \cup MmapEntries : r[1] # 0

\* No alignment is larger than a page: paging_init() asks for that of a page, and
\* buddy_init() for none
PageAligned == \A q \in Requests : q[2] <= PAGE_SIZE

\* Initially it offers nothing.
LEMMA InitKept == Init => KeptInv
<1> SUFFICES ASSUME Init PROVE KeptInv
  OBVIOUS
<1>1. /\ mem_regions = [k \in Index |-> Empty] /\ region_count = 0 /\ highest_pfn = 0
      /\ phase = "off" /\ map = {} /\ freed = [p \in {} |-> 0]
  BY DEF Init, BootmemInit
<1>2. ProgressInv
  BY <1>1, Zenon DEF ProgressInv
<1>3. QED BY <1>1, <1>2, EmptyKept DEF KeptInv

\* The page tables, the page structs and the release of memory.
LEMMA MemoryCallKeeps ==
  ASSUME IInv, KeptInv, memory_call
  PROVE  KeptInv'
<1>1. CASE kmap_table
  <2>1. phase = "paging" /\ UNCHANGED <<region_count, highest_pfn, i, first_page, map, freed>>
    BY <1>1, Zenon DEF kmap_table
  <2>2. CASE Possible(PAGE_SIZE, PAGE_SIZE)
    <3>1. bootmem_alloc(PAGE_SIZE, PAGE_SIZE) /\ phase' = phase
      BY <1>1, <2>2, Zenon DEF kmap_table
    <3>2. PAGE_SIZE <= PAGE_SIZE
      BY BootmemConstants
    <3>3. QED BY <2>1, <2>2, <3>1, <3>2, EarlyAllocKeeps, BootmemConstants, Zenon
  <2>3. CASE ~Possible(PAGE_SIZE, PAGE_SIZE)
    <3>1. phase' = "panic" /\ UNCHANGED <<mem_regions, allocs>>
      BY <1>1, <2>3, Zenon DEF kmap_table
    <3>2. QED BY <2>1, <3>1, AllKept
  <2>4. QED BY <2>2, <2>3
<1>2. CASE ~kmap_table
  BY <1>2, BootmemStepKeeps, Zenon DEF memory_call, after_paging
<1>3. QED BY <1>1, <1>2

\* Other users of bootmem_alloc(), and bootmem_reset().
LEMMA TestStepKeeps ==
  ASSUME IInv, KeptInv, PageAligned, test_step
  PROVE  KeptInv'
<1>1. CASE other_alloc
  <2>1. PICK q \in Requests : early_alloc(q[1], q[2])
    BY <1>1 DEF other_alloc
  <2>2. q[1] \in Nat \ {0} /\ q[2] \in Nat \ {0} /\ q[2] <= PAGE_SIZE
    BY BootmemConstants, Zenon DEF PageAligned
  <2>3. QED BY <2>1, <2>2, EarlyAllocKeeps, Zenon DEF early_alloc
<1>2. CASE bootmem_reset
  BY <1>2, ResetKeeps, Zenon
<1>3. QED BY <1>1, <1>2 DEF test_step

\* multiboot_parse() registers all of an entry that ends below 2^32.
LEMMA MmapKeeps ==
  ASSUME IInv, KeptInv, NoEntryAtZero, NEW r \in MmapEntries, mmap_entry(r)
  PROVE  KeptInv'
<1> DEFINE end == r[2] % ADDR_LIMIT
<1>1. r \in Nat \X Nat \X Types /\ r[1] \in Nat /\ r[2] \in Nat
  BY BootConstants DEF Types
<1>2. /\ r[1] <= KERNEL_PHYS_END /\ r[3] = AVAILABLE
      /\ register(r, r[1] % ADDR_LIMIT, end, r[3])
  BY Zenon DEF mmap_entry, Appropriate
<1>3. r[1] % ADDR_LIMIT = r[1]
  BY <1>1, <1>2, BootmemConstants
<1>4. end \in Nat /\ (r[2] < ADDR_LIMIT => end = r[2])
  BY <1>1, BootmemConstants
<1>5. r[1] # 0
  BY Zenon DEF NoEntryAtZero
<1> HIDE DEF end
<1>6. QED BY <1>1, <1>2, <1>3, <1>4, <1>5, RegisterKeeps

\* Other code registers an entry as it is.
LEMMA AddRegionKeeps ==
  ASSUME IInv, KeptInv, NoEntryAtZero, NEW r \in Regions, add_region(r)
  PROVE  KeptInv'
<1>1. r \in Nat \X Nat \X Types /\ r[2] \in Nat /\ r[1] # 0
  BY BootmemConstants DEF Types, NoEntryAtZero
<1>2. register(r, r[1], r[2], r[3])
  BY Zenon DEF add_region
<1>3. QED BY <1>1, <1>2, RegisterKeeps, Zenon

\* The terminal, the root file system, the shell and its keys leave memory alone here.
LEMMA LaterStepKeeps ==
  ASSUME KeptInv,
         \/ \E magic \in BOOLEAN : power_on(magic)
         \/ \E memory \in BOOLEAN : start_tty(memory) \/ start_root(memory)
         \/ shell_init \/ apple_print \/ key_backspace \/ key_enter \/ key_enter_fstype
         \/ fstype_remove \/ fstype_return
         \/ \E key \in Keys : key_char(key)
         \/ UNCHANGED vars
  PROVE  KeptInv'
<1>1. UNCHANGED bootmemVars
  BY Zenon DEF power_on, start_tty, start_root, shell_init, apple_print, key_backspace,
     key_enter, key_enter_fstype, fstype_remove, fstype_return, key_char, KeyArrives, vars
<1>2. phase' = phase \/ phase' \in {"map", "error", "root", "fault", "panic", "shell"}
  BY Zenon DEF power_on, start_tty, start_root, shell_init, apple_print, key_backspace,
     key_enter, key_enter_fstype, fstype_remove, fstype_return, key_char, KeyArrives, vars
<1>3. QED BY <1>1, <1>2, AllKept, Zenon DEF bootmemVars

\* It stays kept.
LEMMA NextKept ==
  ASSUME NoEntryAtZero, PageAligned
  PROVE  IInv /\ KeptInv /\ [Next]_vars => KeptInv'
<1> SUFFICES ASSUME IInv, KeptInv, [Next]_vars PROVE KeptInv'
  OBVIOUS
<1>1. CASE \E r \in MmapEntries : mmap_entry(r)
  BY <1>1, MmapKeeps
<1>2. CASE \E r \in Regions : add_region(r)
  BY <1>2, AddRegionKeeps
<1>3. CASE memory_step
  BY <1>3, MemoryCallKeeps DEF memory_step
<1>4. CASE test_step
  BY <1>4, TestStepKeeps
<1>5. CASE ~(\E r \in MmapEntries : mmap_entry(r)) /\ ~(\E r \in Regions : add_region(r))
             /\ ~memory_step /\ ~test_step
  BY <1>5, LaterStepKeeps, Zenon DEF Next
<1>6. QED BY <1>1, <1>2, <1>3, <1>4, <1>5

\* "preserve the other areas": in the end every page of the map that neither the kernel
\* nor bootmem uses has been released, exactly once, and it has a page struct; however
\* the regions lie to the kernel, and whatever was taken from them before.  An entry at
\* address 0 would be overwritten by the next one, and an alignment of several pages
\* would lose the pages it passes over.
THEOREM OtherAreasAlwaysPreserved ==
  ASSUME NoMissedEntry, NoEntryAtZero, PageAligned
  PROVE  Spec => []OtherAreasPreserved
<1>1. Init => IInv /\ KeptInv
  BY InitInv, InitKept
<1>2. IInv /\ KeptInv /\ [Next]_vars => (IInv /\ KeptInv)'
  BY NextInv, NextKept
<1>3. QED BY <1>1, <1>2, InvOtherAreas, PTL DEF Spec

=============================================================================
