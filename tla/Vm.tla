--------------------------------- MODULE Vm ---------------------------------
(***************************************************************************)
(* Page tables and address spaces: kernel/mm/ptable.c, kernel/mm/vm.c and  *)
(* the page fault handler of arch/x86/kernel/paging.c, on the use counts   *)
(* of the page allocator.                                                  *)
(*                                                                         *)
(* A virtual address is the number of its page.                            *)
(* Operations are atomic: the fault handler and shell commands run with    *)
(* interrupts off, and every other caller works on a space of its own.     *)
(* Only the low pde_max entries of a directory belong to the space, the    *)
(* rest are the kernel's.                                                  *)
(*                                                                         *)
(* The code uses the result of page_alloc() unchecked in several places.   *)
(* A NULL there is dereferenced with interrupts off: the fault handler     *)
(* finds no mapping and returns to the same instruction for ever (halted). *)
(***************************************************************************)
EXTENDS Integers, Sequences, FiniteSets, Functions

CONSTANTS
  Space,            \* the places in kernel memory for a struct vm_space
  Map,              \* the places for a struct vm_map
  Frame,            \* the frames of the page allocator
  Kernel,           \* a frame of the kernel, target of its directory entries
  pde_max,          \* PAGE_DIRECTORY_INDEX(KERNEL_START_VIRT)
  PAGE_DIR_SIZE,
  PAGE_TABLE_SIZE,
  Touched,          \* the pages that tasks access and callers map and unmap
  Ranges,           \* <<start_addr, end_addr>> of the mappings callers make
  Copies,           \* start and end of the ranges callers copy
  User,             \* spaces of TASK_USERMODE tasks, whose writes obey PTEs
  Flags,            \* the VM_MAP_WRITE bit in the flags that callers pass
  CopyNew,          \* whether ptable_copy_range() may meet missing tables
  Fresh,            \* what a frame may hold that was not cleared, as a table
  Pool(_, _),       \* Pool(F, n): which n frames page_alloc() may take of F
  MaxUses,          \* bound: users of a frame
  MaxHeld,          \* bound: frames that callers hold
  None              \* an entry that is not present; no directory

Pde   == 0 .. PAGE_DIR_SIZE - 1
Pte   == 0 .. PAGE_TABLE_SIZE - 1
VPage == 0 .. pde_max * PAGE_TABLE_SIZE - 1

\* An entry: the frame and the writable bit
Entry == [frame : Frame, writable : BOOLEAN] \cup {None}

ASSUME VmConstants ==
  /\ IsFiniteSet(Space) /\ IsFiniteSet(Map)
  /\ IsFiniteSet(Frame) /\ Kernel \notin Frame
  /\ PAGE_DIR_SIZE \in Nat /\ pde_max \in 0 .. PAGE_DIR_SIZE - 1
  /\ PAGE_TABLE_SIZE \in Nat \ {0}
  /\ Touched \subseteq VPage
  /\ Ranges \subseteq Nat \X Nat
  /\ Copies \subseteq VPage \X VPage
  /\ User \subseteq Space
  /\ Flags \subseteq BOOLEAN
  /\ CopyNew \in BOOLEAN
  /\ Fresh \subseteq [Pte -> Entry] /\ Fresh # {}
  /\ MaxUses \in Nat \ {0} /\ MaxHeld \in Nat
  /\ None \notin Frame \cup {Kernel} \cup [frame : Frame, writable : BOOLEAN]
  /\ \A F \in SUBSET Frame, n \in 0 .. PAGE_DIR_SIZE * PAGE_TABLE_SIZE :
       /\ \A P \in Pool(F, n) : P \subseteq F /\ Cardinality(P) = n
       /\ n <= Cardinality(F) <=> Pool(F, n) # {}

VARIABLES
  use_count,  \* page->use_count of each frame; 0: free
  pgd,        \* space->pgd: the frame of the directory; None: no such space
  dir,        \* the directory of each space: frames of tables, or None
  table,      \* the contents of the frames that are used as tables
  maps,       \* vm_map structs allocated
  range,      \* start_addr and end_addr of each
  mappings,   \* space->mappings, as a set
  held,       \* callers: their own references to a frame
  halted      \* a NULL page was dereferenced

vars == <<use_count, pgd, dir, table, maps, range, mappings, held, halted>>

-----------------------------------------------------------------------------
(* arch/ptable.h *)

PAGE_DIRECTORY_INDEX(va) == va \div PAGE_TABLE_SIZE
PAGE_TABLE_INDEX(va) == va % PAGE_TABLE_SIZE

MAKE_PTE(f, w) == [frame |-> f, writable |-> w]

\* paging_setup_kernel_pgd(): only the kernel's part is filled
kernel_pgd == [d \in Pde |-> IF d < pde_max THEN None ELSE Kernel]

\* memset(table, 0, PAGE_SIZE)
Cleared == [i \in Pte |-> None]

Spaces == {s \in Space : pgd[s] # None}

Free == {f \in Frame : use_count[f] = 0}

\* ptable_get_pte(): the entry for va, None also when there is no table
ptable_get_pte(s, va) ==
  LET t == dir[s][PAGE_DIRECTORY_INDEX(va)]
  IN IF t = None THEN None ELSE table[t][PAGE_TABLE_INDEX(va)]

\* The frame that va translates to
Translation(s, va) ==
  LET e == ptable_get_pte(s, va) IN IF e = None THEN None ELSE e.frame

\* References to frame f from the page table of s: page table entries and
\* directory entries below d, and the directory itself
Refs(s, f, d) ==
  (IF pgd[s] = f THEN 1 ELSE 0)
  + Cardinality({i \in Pde : i < d /\ dir[s][i] = f})
  + Cardinality({va \in VPage : Translation(s, va) = f})

-----------------------------------------------------------------------------

Init ==
  /\ use_count = [f \in Frame \cup {Kernel} |-> IF f = Kernel THEN 1 ELSE 0]
  /\ pgd = [s \in Space |-> None]
  /\ dir = [s \in Space |-> kernel_pgd]
  /\ table = [f \in Frame |-> Cleared]
  /\ maps = {}
  /\ range = [m \in Map |-> <<0, 0>>]
  /\ mappings = [s \in Space |-> {}]
  /\ held = [f \in Frame |-> 0]
  /\ halted = FALSE

Halt ==
  /\ halted' = TRUE
  /\ UNCHANGED <<use_count, pgd, dir, table, maps, range, mappings, held>>

\* page_alloc(0, PR_KERNEL) of every frame in F
Taken(F) == [f \in DOMAIN use_count |-> IF f \in F THEN 1 ELSE use_count[f]]

\* In space s the tables t (a function from directory indices) are linked, with
\* the contents new, and then the entries E (a function from pages) are stored.
Store(s, t, new, E) ==
  LET d == [i \in Pde |-> IF i \in DOMAIN t THEN t[i] ELSE dir[s][i]]
      old(f) == IF f \in Range(t) THEN new ELSE table[f]
      At(f, j) == {va \in DOMAIN E : /\ d[PAGE_DIRECTORY_INDEX(va)] = f
                                     /\ PAGE_TABLE_INDEX(va) = j}
  IN
  /\ dir' = [dir EXCEPT ![s] = d]
  /\ table' = [f \in Frame |->
       IF \A i \in Pde : d[i] # f THEN old(f)
       ELSE [j \in Pte |-> IF At(f, j) = {} THEN old(f)[j]
                           ELSE E[CHOOSE va \in At(f, j) : TRUE]]]

\* The directory entries that storing to the pages V finds missing
Missing(s, V) == {PAGE_DIRECTORY_INDEX(va) : va \in V} \cap {i \in Pde : dir[s][i] = None}

\* Different free frames, outside F, for the members of S
Allocations(S, F) ==
  UNION {Bijection(S, P) : P \in Pool(Free \ F, Cardinality(S))}

-----------------------------------------------------------------------------
(* vm_space_new(), vm_space_destroy() *)

\* Mutant: the kernel's directory is not copied
NewPgdEmpty == [d \in Pde |-> None]

\* memset() and memcpy() of ptable_pgd_new()
ptable_pgd_new == kernel_pgd

vm_space_new(s) ==
  /\ ~halted
  /\ pgd[s] = None
  /\ \/ \E f \in UNION Pool(Free, 1) :
          /\ pgd' = [pgd EXCEPT ![s] = f]
          /\ use_count' = Taken({f})
          /\ dir' = [dir EXCEPT ![s] = ptable_pgd_new]
          /\ UNCHANGED <<table, maps, range, mappings, held, halted>>
     \/ Free = {} /\ Halt

\* page_free() of every page of every table, of the tables, of the directory.
\* What the freed frames hold does not matter any more (see Fresh).
ptable_pgd_free(s) ==
  /\ use_count' = [f \in DOMAIN use_count |-> use_count[f] - Refs(s, f, pde_max)]
  /\ pgd' = [pgd EXCEPT ![s] = None]
  /\ dir' = [dir EXCEPT ![s] = kernel_pgd]
  /\ table' = [f \in Frame |-> IF \E i \in Pde : dir[s][i] = f THEN Cleared ELSE table[f]]

\* The vm_map structs of the space are not freed.
vm_space_destroy(s) ==
  /\ ~halted
  /\ s \in Spaces
  /\ ptable_pgd_free(s)
  /\ mappings' = [mappings EXCEPT ![s] = {}]
  /\ UNCHANGED <<maps, range, held, halted>>

-----------------------------------------------------------------------------
(* Mappings.  The caller sets the range of a new one. *)

vm_map_new(m) ==
  /\ ~halted
  /\ m \notin maps
  /\ \E r \in Ranges : range' = [range EXCEPT ![m] = r]
  /\ maps' = maps \cup {m}
  /\ UNCHANGED <<use_count, pgd, dir, table, mappings, held, halted>>

vm_map_destroy(m) ==
  /\ ~halted
  /\ m \in maps
  /\ \A s \in Space : m \notin mappings[s]
  /\ maps' = maps \ {m}
  /\ range' = [range EXCEPT ![m] = <<0, 0>>]
  /\ UNCHANGED <<use_count, pgd, dir, table, mappings, held, halted>>

vm_space_add_map(s, m) ==
  /\ ~halted
  /\ s \in Spaces /\ m \in maps
  /\ \A r \in Space : m \notin mappings[r]
  /\ mappings' = [mappings EXCEPT ![s] = @ \cup {m}]
  /\ UNCHANGED <<use_count, pgd, dir, table, maps, range, held, halted>>

\* Pages that were brought in stay in the page table.
vm_space_delete_map(s, m) ==
  /\ ~halted
  /\ m \in mappings[s]
  /\ mappings' = [mappings EXCEPT ![s] = @ \ {m}]
  /\ UNCHANGED <<use_count, pgd, dir, table, maps, range, held, halted>>

-----------------------------------------------------------------------------
(* ptable_map(), ptable_unmap() *)

\* Mutant: a new table is not cleared
TableUncleared(s, E, F, H) ==
  LET need == Missing(s, DOMAIN E) IN
  \/ \E t \in Allocations(need, F), junk \in Fresh :
       /\ use_count' = Taken(F \cup Range(t))
       /\ Store(s, t, junk, E)
       /\ held' = H
       /\ UNCHANGED <<pgd, maps, range, mappings, halted>>
  \/ Cardinality(need) > Cardinality(Free \ F) /\ Halt

\* ptable_map() of every page in the domain of E to its entry: missing tables are
\* allocated and cleared.  F are the frames the caller has just allocated, H its
\* references afterwards.
ptable_map(s, E, F, H) ==
  LET need == Missing(s, DOMAIN E) IN
  \/ \E t \in Allocations(need, F) :
       /\ use_count' = Taken(F \cup Range(t))
       /\ Store(s, t, Cleared, E)
       /\ held' = H
       /\ UNCHANGED <<pgd, maps, range, mappings, halted>>
  \/ Cardinality(need) > Cardinality(Free \ F) /\ Halt

Covered(s, va) == \E m \in mappings[s] : range[m][1] <= va /\ va < range[m][2]

\* The access faults: no translation, or a write of a user task to a page
\* without the writable bit (CR0.WP is clear, so the kernel's own writes pass)
Faults(s, va) ==
  LET e == ptable_get_pte(s, va) IN
  IF e = None THEN TRUE ELSE s \in User /\ ~e.writable

\* vm_space_page_fault() and vm_space_map_page(), whose flags are 0.  Without a
\* mapping, or without a free page, E_ERROR changes nothing.
vm_space_page_fault(s, va) ==
  /\ ~halted
  /\ s \in Spaces
  /\ Faults(s, va)
  /\ Covered(s, va)
  /\ \E f \in UNION Pool(Free, 1) :
       ptable_map(s, [v \in {va} |-> MAKE_PTE(f, FALSE)], {f}, held)

\* A caller maps frames of its own, the sequence fs, at pages without a
\* translation.  In the code the frames follow each other in memory.
ptable_map_many(s, va, fs, w) ==
  LET V == va .. va + Len(fs) - 1 IN
  /\ ~halted
  /\ s \in Spaces
  /\ V \subseteq Touched
  /\ \A v \in V : ptable_get_pte(s, v) = None
  /\ ptable_map(s, [v \in V |-> MAKE_PTE(fs[v - va + 1], w)], {},
       [g \in Frame |-> IF g \in Range(fs) THEN held[g] - 1 ELSE held[g]])

\* Mutant: the entry keeps its frame
UnmapKeepsEntry(s, V) == UNCHANGED <<dir, table>>

\* pte->address = 0, pte->present = 0
ClearEntries(s, V) == Store(s, <<>>, Cleared, [v \in V |-> None])

\* Pages without a table are skipped.  Callers that ask for the pages to be freed
\* pass addresses that are mapped: for another one, page 0 would be freed.
ptable_unmap_many(s, va, count, free) ==
  LET V == {v \in va .. va + count - 1 : dir[s][PAGE_DIRECTORY_INDEX(v)] # None}
      n(f) == Cardinality({v \in V : Translation(s, v) = f})
  IN
  /\ ~halted
  /\ s \in Spaces
  /\ va .. va + count - 1 \subseteq Touched
  /\ free => \A v \in V : Translation(s, v) # None
  /\ ClearEntries(s, V)
  /\ IF free
       THEN /\ use_count' = [f \in DOMAIN use_count |-> use_count[f] - n(f)]
            /\ UNCHANGED held
       ELSE /\ held' = [f \in Frame |-> held[f] + n(f)]
            /\ Cardinality({f \in Frame : held'[f] > 0}) <= MaxHeld
            /\ UNCHANGED use_count
  /\ UNCHANGED <<pgd, maps, range, mappings, halted>>

-----------------------------------------------------------------------------
(* ptable_copy_range() *)

\* The pages the loops visit: from the first index in the first table, up to the
\* last one in the last table, unless that is also the first.
Visited(start, end) ==
  {va \in VPage :
     LET d == PAGE_DIRECTORY_INDEX(va) IN
     /\ PAGE_DIRECTORY_INDEX(start) <= d /\ d <= PAGE_DIRECTORY_INDEX(end)
     /\ IF d = PAGE_DIRECTORY_INDEX(start) THEN start <= va
        ELSE d = PAGE_DIRECTORY_INDEX(end) => va < end}

\* Mutant: PTC_SHARE forgets PAGE_INC_USES()
ShareUncounted(f, V, s) == use_count[f]

\* PAGE_INC_USES() for every page of V that is shared
PAGE_INC_USES(f, V, s) ==
  use_count[f] + Cardinality({va \in V : Translation(s, va) = f})

\* Copy from s to d.  Tables that are missing in d are allocated and not cleared.
\* The caller passes a range in which d has no pages yet.
ptable_copy_range(s, d, start, end, flag) ==
  LET seen == Visited(start, end)
      V    == {va \in seen : Translation(s, va) # None}
      need == {i \in Pde : /\ PAGE_DIRECTORY_INDEX(start) <= i
                           /\ i <= PAGE_DIRECTORY_INDEX(end)
                           /\ dir[s][i] # None /\ dir[d][i] = None}
      new  == IF flag = "COPY" THEN V ELSE {}
  IN
  /\ ~halted
  /\ {s, d} \subseteq Spaces /\ s # d
  /\ CopyNew \/ need = {}
  /\ \A va \in seen : Translation(d, va) = None
  /\ \/ \E t \in Allocations(need, {}) :
        \E p \in Allocations(new, Range(t)), junk \in Fresh :
          /\ Store(d, t, junk,
               [va \in IF flag = "COW" THEN {} ELSE V |->
                  IF flag = "SHARE" THEN ptable_get_pte(s, va)
                  ELSE MAKE_PTE(p[va], FALSE)])
          /\ use_count' = [f \in DOMAIN use_count |->
               CASE f \in Range(t) \cup Range(p) -> 1
                 [] flag = "SHARE" -> PAGE_INC_USES(f, V, s)
                 [] OTHER -> use_count[f]]
          /\ \A f \in Frame : use_count'[f] <= MaxUses
          /\ UNCHANGED <<pgd, maps, range, mappings, held, halted>>
     \/ Cardinality(need) + Cardinality(new) > Cardinality(Free) /\ Halt

-----------------------------------------------------------------------------
(* Callers of the page allocator *)

page_alloc(f) ==
  /\ ~halted
  /\ Cardinality({g \in Frame : held[g] > 0}) < MaxHeld
  /\ use_count' = Taken({f})
  /\ held' = [held EXCEPT ![f] = 1]
  /\ UNCHANGED <<pgd, dir, table, maps, range, mappings, halted>>

page_free(f) ==
  /\ ~halted
  /\ held[f] > 0
  /\ held' = [held EXCEPT ![f] = @ - 1]
  /\ use_count' = [use_count EXCEPT ![f] = @ - 1]
  /\ UNCHANGED <<pgd, dir, table, maps, range, mappings, halted>>

Next ==
  \/ \E s \in Space : vm_space_new(s) \/ vm_space_destroy(s)
  \/ \E m \in Map : vm_map_new(m) \/ vm_map_destroy(m)
  \/ \E s \in Space, m \in Map : vm_space_add_map(s, m) \/ vm_space_delete_map(s, m)
  \/ \E s \in Space, va \in Touched : vm_space_page_fault(s, va)
  \/ \E s \in Space, va \in Touched, n \in 1 .. MaxHeld, w \in Flags :
       \E fs \in Injection(1 .. n, {f \in Frame : held[f] > 0}) :
         ptable_map_many(s, va, fs, w)
  \/ \E s \in Space, va \in Touched, n \in 1 .. 2, free \in BOOLEAN :
       ptable_unmap_many(s, va, n, free)
  \/ \E s, d \in Space, c \in Copies, flag \in {"SHARE", "COPY", "COW"} :
       ptable_copy_range(s, d, c[1], c[2], flag)
  \/ \E f \in UNION Pool(Free, 1) : page_alloc(f)
  \/ \E f \in Frame : page_free(f)

Spec == Init /\ [][Next]_vars

-----------------------------------------------------------------------------
(* Properties *)

\* Every variable has the type of the C object it stands for, and every directory
\* has the kernel's entries: a task that lost them could not enter the kernel.
TypeOK ==
  /\ use_count \in [Frame \cup {Kernel} -> Nat]
  /\ pgd \in [Space -> Frame \cup {None}]
  /\ dir \in [Space -> [Pde -> Frame \cup {Kernel, None}]]
  /\ \A s \in Space, i \in Pde : dir[s][i] = Kernel <=> i >= pde_max
  /\ table \in [Frame -> [Pte -> Entry]]
  /\ maps \subseteq Map
  /\ mappings \in [Space -> SUBSET maps]
  /\ held \in [Frame -> Nat]
  /\ halted \in BOOLEAN

\* use_count of a frame is the number of references to it: from page table
\* entries, from directory entries, as a directory, and by callers.  A frame with
\* too small a count is handed out again while it is mapped; one with too large a
\* count is lost.
RefsCounted ==
  /\ use_count[Kernel] = 1
  /\ \A f \in Frame :
       use_count[f] =
         held[f]
         + Cardinality({s \in Space : pgd[s] = f})
         + Cardinality({x \in Space \X Pde : dir[x[1]][x[2]] = f})
         + Cardinality({x \in Space \X VPage : Translation(x[1], x[2]) = f})

\* A frame that serves as directory or table has one reference, the one that makes
\* it so: no task sees a page table in its memory, no two spaces share one.
TablesPrivate ==
  \A s \in Spaces : \A f \in Frame :
    pgd[s] = f \/ (\E i \in Pde : dir[s][i] = f) =>
      /\ use_count[f] = 1 /\ held[f] = 0
      /\ Refs(s, f, pde_max) = 1
      /\ \A r \in Spaces \ {s} : Refs(r, f, pde_max) = 0

\* "All memory backing the specified address space shall be de-allocated": with
\* no space left, every frame that no caller holds is free again.
Reclaimed ==
  Spaces = {} => \A f \in Frame : use_count[f] = held[f]

Flat == INSTANCE AddrSpace WITH
  alive <- Spaces,
  xlate <- [s \in Space |-> [v \in VPage |-> Translation(s, v)]],
  owned <- {f \in Frame : held[f] > 0}

\* Two-level tables in shared memory behave like one flat map for each space.
RefinesAddrSpace == Flat!Spec

=============================================================================
