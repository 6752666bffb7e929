---------------------------- MODULE BootmemProofs ----------------------------
(***************************************************************************)
(* The invariant of bootmem, for every page size, array size and place of  *)
(* the kernel image: lemmas on the operations of module Bootmem, from      *)
(* which BootProofs draws its theorems.                                    *)
(*                                                                         *)
(* What is handed out next comes from the array, so its regions have to be *)
(* disjoint from each other, from the kernel and from what was handed out  *)
(* before; they are because each lies within an entry of the map, and the  *)
(* entries are disjoint.                                                   *)
(*                                                                         *)
(* Conversely, that nothing is lost needs to know where each whole page of *)
(* the map is: in the kernel, in the array or, in part, handed out; and    *)
(* during bootmem_mark_free(), that what is released is what its loops     *)
(* have passed.                                                            *)
(***************************************************************************)
EXTENDS Bootmem, WellFoundedInduction, TLAPS

Types == {RESERVED, AVAILABLE}
Region == [start : Nat, end : Nat, type : Types]
State == [regions : [Index -> Region], count : 0 .. MAX_MEM_REGIONS, highest : Nat]

\* [x, y) and [u, v) have nothing in common
Beside(x, y, u, v) == y <= u \/ v <= x

ClearOfKernel(x, y) == Beside(x, y, KERNEL_PHYS_START, KERNEL_PHYS_END)

\* [x, y) lies in an entry of type t of the map m
Covered(m, x, y, t) == \E r \in m : r[3] = t /\ r[1] <= x /\ y <= r[2]

Usable(R, k) == R[k].start < R[k].end

\* The entries of the map are disjoint
MapInv(m) ==
  /\ m \subseteq Nat \X Nat \X Types
  /\ \A r, q \in m : r = q \/ Apart(r, q)

\* The regions of the array: in the map, clear of the kernel and of each other
RegionsInv(R, m) ==
  /\ R \in [Index -> Region]
  /\ \A k \in Index : Usable(R, k) =>
       ClearOfKernel(R[k].start, R[k].end) /\ Covered(m, R[k].start, R[k].end, R[k].type)
  /\ \A j, k \in Index : j # k /\ Usable(R, j) /\ Usable(R, k) =>
       Beside(R[j].start, R[j].end, R[k].start, R[k].end)

\* What was handed out: in the map, clear of the kernel, of each other and of the array
AllocsInv(R, m, A) ==
  /\ A \subseteq Nat \X Nat
  /\ \A a \in A : ClearOfKernel(a[1], a[2]) /\ Covered(m, a[1], a[2], AVAILABLE)
  /\ \A a, b \in A : a # b => Beside(a[1], a[2], b[1], b[2])
  /\ \A a \in A, k \in Index :
       Usable(R, k) => Beside(R[k].start, R[k].end, a[1], a[2])

\* A page lies in a region of the array
InArray(p) ==
  \E k \in Index : Usable(mem_regions, k) /\ mem_regions[k].start <= p * PAGE_SIZE
                     /\ (p + 1) * PAGE_SIZE <= mem_regions[k].end

Early == {"off", "map", "paging", "alloc"}

\* What is released lies in the array, which by then no longer changes
ReleaseInv ==
  /\ \A p \in DOMAIN freed : p \in Nat /\ freed[p] \in Nat
  /\ phase \in Early => Released = {}
  /\ \A p \in Released : InArray(p)
  /\ phase = "free" =>
       /\ i \in Nat \ {0}
       /\ \E n \in Nat : first_page = n * PAGE_SIZE
       /\ i \in Index => mem_regions[i].start <= first_page

MemInv ==
  /\ region_count \in 0 .. MAX_MEM_REGIONS /\ highest_pfn \in Nat
  /\ MapInv(map)
  /\ RegionsInv(mem_regions, map)
  /\ AllocsInv(mem_regions, map, allocs)

IInv == MemInv /\ ReleaseInv

-----------------------------------------------------------------------------
(* Arithmetic *)

\* The smallest of numbers is not above any of them.
LEMMA MinIsLeast ==
  ASSUME NEW S, S \subseteq Nat, S # {}
  PROVE  Min(S) \in S /\ \A y \in S : Min(S) <= y
<1>1. PICK x \in S : \A y \in S : ~ (<<y, x>> \in OpToRel(<, Nat))
  BY WFMin, NatLessThanWellFounded, Zenon
<1>2. \A y \in S : ~ (y < x)
  BY <1>1, Zenon DEF OpToRel
<1>3. \A y \in S : x <= y
  BY <1>2
<1>4. QED BY <1>3, Zenon DEF Min

\* The larger of two numbers is not below either.
LEMMA MaxBounds ==
  ASSUME NEW a \in Nat, NEW b \in Nat
  PROVE  Max({a, b}) \in Nat /\ Max({a, b}) >= a /\ Max({a, b}) >= b
<1>1. \E x \in {a, b} : \A y \in {a, b} : x >= y
  OBVIOUS
<1>2. QED BY <1>1 DEF Max

\* Rounding down and up stays within a unit of n.
LEMMA Rounding ==
  ASSUME NEW a \in Nat, NEW n \in Nat \ {0}
  PROVE  /\ a \div n \in Nat
         /\ (a \div n) * n <= a
         /\ a < (a \div n) * n + n
OBVIOUS

\* ALIGN_DOWN() does not go up.
LEMMA AlignDown ==
  ASSUME NEW a \in Nat, NEW n \in Nat \ {0}
  PROVE  ALIGN_DOWN(a, n) \in Nat /\ ALIGN_DOWN(a, n) <= a
<1> DEFINE q == a \div n
<1>1. q \in Nat /\ q * n <= a
  BY Rounding
<1> HIDE DEF q
<1>2. q * n \in Nat
  BY <1>1
<1> USE DEF q
<1>3. QED BY <1>1, <1>2 DEF ALIGN_DOWN

\* ALIGN() does not go down, and gives a multiple.
LEMMA AlignUp ==
  ASSUME NEW a \in Nat, NEW n \in Nat \ {0}
  PROVE  ALIGN(a, n) \in Nat /\ ALIGN(a, n) >= a /\ \E q \in Nat : ALIGN(a, n) = q * n
<1> DEFINE c == a + n - 1
           q == c \div n
<1>1. c \in Nat
  OBVIOUS
<1>2. q \in Nat /\ c < q * n + n
  BY <1>1, Rounding
<1> HIDE DEF q
<1>3. q * n \in Nat /\ q * n >= a
  BY <1>2
<1> USE DEF q
<1>4. QED BY <1>2, <1>3, Zenon DEF ALIGN

\* The kernel begins with a page, and kernel_end is behind its last byte.
LEMMA KernelBounds ==
  /\ kernel_start \in Nat /\ kernel_end \in Nat
  /\ kernel_start = KERNEL_PHYS_START /\ KERNEL_PHYS_END <= kernel_end
<1>1. kernel_start = KERNEL_PHYS_START
  <2>1. PICK q \in Nat : KERNEL_PHYS_START = q * PAGE_SIZE
    BY BootmemConstants, Rounding
  <2>2. PICK m \in Nat : kernel_start = m * PAGE_SIZE
    BY BootmemConstants, AlignUp, Zenon DEF kernel_start, PAGE_ALIGN
  <2>3. kernel_start >= KERNEL_PHYS_START /\ kernel_start < KERNEL_PHYS_START + PAGE_SIZE
    <3> DEFINE c == KERNEL_PHYS_START + PAGE_SIZE - 1
    <3>1. c \in Nat
      BY BootmemConstants
    <3>2. (c \div PAGE_SIZE) * PAGE_SIZE <= c
      BY <3>1, BootmemConstants, Rounding
    <3>3. kernel_start <= c
      BY <3>2 DEF kernel_start, PAGE_ALIGN, ALIGN
    <3>4. kernel_start >= KERNEL_PHYS_START
      BY BootmemConstants, AlignUp DEF kernel_start, PAGE_ALIGN
    <3>5. QED BY <3>3, <3>4, <2>2, BootmemConstants
  <2>4. m = q
    BY <2>1, <2>2, <2>3, BootmemConstants
  <2>5. QED BY <2>1, <2>2, <2>4
<1>2. kernel_end \in Nat /\ KERNEL_PHYS_END <= kernel_end
  BY BootmemConstants, AlignUp DEF kernel_end, PAGE_ALIGN
<1>3. QED BY <1>1, <1>2, BootmemConstants

-----------------------------------------------------------------------------
(* bootmem_add_mem_region() *)

\* The array R with a region in entry v
Put(R, v, s, e, t) == [R EXCEPT ![v] = [start |-> s, end |-> e, type |-> t]]

\* Store() leaves the array alone, or puts the region in one entry of it.
LEMMA StoreShape ==
  ASSUME NEW b \in State, NEW s \in Nat, NEW e \in Nat, NEW t \in Types
  PROVE  /\ Store(b, s, e, t) \in State
         /\ \/ Store(b, s, e, t).regions = b.regions
            \/ \E v \in Index : Store(b, s, e, t).regions = Put(b.regions, v, s, e, t)
<1> DEFINE vacant == {k \in Index : b.regions[k].start = 0}
           high == Max({b.highest, PA_TO_PFN(e)})
           v == Min(vacant)
           new == [start |-> s, end |-> e, type |-> t]
<1>1. high \in Nat
  <2>1. PA_TO_PFN(e) \in Nat
    BY BootmemConstants, Rounding DEF PA_TO_PFN
  <2>2. b.highest \in Nat
    BY DEF State
  <2>3. QED BY <2>1, <2>2, MaxBounds
<1>2. vacant # {} => v \in Index
  <2>1. vacant \subseteq Nat
    BY BootmemConstants DEF Index
  <2>2. QED BY <2>1, MinIsLeast
<1>3. new \in Region
  BY DEF Region
<1>4. CASE b.count = MAX_MEM_REGIONS
  BY <1>4 DEF Store
<1>5. CASE b.count # MAX_MEM_REGIONS /\ vacant = {}
  <2>1. Store(b, s, e, t) = [b EXCEPT !.highest = high]
    BY <1>5 DEF Store
  <2> HIDE DEF high
  <2>2. QED BY <1>1, <2>1 DEF State
<1>6. CASE b.count # MAX_MEM_REGIONS /\ vacant # {}
  <2>1. Store(b, s, e, t)
          = [b EXCEPT !.regions[v] = new, !.count = @ + 1, !.highest = high]
    BY <1>6 DEF Store
  <2>2. v \in Index
    BY <1>2, <1>6
  <2>3. b.count + 1 \in 0 .. MAX_MEM_REGIONS
    BY <1>6, BootmemConstants DEF State
  <2> HIDE DEF high, v, new, vacant
  <2>4. Store(b, s, e, t) \in State
    BY <1>1, <1>3, <2>1, <2>2, <2>3, Zenon DEF State
  <2>5. Store(b, s, e, t).regions = [b.regions EXCEPT ![v] = new]
    BY <2>1 DEF State
  <2>6. QED BY <2>2, <2>4, <2>5, Zenon DEF new, Put
<1>7. QED BY <1>4, <1>5, <1>6

\* A region may be stored that lies in the map and beside all that there is.
Fresh(R, m, A, s, e, t) ==
  /\ ClearOfKernel(s, e)
  /\ Covered(m, s, e, t)
  /\ \A k \in Index : Usable(R, k) => Beside(s, e, R[k].start, R[k].end)
  /\ \A a \in A : Beside(s, e, a[1], a[2])

\* Storing such a region keeps the array in order.
LEMMA StoreInv ==
  ASSUME NEW b \in State, NEW s \in Nat, NEW e \in Nat, NEW t \in Types, NEW m, NEW A,
         RegionsInv(b.regions, m), AllocsInv(b.regions, m, A),
         Fresh(b.regions, m, A, s, e, t)
  PROVE  /\ RegionsInv(Store(b, s, e, t).regions, m)
         /\ AllocsInv(Store(b, s, e, t).regions, m, A)
<1> DEFINE R == Store(b, s, e, t).regions
<1>1. CASE R = b.regions
  BY <1>1
<1>2. ASSUME NEW v \in Index, R = Put(b.regions, v, s, e, t)
      PROVE  RegionsInv(R, m) /\ AllocsInv(R, m, A)
  <2> HIDE DEF R
  <2>1. R \in [Index -> Region]
    BY <1>2 DEF RegionsInv, Region, Put
  <2>2. /\ R[v].start = s /\ R[v].end = e /\ R[v].type = t
        /\ \A k \in Index \ {v} : R[k] = b.regions[k]
    BY <1>2 DEF RegionsInv, Put
  <2>3. \A k \in Index : Usable(R, k) =>
          ClearOfKernel(R[k].start, R[k].end) /\ Covered(m, R[k].start, R[k].end, R[k].type)
    BY <2>2, Zenon DEF RegionsInv, Fresh, Usable
  <2>4. \A j, k \in Index : j # k /\ Usable(R, j) /\ Usable(R, k) =>
          Beside(R[j].start, R[j].end, R[k].start, R[k].end)
    <3> SUFFICES ASSUME NEW j \in Index, NEW k \in Index, j # k, Usable(R, j), Usable(R, k)
                 PROVE  Beside(R[j].start, R[j].end, R[k].start, R[k].end)
      OBVIOUS
    <3>1. CASE j # v /\ k # v
      BY <2>2, <3>1 DEF RegionsInv, Usable
    <3>2. CASE j = v
      BY <2>2, <3>2 DEF Fresh, Usable
    <3>3. CASE k = v
      BY <2>2, <3>3 DEF Fresh, Usable, Beside
    <3>4. QED BY <3>1, <3>2, <3>3
  <2>5. RegionsInv(R, m)
    BY <2>1, <2>3, <2>4, Zenon DEF RegionsInv
  <2>6. \A a \in A, k \in Index : Usable(R, k) => Beside(R[k].start, R[k].end, a[1], a[2])
    BY <2>2 DEF AllocsInv, Fresh, Usable
  <2>7. AllocsInv(R, m, A)
    BY <2>6 DEF AllocsInv
  <2>8. QED BY <2>5, <2>7
<1>3. \/ R = b.regions
      \/ \E v \in Index : R = Put(b.regions, v, s, e, t)
  BY StoreShape
<1>4. RegionsInv(R, m) /\ AllocsInv(R, m, A)
  <2> HIDE DEF R
  <2>1. QED BY <1>1, <1>2, <1>3
<1>5. QED BY <1>4

\* A part of a new entry that is clear of the kernel is fresh.
LEMMA PartIsFresh ==
  ASSUME NEW R, NEW m, NEW A, NEW r \in Nat \X Nat \X Types,
         RegionsInv(R, m), AllocsInv(R, m, A), MapInv(m), \A q \in m : Apart(r, q),
         NEW s \in Nat, NEW e \in Nat, r[1] <= s, e <= r[2], ClearOfKernel(s, e)
  PROVE  Fresh(R, m \cup {r}, A, s, e, r[3])
<1>1. Covered(m \cup {r}, s, e, r[3])
  BY DEF Covered
<1>2. ASSUME NEW x \in Nat, NEW y \in Nat, NEW t, Covered(m, x, y, t)
      PROVE  Beside(s, e, x, y)
  <2>1. PICK q \in m : q[1] <= x /\ y <= q[2]
    BY <1>2 DEF Covered
  <2>2. q[1] \in Nat /\ q[2] \in Nat /\ (r[2] <= q[1] \/ q[2] <= r[1])
    BY DEF MapInv, Apart
  <2>3. QED BY <2>1, <2>2 DEF Beside
<1>3. ASSUME NEW k \in Index, Usable(R, k) PROVE Beside(s, e, R[k].start, R[k].end)
  <2>1. R[k].start \in Nat /\ R[k].end \in Nat
    BY DEF RegionsInv, Region
  <2>2. Covered(m, R[k].start, R[k].end, R[k].type)
    BY <1>3 DEF RegionsInv
  <2>3. QED BY <1>2, <2>1, <2>2
<1>4. ASSUME NEW a \in A PROVE Beside(s, e, a[1], a[2])
  <2>1. a[1] \in Nat /\ a[2] \in Nat /\ Covered(m, a[1], a[2], AVAILABLE)
    BY DEF AllocsInv
  <2>2. QED BY <1>2, <2>1
<1>5. QED BY <1>1, <1>3, <1>4 DEF Fresh

\* With one more entry in the map everything is covered as before.
LEMMA MapGrows ==
  ASSUME NEW R, NEW m, NEW A, NEW r, RegionsInv(R, m), AllocsInv(R, m, A)
  PROVE  RegionsInv(R, m \cup {r}) /\ AllocsInv(R, m \cup {r}, A)
<1>1. \A x, y, t : Covered(m, x, y, t) => Covered(m \cup {r}, x, y, t)
  BY DEF Covered
<1>2. QED BY <1>1, Zenon DEF RegionsInv, AllocsInv

\* Adjust() keeps the kernel out, however the region lies to it, and keeps the array in
\* order.
LEMMA AdjustInv ==
  ASSUME NEW b \in State, NEW m, NEW A, NEW r \in Nat \X Nat \X Types,
         RegionsInv(b.regions, m), AllocsInv(b.regions, m, A), MapInv(m),
         \A q \in m : Apart(r, q),
         NEW s \in Nat, NEW e \in Nat, r[1] <= s, e <= r[2],
         s < e, ~(s >= kernel_start /\ e < kernel_end),
         ~(s >= kernel_start /\ e = kernel_end)
  PROVE  LET n == Adjust(b, s, e, r[3]) IN
         n \in State /\ RegionsInv(n.regions, m \cup {r}) /\ AllocsInv(n.regions, m \cup {r}, A)
<1> DEFINE t == r[3]
           M == m \cup {r}
           Ok(n) == n \in State /\ RegionsInv(n.regions, M) /\ AllocsInv(n.regions, M, A)
<1> SUFFICES Ok(Adjust(b, s, e, t))
  OBVIOUS
<1> t \in Types
  OBVIOUS
<1>1. RegionsInv(b.regions, M) /\ AllocsInv(b.regions, M, A)
  BY MapGrows, Zenon
<1>2. ASSUME NEW x \in Nat, NEW y \in Nat, s <= x, y <= e, ClearOfKernel(x, y)
      PROVE  Fresh(b.regions, M, A, x, y, t) /\ Ok(Store(b, x, y, t))
  <2>1. r[1] \in Nat /\ r[2] \in Nat /\ r[1] <= x /\ y <= r[2]
    BY <1>2
  <2>2. Fresh(b.regions, M, A, x, y, t)
    BY <1>2, <2>1, PartIsFresh, Zenon
  <2> HIDE DEF M, t
  <2>3. Store(b, x, y, t) \in State
    BY StoreShape
  <2>4. QED BY <1>1, <2>2, <2>3, StoreInv, Zenon
<1> HIDE DEF Ok, M, t
<1>3. CASE Surrounds(s, e)
  <2> DEFINE c == Store(b, s, kernel_start, t)
  <2>1. s < kernel_start /\ kernel_end < e /\ kernel_start <= kernel_end
    BY <1>3, KernelBounds, BootmemConstants DEF Surrounds
  <2>2. ClearOfKernel(s, kernel_start) /\ ClearOfKernel(kernel_end, e)
    BY KernelBounds, BootmemConstants DEF ClearOfKernel, Beside
  <2>3. Ok(c)
    BY <1>2, <2>1, <2>2, KernelBounds
  <2>4. Fresh(b.regions, M, A, kernel_end, e, t)
    BY <1>2, <2>1, <2>2, KernelBounds
  <2>5. Fresh(c.regions, M, A, kernel_end, e, t)
    <3>1. CASE c.regions = b.regions
      BY <2>4, <3>1
    <3>2. ASSUME NEW v \in Index, c.regions = Put(b.regions, v, s, kernel_start, t)
          PROVE  Fresh(c.regions, M, A, kernel_end, e, t)
      <4> HIDE DEF c
      <4>1. /\ c.regions[v].start = s /\ c.regions[v].end = kernel_start
            /\ \A k \in Index \ {v} : c.regions[k] = b.regions[k]
        BY <3>2 DEF RegionsInv, Put
      <4>2. \A k \in Index : Usable(c.regions, k) =>
              Beside(kernel_end, e, c.regions[k].start, c.regions[k].end)
        BY <2>1, <2>4, <4>1, KernelBounds DEF Fresh, Usable, Beside
      <4>3. QED BY <2>4, <4>2 DEF Fresh
    <3> kernel_start \in Nat
      BY KernelBounds
    <3>3. \/ c.regions = b.regions
          \/ \E v \in Index : c.regions = Put(b.regions, v, s, kernel_start, t)
      BY StoreShape
    <3> HIDE DEF c
    <3>4. QED BY <3>1, <3>2, <3>3
  <2>6. Ok(Store(c, kernel_end, e, t))
    <3> HIDE DEF c
    <3>1. c \in State /\ RegionsInv(c.regions, M) /\ AllocsInv(c.regions, M, A)
      BY <2>3 DEF Ok
    <3>2. Store(c, kernel_end, e, t) \in State
      BY <3>1, StoreShape, KernelBounds
    <3>3. QED BY <2>5, <3>1, <3>2, StoreInv, KernelBounds, Zenon DEF Ok
  <2>7. Adjust(b, s, e, t) = Store(c, kernel_end, e, t)
    BY <1>3, <2>1, KernelBounds DEF Adjust, Surrounds, OverlapsHead, OverlapsTail
  <2>8. QED BY <2>6, <2>7
<1>4. CASE OverlapsHead(s, e) /\ ~Surrounds(s, e)
  <2>1. ClearOfKernel(s, kernel_start) /\ kernel_start <= e
    BY <1>4, KernelBounds, BootmemConstants DEF ClearOfKernel, Beside, OverlapsHead
  <2>2. Ok(Store(b, s, kernel_start, t))
    BY <1>2, <2>1, KernelBounds
  <2>3. Adjust(b, s, e, t) = Store(b, s, kernel_start, t)
    BY <1>4, KernelBounds DEF Adjust, OverlapsHead, OverlapsTail
  <2>4. QED BY <2>2, <2>3
<1>5. CASE OverlapsTail(s, e) /\ s >= kernel_start
  <2>1. ClearOfKernel(kernel_end, e) /\ s <= kernel_end
    BY <1>5, KernelBounds, BootmemConstants DEF ClearOfKernel, Beside, OverlapsTail
  <2>2. Ok(Store(b, kernel_end, e, t))
    BY <1>2, <2>1, KernelBounds
  <2>3. Adjust(b, s, e, t) = Store(b, kernel_end, e, t)
    BY <1>5, KernelBounds DEF Adjust, OverlapsHead, OverlapsTail, Surrounds
  <2>4. QED BY <2>2, <2>3
<1>6. CASE ~OverlapsHead(s, e) /\ ~(OverlapsTail(s, e) /\ s >= kernel_start) /\ ~Surrounds(s, e)
  <2>1. ClearOfKernel(s, e)
    BY <1>6, KernelBounds, BootmemConstants DEF ClearOfKernel, Beside, OverlapsHead, OverlapsTail
  <2>2. Ok(Store(b, s, e, t))
    BY <1>2, <2>1
  <2>3. Adjust(b, s, e, t) = Store(b, s, e, t)
    BY <1>6 DEF Adjust
  <2>4. QED BY <2>2, <2>3
<1>7. QED BY <1>3, <1>4, <1>5, <1>6

\* Whatever an entry that is not missed covers, registering it, or what the cut to 32
\* bits leaves of it, keeps the invariant.
LEMMA RegisterInv ==
  ASSUME IInv, NEW r \in Nat \X Nat \X Types, NEW start \in Nat, NEW end \in Nat,
         r[1] <= start, end <= r[2], ~MissedEntry(start, end),
         register(r, start, end, r[3])
  PROVE  IInv'
<1> DEFINE s == PAGE_ALIGN(start)
           e == PAGE_ALIGN_DOWN(end)
           b == [regions |-> mem_regions, count |-> region_count, highest |-> highest_pfn]
           n == IF Refused(b, s, e) THEN b ELSE Adjust(b, s, e, r[3])
<1>1. s \in Nat /\ e \in Nat /\ r[1] <= s /\ e <= r[2]
  <2>1. s \in Nat /\ start <= s
    BY AlignUp, BootmemConstants, Zenon DEF PAGE_ALIGN
  <2>2. e \in Nat /\ e <= end
    BY AlignDown, BootmemConstants, Zenon DEF PAGE_ALIGN_DOWN
  <2> HIDE DEF s, e
  <2>3. QED BY <2>1, <2>2
<1>2. /\ phase = "map" /\ map' = map \cup {r} /\ \A q \in map : Apart(r, q)
      /\ mem_regions' = n.regions /\ region_count' = n.count /\ highest_pfn' = n.highest
      /\ UNCHANGED <<phase, i, first_page, allocs, freed>>
  BY DEF register, bootmem_add_mem_region
<1>3. b \in State /\ b.regions = mem_regions
  BY DEF State, IInv, MemInv, RegionsInv
<1>4. MapInv(map) /\ RegionsInv(b.regions, map) /\ AllocsInv(b.regions, map, allocs)
  BY <1>3 DEF IInv, MemInv
<1>5. /\ n \in State
      /\ RegionsInv(n.regions, map \cup {r}) /\ AllocsInv(n.regions, map \cup {r}, allocs)
  <2>1. CASE Refused(b, s, e)
    <3>1. n = b
      BY <2>1
    <3> HIDE DEF b, n
    <3>2. QED BY <1>3, <1>4, <3>1, MapGrows, Zenon
  <2>2. CASE ~Refused(b, s, e)
    <3>1. ~(s >= kernel_start /\ e < kernel_end) /\ ~(s >= kernel_start /\ e = kernel_end)
      BY <2>2 DEF Refused, MissedEntry
    <3>2. s < e
      <4> HIDE DEF s, e
      <4>1. QED BY <1>1, <2>2, BootmemConstants DEF Refused
    <3>3. n = Adjust(b, s, e, r[3])
      BY <2>2
    <3> HIDE DEF b, n, s, e
    <3>4. QED BY <1>1, <1>2, <1>3, <1>4, <3>1, <3>2, <3>3, AdjustInv, Zenon
  <2>3. QED BY <2>1, <2>2, Zenon
<1>6. MapInv(map \cup {r})
  BY <1>2, <1>4 DEF MapInv, Apart
<1> HIDE DEF n
<1>7. MemInv'
  BY <1>2, <1>5, <1>6 DEF MemInv, State
<1>8. ReleaseInv'
  <2>1. Released = {} /\ Released' = {}
    BY <1>2 DEF IInv, ReleaseInv, Early, Released
  <2>2. QED BY <1>2, <2>1 DEF IInv, ReleaseInv
<1>9. QED BY <1>7, <1>8 DEF IInv

-----------------------------------------------------------------------------
(* bootmem_alloc() *)

\* What is taken off the front of a region lies beside everything else.
LEMMA AllocInv ==
  ASSUME MemInv, NEW size \in Nat \ {0}, NEW alignment \in Nat \ {0},
         Possible(size, alignment), bootmem_alloc(size, alignment),
         UNCHANGED <<region_count, highest_pfn, map>>
  PROVE  MemInv'
<1> DEFINE F == {j \in Index : Fits(j, size, alignment)}
           k == Min(F)
           st == ALIGN(mem_regions[k].start, alignment)
<1>1. k \in Index /\ Fits(k, size, alignment)
  <2>1. F # {} /\ F \subseteq Nat
    BY BootmemConstants DEF Possible, Index
  <2> HIDE DEF F
  <2>2. k \in F
    BY <2>1, MinIsLeast, Zenon
  <2> USE DEF F
  <2>3. QED BY <2>2
<1>2. mem_regions' = [mem_regions EXCEPT ![k].start = st + size]
      /\ allocs' = allocs \cup {<<st, st + size>>}
  BY DEF bootmem_alloc, Take
<1> HIDE DEF k
<1>3. /\ mem_regions \in [Index -> Region]
      /\ mem_regions[k].start \in Nat /\ mem_regions[k].end \in Nat
  BY <1>1 DEF MemInv, RegionsInv, Region
<1>4. st \in Nat /\ mem_regions[k].start <= st
  BY <1>3, AlignUp, Zenon
<1>5. st < mem_regions[k].end /\ st + size <= mem_regions[k].end
      /\ mem_regions[k].type = AVAILABLE
  <2>1. st < mem_regions[k].end /\ mem_regions[k].end - st >= size
        /\ mem_regions[k].type = AVAILABLE
    BY <1>1 DEF Fits
  <2> HIDE DEF st
  <2>2. QED BY <1>3, <1>4, <2>1
<1> HIDE DEF st
<1>6. /\ mem_regions' \in [Index -> Region]
      /\ mem_regions'[k].start = st + size /\ mem_regions'[k].end = mem_regions[k].end
      /\ mem_regions'[k].type = mem_regions[k].type
      /\ \A j \in Index \ {k} : mem_regions'[j] = mem_regions[j]
  BY <1>1, <1>2, <1>3, <1>4 DEF Region
<1>7. Usable(mem_regions, k)
  BY <1>3, <1>4, <1>5 DEF Usable
<1>8. \A j \in Index : Usable(mem_regions', j) =>
        /\ Usable(mem_regions, j)
        /\ mem_regions[j].start <= mem_regions'[j].start
        /\ mem_regions[j].end = mem_regions'[j].end
        /\ mem_regions[j].type = mem_regions'[j].type
        /\ {mem_regions[j].start, mem_regions[j].end, mem_regions'[j].start} \subseteq Nat
  <2> SUFFICES ASSUME NEW j \in Index, Usable(mem_regions', j)
               PROVE  /\ Usable(mem_regions, j)
                      /\ mem_regions[j].start <= mem_regions'[j].start
                      /\ mem_regions[j].end = mem_regions'[j].end
                      /\ mem_regions[j].type = mem_regions'[j].type
                      /\ {mem_regions[j].start, mem_regions[j].end, mem_regions'[j].start}
                           \subseteq Nat
    OBVIOUS
  <2>1. CASE j = k
    BY <1>3, <1>4, <1>6, <1>7, <2>1
  <2>2. CASE j # k
    <3>1. mem_regions'[j] = mem_regions[j]
      BY <1>6, <2>2
    <3>2. mem_regions[j].start \in Nat /\ mem_regions[j].end \in Nat
      BY <1>3 DEF Region
    <3>3. QED BY <3>1, <3>2 DEF Usable
  <2>3. QED BY <2>1, <2>2
<1>9. RegionsInv(mem_regions', map)
  <2>1. ASSUME NEW j \in Index, Usable(mem_regions', j)
        PROVE  /\ ClearOfKernel(mem_regions'[j].start, mem_regions'[j].end)
               /\ Covered(map, mem_regions'[j].start, mem_regions'[j].end, mem_regions'[j].type)
    <3>1. ClearOfKernel(mem_regions[j].start, mem_regions[j].end)
          /\ Covered(map, mem_regions[j].start, mem_regions[j].end, mem_regions[j].type)
      BY <1>8, <2>1 DEF MemInv, RegionsInv
    <3>2. ClearOfKernel(mem_regions'[j].start, mem_regions'[j].end)
      BY <1>8, <2>1, <3>1, BootmemConstants DEF ClearOfKernel, Beside
    <3>3. PICK r \in map : /\ r[3] = mem_regions[j].type /\ r[1] <= mem_regions[j].start
                           /\ mem_regions[j].end <= r[2]
      BY <3>1 DEF Covered
    <3>4. r[1] \in Nat
      BY DEF MemInv, MapInv
    <3>5. QED BY <1>8, <2>1, <3>2, <3>3, <3>4 DEF Covered
  <2>2. ASSUME NEW j \in Index, NEW l \in Index, j # l,
               Usable(mem_regions', j), Usable(mem_regions', l)
        PROVE  Beside(mem_regions'[j].start, mem_regions'[j].end,
                      mem_regions'[l].start, mem_regions'[l].end)
    <3>1. Beside(mem_regions[j].start, mem_regions[j].end,
                 mem_regions[l].start, mem_regions[l].end)
      BY <1>8, <2>2 DEF MemInv, RegionsInv
    <3>2. QED BY <1>8, <2>2, <3>1 DEF Beside
  <2>3. QED BY <1>6, <2>1, <2>2 DEF RegionsInv
<1> DEFINE new == <<st, st + size>>
<1>10. /\ new \in Nat \X Nat /\ new[1] = st /\ new[2] = st + size
  BY <1>4
<1>11. ClearOfKernel(new[1], new[2]) /\ Covered(map, new[1], new[2], AVAILABLE)
  <2>1. ClearOfKernel(mem_regions[k].start, mem_regions[k].end)
        /\ Covered(map, mem_regions[k].start, mem_regions[k].end, AVAILABLE)
    BY <1>1, <1>5, <1>7 DEF MemInv, RegionsInv
  <2>2. ClearOfKernel(st, st + size)
    BY <1>3, <1>4, <1>5, <2>1, BootmemConstants DEF ClearOfKernel, Beside
  <2>3. PICK r \in map : /\ r[3] = AVAILABLE /\ r[1] <= mem_regions[k].start
                         /\ mem_regions[k].end <= r[2]
    BY <2>1 DEF Covered
  <2>4. r[1] \in Nat /\ r[2] \in Nat
    BY DEF MemInv, MapInv
  <2>5. r[1] <= st /\ st + size <= r[2]
    BY <1>3, <1>4, <1>5, <2>3, <2>4
  <2>6. QED BY <1>10, <2>2, <2>3, <2>5 DEF Covered
<1>12. \A a \in allocs : Beside(new[1], new[2], a[1], a[2])
  <2> SUFFICES ASSUME NEW a \in allocs PROVE Beside(st, st + size, a[1], a[2])
    BY <1>10
  <2>1. a[1] \in Nat /\ a[2] \in Nat
    BY DEF MemInv, AllocsInv
  <2>2. Beside(mem_regions[k].start, mem_regions[k].end, a[1], a[2])
    BY <1>1, <1>7 DEF MemInv, AllocsInv
  <2>3. QED BY <1>3, <1>4, <1>5, <2>1, <2>2 DEF Beside
<1>13. \A j \in Index : Usable(mem_regions', j) =>
         Beside(mem_regions'[j].start, mem_regions'[j].end, new[1], new[2])
  <2> SUFFICES ASSUME NEW j \in Index, Usable(mem_regions', j)
               PROVE  Beside(mem_regions'[j].start, mem_regions'[j].end, st, st + size)
    BY <1>10
  <2>1. CASE j = k
    BY <1>4, <1>6, <2>1 DEF Beside
  <2>2. CASE j # k
    <3>1. Beside(mem_regions[j].start, mem_regions[j].end,
                 mem_regions[k].start, mem_regions[k].end)
      BY <1>1, <1>7, <1>8, <2>2 DEF MemInv, RegionsInv
    <3>2. QED BY <1>3, <1>4, <1>5, <1>8, <3>1 DEF Beside
  <2>3. QED BY <2>1, <2>2
<1>14. \A a \in allocs, j \in Index : Usable(mem_regions', j) =>
         Beside(mem_regions'[j].start, mem_regions'[j].end, a[1], a[2])
  <2> SUFFICES ASSUME NEW a \in allocs, NEW j \in Index, Usable(mem_regions', j)
               PROVE  Beside(mem_regions'[j].start, mem_regions'[j].end, a[1], a[2])
    OBVIOUS
  <2>1. a[1] \in Nat /\ a[2] \in Nat
    BY DEF MemInv, AllocsInv
  <2>2. Beside(mem_regions[j].start, mem_regions[j].end, a[1], a[2])
    BY <1>8 DEF MemInv, AllocsInv
  <2>3. QED BY <1>8, <2>1, <2>2 DEF Beside
<1>15. AllocsInv(mem_regions', map, allocs')
  <2>1. allocs' = allocs \cup {new} /\ AllocsInv(mem_regions, map, allocs)
    BY <1>2 DEF MemInv
  <2> HIDE DEF new
  <2>2. \A a, b \in allocs' : a # b => Beside(a[1], a[2], b[1], b[2])
    <3> SUFFICES ASSUME NEW a \in allocs', NEW b \in allocs', a # b
                 PROVE  Beside(a[1], a[2], b[1], b[2])
      OBVIOUS
    <3>1. CASE a = new
      BY <1>12, <2>1, <3>1
    <3>2. CASE b = new
      BY <1>12, <2>1, <3>2 DEF Beside
    <3>3. CASE a # new /\ b # new
      BY <2>1, <3>3 DEF AllocsInv
    <3>4. QED BY <3>1, <3>2, <3>3
  <2>3. QED BY <1>10, <1>11, <1>13, <1>14, <2>1, <2>2, Zenon DEF AllocsInv
<1>16. QED BY <1>9, <1>15 DEF MemInv

-----------------------------------------------------------------------------
(* bootmem_mark_free() *)

\* A page is released that lies in the region of the loop.
LEMMA ReleasePageInv ==
  ASSUME IInv, mark_free_page
  PROVE  ReleaseInv'
<1>1. /\ phase = "free" /\ i <= region_count
      /\ mem_regions[i].start # 0 /\ first_page < end_page(i)
      /\ freed' = [p \in DOMAIN freed \cup {PA_TO_PFN(first_page)} |->
                     (IF p \in DOMAIN freed THEN freed[p] ELSE 0)
                     + (IF p = PA_TO_PFN(first_page) THEN 1 ELSE 0)]
      /\ first_page' = first_page + PAGE_SIZE
      /\ UNCHANGED <<mem_regions, phase, i>>
  BY DEF mark_free_page, InRegion
<1>2. i \in Nat \ {0} /\ i \in Index
  <2>1. i <= region_count /\ i \in Nat \ {0}
    BY <1>1 DEF IInv, ReleaseInv
  <2>2. region_count \in 0 .. MAX_MEM_REGIONS
    BY DEF IInv, MemInv
  <2>3. QED BY <2>1, <2>2, BootmemConstants DEF Index
<1>3. PICK n \in Nat : first_page = n * PAGE_SIZE
  BY <1>1 DEF IInv, ReleaseInv
<1>4. mem_regions[i].start <= first_page /\ mem_regions[i].start \in Nat
      /\ mem_regions[i].end \in Nat
  BY <1>1, <1>2 DEF IInv, ReleaseInv, MemInv, RegionsInv, Region
<1>5. PA_TO_PFN(first_page) = n
  BY <1>3, BootmemConstants DEF PA_TO_PFN
<1>6. InArray(n)
  <2> DEFINE d == mem_regions[i].end \div PAGE_SIZE
  <2>1. d \in Nat /\ d * PAGE_SIZE <= mem_regions[i].end
    BY <1>4, Rounding, BootmemConstants, Zenon
  <2>2. n * PAGE_SIZE < d * PAGE_SIZE
    BY <1>1, <1>3 DEF end_page, PAGE_ALIGN_DOWN, ALIGN_DOWN
  <2> HIDE DEF d
  <2>3. (n + 1) * PAGE_SIZE <= d * PAGE_SIZE
    BY <2>1, <2>2, BootmemConstants
  <2>4. n * PAGE_SIZE \in Nat /\ (n + 1) * PAGE_SIZE \in Nat /\ d * PAGE_SIZE \in Nat
    BY <2>1, BootmemConstants
  <2>5. (n + 1) * PAGE_SIZE <= mem_regions[i].end /\ mem_regions[i].start <= n * PAGE_SIZE
    BY <1>3, <1>4, <2>1, <2>3, <2>4
  <2>6. Usable(mem_regions, i)
    BY <1>3, <1>4, <2>1, <2>2, <2>4 DEF Usable
  <2>7. QED BY <1>2, <2>5, <2>6 DEF InArray
<1>7. /\ \A p \in DOMAIN freed : p \in Nat /\ freed[p] \in Nat
      /\ \A p \in Released : InArray(p)
  BY DEF IInv, ReleaseInv
<1>8. \A p \in DOMAIN freed' : p \in Nat /\ freed'[p] \in Nat
  BY <1>1, <1>5, <1>7
<1>9. \A p \in Released' : p = n \/ p \in Released
  BY <1>1, <1>5, <1>7 DEF Released
<1>10. \A p \in Released' : InArray(p)'
  BY <1>1, <1>6, <1>7, <1>9 DEF InArray, Usable
<1>11. first_page' = (n + 1) * PAGE_SIZE
  BY <1>1, <1>3, BootmemConstants
<1>12. mem_regions[i].start <= first_page'
  BY <1>1, <1>3, <1>4, BootmemConstants
<1>13. phase' = "free" /\ i' = i /\ mem_regions' = mem_regions
  BY <1>1
<1>14. QED BY <1>2, <1>8, <1>10, <1>11, <1>12, <1>13 DEF ReleaseInv, Early

\* The loop enters a region at its first whole page.
LEMMA EnterRegionInv ==
  ASSUME IInv, NEW k \in Nat \ {0}, EnterRegion(k)
  PROVE  /\ \E n \in Nat : first_page' = n * PAGE_SIZE
         /\ k \in Index => mem_regions[k].start <= first_page'
<1>1. CASE k \in Index
  <2>1. mem_regions[k].start \in Nat
    BY <1>1 DEF IInv, MemInv, RegionsInv, Region
  <2>2. first_page' = ALIGN(mem_regions[k].start, PAGE_SIZE)
    BY <1>1 DEF EnterRegion, PAGE_ALIGN
  <2>3. QED BY <2>1, <2>2, AlignUp, BootmemConstants, Zenon
<1>2. CASE k \notin Index
  <2>1. first_page' = 0
    BY <1>2 DEF EnterRegion
  <2>2. first_page' = 0 * PAGE_SIZE
    BY <2>1, BootmemConstants
  <2>3. QED BY <1>2, <2>2
<1>3. QED BY <1>1, <1>2

-----------------------------------------------------------------------------
(* Steps *)

\* Steps that leave bootmem's memory as it is, and do not enter the loop.
LEMMA MemoryKept ==
  ASSUME IInv, UNCHANGED <<mem_regions, region_count, highest_pfn, i, first_page, map,
                           allocs, freed>>,
         phase' \in Early => phase \in Early, phase' = "free" => phase = "free"
  PROVE  IInv'
<1>1. MemInv'
  BY DEF IInv, MemInv
<1>2. ReleaseInv'
  BY DEF IInv, ReleaseInv, Released, InArray
<1>3. QED BY <1>1, <1>2 DEF IInv

\* Nothing has been released while bootmem_alloc() is used.
LEMMA NothingReleasedInv ==
  ASSUME ReleaseInv, phase = "paging", phase' # "free",
         \/ freed' = freed
         \/ freed' = [p \in 0 .. highest_pfn - 1 |-> 0] /\ highest_pfn \in Nat
  PROVE  ReleaseInv'
<1>1. Released = {}
  BY DEF ReleaseInv, Early
<1>2. CASE freed' = freed
  <2>1. Released' = {}
    BY <1>1, <1>2 DEF Released
  <2>2. QED BY <1>2, <2>1 DEF ReleaseInv
<1>3. CASE freed' = [p \in 0 .. highest_pfn - 1 |-> 0] /\ highest_pfn \in Nat
  <2>1. Released' = {} /\ \A p \in DOMAIN freed' : p \in Nat /\ freed'[p] \in Nat
    BY <1>3 DEF Released
  <2>2. QED BY <2>1 DEF ReleaseInv
<1>4. QED BY <1>2, <1>3

\* bootmem_alloc() before buddy_init(), by whoever uses it.
LEMMA EarlyAllocInv ==
  ASSUME IInv, NEW size \in Nat \ {0}, NEW alignment \in Nat \ {0},
         phase = "paging", Possible(size, alignment), bootmem_alloc(size, alignment),
         UNCHANGED <<region_count, highest_pfn, phase, map, freed>>
  PROVE  IInv'
<1>1. MemInv'
  BY AllocInv DEF IInv
<1>2. ReleaseInv'
  BY NothingReleasedInv DEF IInv
<1>3. QED BY <1>1, <1>2 DEF IInv

\* The page structs, and the loops of bootmem_mark_free().
LEMMA BootmemStepInv ==
  ASSUME IInv,
         \/ paging_start \/ buddy_init
         \/ mark_free_start \/ mark_free_page \/ mark_free_next \/ mark_free_done
  PROVE  IInv'
<1>1. CASE paging_start
  BY <1>1, MemoryKept DEF paging_start, bootmemVars, Early
<1>2. CASE buddy_init
  <2> DEFINE size == highest_pfn * StructSize
  <2>1. phase = "paging" /\ UNCHANGED <<region_count, highest_pfn, i, first_page, map>>
    BY <1>2 DEF buddy_init
  <2>2. CASE highest_pfn > 0 /\ Possible(size, 1)
    <3>1. /\ bootmem_alloc(size, 1) /\ phase' = "alloc"
          /\ freed' = [p \in 0 .. highest_pfn - 1 |-> 0]
      BY <1>2, <2>2 DEF buddy_init
    <3>2. size \in Nat \ {0} /\ highest_pfn \in Nat
      BY <2>2, BootmemConstants DEF IInv, MemInv
    <3> HIDE DEF size
    <3>3. MemInv'
      BY <2>1, <2>2, <3>1, <3>2, AllocInv DEF IInv
    <3>4. QED BY <2>1, <3>1, <3>2, <3>3, NothingReleasedInv DEF IInv
  <2>3. CASE ~(highest_pfn > 0 /\ Possible(size, 1))
    <3>1. phase' = "panic" /\ UNCHANGED <<mem_regions, allocs, freed>>
      BY <1>2, <2>3 DEF buddy_init
    <3>2. QED BY <2>1, <3>1, MemoryKept DEF Early
  <2>4. QED BY <2>2, <2>3
<1>3. CASE mark_free_start
  <2>1. /\ phase = "alloc" /\ phase' = "free" /\ i' = 1 /\ EnterRegion(1)
        /\ UNCHANGED <<mem_regions, region_count, highest_pfn, map, allocs, freed>>
    BY <1>3 DEF mark_free_start
  <2>2. MemInv'
    BY <2>1 DEF IInv, MemInv
  <2>3. QED BY <2>1, <2>2, EnterRegionInv DEF IInv, ReleaseInv, Released, InArray, Early
<1>4. CASE mark_free_page
  <2>1. UNCHANGED <<mem_regions, region_count, highest_pfn, map, allocs>>
    BY <1>4 DEF mark_free_page
  <2>2. MemInv'
    BY <2>1 DEF IInv, MemInv
  <2>3. QED BY <1>4, <2>2, ReleasePageInv DEF IInv
<1>5. CASE mark_free_next
  <2>1. /\ phase = "free" /\ i' = i + 1 /\ EnterRegion(i + 1)
        /\ UNCHANGED <<mem_regions, region_count, highest_pfn, phase, map, allocs, freed>>
    BY <1>5 DEF mark_free_next
  <2>2. MemInv'
    BY <2>1 DEF IInv, MemInv
  <2>3. i + 1 \in Nat \ {0}
    BY <2>1 DEF IInv, ReleaseInv
  <2>4. QED BY <2>1, <2>2, <2>3, EnterRegionInv DEF IInv, ReleaseInv, Released, InArray, Early
<1>6. CASE mark_free_done
  BY <1>6, MemoryKept DEF mark_free_done, Early
<1>7. QED BY <1>1, <1>2, <1>3, <1>4, <1>5, <1>6

\* bootmem_reset() forgets everything.
LEMMA ResetInv ==
  ASSUME bootmem_reset
  PROVE  IInv'
<1>1. /\ mem_regions' = [k \in Index |-> Empty] /\ region_count' = 0 /\ highest_pfn' = 0
      /\ phase' = "map" /\ map' = {} /\ allocs' = {} /\ freed' = [p \in {} |-> 0]
  BY DEF bootmem_reset
<1>2. MemInv'
  BY <1>1, BootmemConstants DEF MemInv, MapInv, RegionsInv, AllocsInv, Empty, Region, Types,
                                Usable
<1>3. ReleaseInv'
  BY <1>1 DEF ReleaseInv, Released
<1>4. QED BY <1>2, <1>3 DEF IInv

-----------------------------------------------------------------------------
(* What the invariant says *)

\* Memory that is handed out is apart.
LEMMA InvAllocsApart == IInv => AllocsApart
BY DEF IInv, MemInv, AllocsInv, AllocsApart, ClearOfKernel, Covered, Beside

\* A page that is released lies in a region of the array, beside all that is in use.
LEMMA InvInUseNotReleased == IInv => InUseNotReleased
<1> SUFFICES ASSUME IInv, NEW p \in Released
             PROVE  /\ PageUnits(p) \cap (KERNEL_PHYS_START .. KERNEL_PHYS_END - 1) = {}
                    /\ \A a \in allocs : PageUnits(p) \cap (a[1] .. a[2] - 1) = {}
  BY DEF InUseNotReleased
<1> DEFINE x == p * PAGE_SIZE
           y == (p + 1) * PAGE_SIZE
<1>1. p \in Nat /\ InArray(p)
  BY DEF IInv, ReleaseInv, Released
<1>2. x \in Nat /\ y \in Nat
  BY <1>1, BootmemConstants
<1>3. PICK k \in Index : /\ Usable(mem_regions, k) /\ mem_regions[k].start <= x
                         /\ y <= mem_regions[k].end
  BY <1>1 DEF InArray
<1>4. mem_regions[k].start \in Nat /\ mem_regions[k].end \in Nat
  BY DEF IInv, MemInv, RegionsInv, Region
<1>5. PageUnits(p) = x .. y - 1
  BY DEF PageUnits
<1> HIDE DEF x, y
<1>6. Beside(x, y, KERNEL_PHYS_START, KERNEL_PHYS_END)
  <2>1. ClearOfKernel(mem_regions[k].start, mem_regions[k].end)
    BY <1>3 DEF IInv, MemInv, RegionsInv
  <2>2. QED BY <1>2, <1>3, <1>4, <2>1, BootmemConstants DEF ClearOfKernel, Beside
<1>7. ASSUME NEW a \in allocs PROVE a[1] \in Nat /\ a[2] \in Nat /\ Beside(x, y, a[1], a[2])
  <2>1. a[1] \in Nat /\ a[2] \in Nat
    BY DEF IInv, MemInv, AllocsInv
  <2>2. Beside(mem_regions[k].start, mem_regions[k].end, a[1], a[2])
    BY <1>3 DEF IInv, MemInv, AllocsInv
  <2>3. QED BY <1>2, <1>3, <1>4, <2>1, <2>2 DEF Beside
<1>8. \A u, v \in Nat : Beside(x, y, u, v) => (x .. y - 1) \cap (u .. v - 1) = {}
  BY <1>2 DEF Beside
<1>9. QED BY <1>5, <1>6, <1>7, <1>8, BootmemConstants

-----------------------------------------------------------------------------
(* All that the map offers is kept *)

\* The page p lies in the region k of the array
Within(R, k, p) ==
  Usable(R, k) /\ R[k].start <= p * PAGE_SIZE /\ (p + 1) * PAGE_SIZE <= R[k].end

KernelPage(p) == kernel_start <= p * PAGE_SIZE /\ (p + 1) * PAGE_SIZE <= kernel_end

\* Some of the page was handed out
Touched(A, p) ==
  \E a \in A : a[1] < a[2] /\ a[1] < (p + 1) * PAGE_SIZE /\ p * PAGE_SIZE < a[2]

Accounted(R, A, p) ==
  KernelPage(p) \/ Touched(A, p) \/ \E k \in Index : Within(R, k, p)

\* The regions are at the front of the array, none at address 0
Packed(R, c) ==
  \A k \in Index : IF k <= c THEN R[k].start # 0 ELSE R[k] = Empty

\* The pages of every region have a page struct
HighEnough(R, h) == \A k \in Index : PA_TO_PFN(R[k].end) <= h

\* While there was room, each page of an entry of the map is accounted for
Kept(R, c, m, A) ==
  c < MAX_MEM_REGIONS =>
    \A r \in m, p \in Nat :
      r[2] < ADDR_LIMIT /\ r[1] <= p * PAGE_SIZE /\ (p + 1) * PAGE_SIZE <= r[2]
        => Accounted(R, A, p)

\* The loops have released exactly what is behind them, each page once
ProgressInv ==
  /\ \A p \in DOMAIN freed : freed[p] <= 1
  /\ phase = "free" => \A p \in Nat, k \in Index : Within(mem_regions, k, p) =>
       (p \in Released <=> (k < i \/ (k = i /\ p * PAGE_SIZE < first_page)))
  /\ phase = "done" => \A p \in Nat, k \in Index : Within(mem_regions, k, p) => p \in Released

KeptInv ==
  /\ Packed(mem_regions, region_count)
  /\ HighEnough(mem_regions, highest_pfn)
  /\ Kept(mem_regions, region_count, map, allocs)
  /\ ProgressInv

-----------------------------------------------------------------------------
(* Pages *)

\* Of two multiples of a page the smaller is a page below.
LEMMA PageSteps ==
  ASSUME NEW p \in Nat, NEW q \in Nat
  PROVE  /\ p * PAGE_SIZE \in Nat
         /\ (p + 1) * PAGE_SIZE = p * PAGE_SIZE + PAGE_SIZE
         /\ p * PAGE_SIZE < q * PAGE_SIZE <=> p < q
         /\ p * PAGE_SIZE < q * PAGE_SIZE => (p + 1) * PAGE_SIZE <= q * PAGE_SIZE
<1>1. p * PAGE_SIZE \in Nat /\ (p + 1) * PAGE_SIZE = p * PAGE_SIZE + PAGE_SIZE
  BY BootmemConstants
<1>2. p < q => (p + 1) * PAGE_SIZE <= q * PAGE_SIZE
  BY BootmemConstants
<1>3. q <= p => q * PAGE_SIZE <= p * PAGE_SIZE
  BY BootmemConstants
<1>4. q * PAGE_SIZE \in Nat
  BY BootmemConstants
<1>5. QED BY <1>1, <1>2, <1>3, <1>4, BootmemConstants

\* ALIGN() gives the least multiple that is not below.
LEMMA AlignLeast ==
  ASSUME NEW a \in Nat, NEW n \in Nat \ {0}
  PROVE  /\ ALIGN(a, n) < a + n
         /\ \A p \in Nat : a <= p * n => ALIGN(a, n) <= p * n
<1> DEFINE c == a + n - 1
           q == c \div n
<1>1. c \in Nat
  OBVIOUS
<1>2. q \in Nat /\ q * n <= c
  BY <1>1, Rounding
<1>3. ALIGN(a, n) = q * n
  BY DEF ALIGN
<1> HIDE DEF q
<1>4. q * n \in Nat
  BY <1>2
<1>5. ALIGN(a, n) < a + n
  BY <1>2, <1>3, <1>4
<1>6. ASSUME NEW p \in Nat, a <= p * n PROVE q * n <= p * n
  <2>1. p * n \in Nat /\ (p + 1) * n = p * n + n
    OBVIOUS
  <2>2. q * n < (p + 1) * n
    BY <1>2, <1>4, <1>6, <2>1
  <2>3. p + 1 <= q => (p + 1) * n <= q * n
    BY <1>2
  <2>4. q <= p
    BY <1>2, <1>4, <2>1, <2>2, <2>3
  <2>5. QED BY <1>2, <2>4
<1>7. QED BY <1>3, <1>5, <1>6

\* A page that ends at or below a ends at or below a rounded down.
LEMMA DownGreatest ==
  ASSUME NEW a \in Nat, NEW p \in Nat, (p + 1) * PAGE_SIZE <= a
  PROVE  (p + 1) * PAGE_SIZE <= PAGE_ALIGN_DOWN(a) /\ p < PA_TO_PFN(a)
<1> DEFINE q == a \div PAGE_SIZE
<1>1. q \in Nat /\ a < q * PAGE_SIZE + PAGE_SIZE
  BY BootmemConstants, Rounding
<1>2. PAGE_ALIGN_DOWN(a) = q * PAGE_SIZE /\ PA_TO_PFN(a) = q
  BY DEF PAGE_ALIGN_DOWN, ALIGN_DOWN, PA_TO_PFN
<1> HIDE DEF q
<1>3. /\ q * PAGE_SIZE \in Nat /\ (q + 1) * PAGE_SIZE = q * PAGE_SIZE + PAGE_SIZE
      /\ p * PAGE_SIZE \in Nat /\ (p + 1) * PAGE_SIZE = p * PAGE_SIZE + PAGE_SIZE
  BY <1>1, PageSteps
<1>4. p * PAGE_SIZE < q * PAGE_SIZE
  BY <1>1, <1>3, BootmemConstants
<1>5. p < q /\ (p + 1) * PAGE_SIZE <= q * PAGE_SIZE
  BY <1>1, <1>4, PageSteps
<1>6. QED BY <1>2, <1>5

\* The kernel occupies whole pages.
LEMMA KernelPages ==
  \E a, b \in Nat : kernel_start = a * PAGE_SIZE /\ kernel_end = b * PAGE_SIZE
<1>1. \E a \in Nat : kernel_start = a * PAGE_SIZE
  BY BootmemConstants, AlignUp, Zenon DEF kernel_start, PAGE_ALIGN
<1>2. \E b \in Nat : kernel_end = b * PAGE_SIZE
  BY BootmemConstants, AlignUp, Zenon DEF kernel_end, PAGE_ALIGN
<1>3. QED BY <1>1, <1>2, Zenon

-----------------------------------------------------------------------------
(* Registering memory *)

\* The array n of regions follows b: what b holds is in n as well
Follows(b, n) ==
  /\ b.count <= n.count
  /\ \A k \in Index, p \in Nat : Within(b.regions, k, p) => Within(n.regions, k, p)

\* The array n has all pages of [x, y), if it was large enough
Holds(n, x, y) ==
  n.count < MAX_MEM_REGIONS =>
    \A p \in Nat : x <= p * PAGE_SIZE /\ (p + 1) * PAGE_SIZE <= y =>
      \E k \in Index : Within(n.regions, k, p)

InOrder(b) == Packed(b.regions, b.count) /\ HighEnough(b.regions, b.highest)

\* Store() uses the first entry that is vacant, unless the array is full.
LEMMA StoreKeeps ==
  ASSUME NEW b \in State, NEW s \in Nat \ {0}, NEW e \in Nat, NEW t \in Types, InOrder(b)
  PROVE  LET n == Store(b, s, e, t) IN
         n \in State /\ InOrder(n) /\ Follows(b, n) /\ Holds(n, s, e)
<1> DEFINE n == Store(b, s, e, t)
           vacant == {k \in Index : b.regions[k].start = 0}
           high == Max({b.highest, PA_TO_PFN(e)})
           v == Min(vacant)
           new == [start |-> s, end |-> e, type |-> t]
<1> SUFFICES n \in State /\ InOrder(n) /\ Follows(b, n) /\ Holds(n, s, e)
  OBVIOUS
<1>1. n \in State
  BY StoreShape
<1>2. b.count \in 0 .. MAX_MEM_REGIONS /\ b.regions \in [Index -> Region] /\ b.highest \in Nat
  BY DEF State
<1>3. CASE b.count = MAX_MEM_REGIONS
  <2>1. n = b
    BY <1>3 DEF Store
  <2> HIDE DEF n
  <2>2. QED BY <1>1, <1>2, <1>3, <2>1, BootmemConstants DEF Follows, Holds
<1>4. CASE b.count # MAX_MEM_REGIONS
  <2>1. b.count + 1 \in Index /\ b.count + 1 \in vacant
    <3>1. b.count + 1 \in Index /\ ~(b.count + 1 <= b.count)
      BY <1>2, <1>4, BootmemConstants DEF Index
    <3>2. b.regions[b.count + 1] = Empty
      BY <3>1 DEF InOrder, Packed
    <3>3. QED BY <3>1, <3>2 DEF Empty
  <2>2. \A k \in vacant : b.count < k
    BY <1>2, BootmemConstants DEF InOrder, Packed, Index
  <2>3. v = b.count + 1
    <3>1. vacant \subseteq Nat /\ vacant # {}
      BY <2>1, BootmemConstants DEF Index
    <3>2. v \in vacant /\ v <= b.count + 1
      <4> HIDE DEF vacant
      <4>1. QED BY <2>1, <3>1, MinIsLeast, Zenon
    <3>3. b.count < v /\ v \in Nat
      BY <2>2, <3>1, <3>2, Zenon
    <3> HIDE DEF v
    <3>4. QED BY <1>2, <3>2, <3>3
  <2>4. n = [b EXCEPT !.regions[v] = new, !.count = @ + 1, !.highest = high]
    BY <1>4, <2>1 DEF Store
  <2>5. PA_TO_PFN(e) \in Nat
    BY BootmemConstants, Rounding DEF PA_TO_PFN
  <2>6. high \in Nat /\ high >= b.highest /\ high >= PA_TO_PFN(e)
    BY <1>2, <2>5, MaxBounds, Zenon
  <2> HIDE DEF n, v, vacant, high
  <2>7. /\ n.regions = [b.regions EXCEPT ![v] = new] /\ n.count = b.count + 1
        /\ n.highest = high
    BY <2>4 DEF State
  <2>8. v \in Index
    BY <2>1, <2>3
  <2>9. n.regions[v] = new /\ \A k \in Index \ {v} : n.regions[k] = b.regions[k]
    BY <1>2, <2>7, <2>8
  <2>10. Packed(n.regions, n.count)
    <3> SUFFICES ASSUME NEW k \in Index
                 PROVE  IF k <= n.count THEN n.regions[k].start # 0 ELSE n.regions[k] = Empty
      BY DEF Packed
    <3>1. IF k <= b.count THEN b.regions[k].start # 0 ELSE b.regions[k] = Empty
      BY DEF InOrder, Packed
    <3>2. CASE k = v
      <4>1. k <= n.count
        BY <1>2, <2>3, <2>7, <3>2
      <4>2. n.regions[k].start # 0
        BY <2>9, <3>2
      <4>3. QED BY <4>1, <4>2
    <3>3. CASE k # v
      <4>1. k <= n.count <=> k <= b.count
        BY <1>2, <2>3, <2>7, <3>3, BootmemConstants DEF Index
      <4>2. QED BY <2>9, <3>1, <3>3, <4>1
    <3>4. QED BY <3>2, <3>3
  <2>11. HighEnough(n.regions, n.highest)
    <3> SUFFICES ASSUME NEW k \in Index PROVE PA_TO_PFN(n.regions[k].end) <= high
      BY <2>7 DEF HighEnough
    <3>1. CASE k = v
      BY <2>6, <2>5, <2>9, <3>1
    <3>2. CASE k # v
      <4>1. b.regions[k].end \in Nat
        BY <1>2 DEF Region
      <4>2. PA_TO_PFN(b.regions[k].end) \in Nat
        BY <4>1, BootmemConstants, Rounding DEF PA_TO_PFN
      <4>3. PA_TO_PFN(b.regions[k].end) <= b.highest
        BY DEF InOrder, HighEnough
      <4>4. PA_TO_PFN(n.regions[k].end) = PA_TO_PFN(b.regions[k].end)
        BY <2>9, <3>2
      <4>5. QED BY <1>2, <2>6, <4>2, <4>3, <4>4
    <3>3. QED BY <3>1, <3>2
  <2>12. Follows(b, n)
    <3>1. b.count <= n.count
      BY <1>2, <2>7
    <3>2. ASSUME NEW k \in Index, NEW p \in Nat, Within(b.regions, k, p)
          PROVE  Within(n.regions, k, p)
      <4>1. k # v
        <5>1. b.regions[b.count + 1] = Empty
          BY <1>2, <2>1, BootmemConstants DEF InOrder, Packed
        <5>2. ~(b.regions[v].start < b.regions[v].end)
          BY <2>3, <5>1 DEF Empty
        <5>3. QED BY <3>2, <5>2 DEF Within, Usable
      <4>2. n.regions[k] = b.regions[k]
        BY <2>9, <4>1
      <4>3. QED BY <3>2, <4>2 DEF Within, Usable
    <3>3. QED BY <3>1, <3>2 DEF Follows
  <2>13. Holds(n, s, e)
    <3> SUFFICES ASSUME NEW p \in Nat, s <= p * PAGE_SIZE, (p + 1) * PAGE_SIZE <= e
                 PROVE  Within(n.regions, v, p)
      BY <2>8 DEF Holds
    <3>1. n.regions[v].start = s /\ n.regions[v].end = e
      BY <2>9
    <3>2. s < e
      BY PageSteps, BootmemConstants
    <3>3. QED BY <3>1, <3>2 DEF Within, Usable
  <2>14. QED BY <1>1, <2>10, <2>11, <2>12, <2>13 DEF InOrder
<1>5. QED BY <1>3, <1>4

\* However the region lies to the kernel, its pages that are not the kernel's are stored.
LEMMA AdjustKeeps ==
  ASSUME NEW b \in State, NEW s \in Nat \ {0}, NEW e \in Nat, NEW t \in Types, InOrder(b)
  PROVE  LET n == Adjust(b, s, e, t) IN
         /\ n \in State /\ InOrder(n) /\ Follows(b, n)
         /\ n.count < MAX_MEM_REGIONS =>
              \A p \in Nat : s <= p * PAGE_SIZE /\ (p + 1) * PAGE_SIZE <= e =>
                KernelPage(p) \/ \E k \in Index : Within(n.regions, k, p)
<1> DEFINE n == Adjust(b, s, e, t)
<1>1. PICK ks \in Nat, ke \in Nat :
        kernel_start = ks * PAGE_SIZE /\ kernel_end = ke * PAGE_SIZE
  BY KernelPages
<1>2. kernel_start \in Nat /\ kernel_end \in Nat
  BY KernelBounds
<1>3. kernel_start < kernel_end
  BY KernelBounds, BootmemConstants
<1>4. \A p \in Nat : /\ p * PAGE_SIZE \in Nat /\ (p + 1) * PAGE_SIZE \in Nat
                     /\ p * PAGE_SIZE < kernel_start => (p + 1) * PAGE_SIZE <= kernel_start
                     /\ p * PAGE_SIZE < kernel_end => (p + 1) * PAGE_SIZE <= kernel_end
  BY <1>1, PageSteps, BootmemConstants
<1>5. kernel_end \in Nat \ {0}
  BY <1>2, <1>3
<1>6. CASE Surrounds(s, e)
  <2> DEFINE c == Store(b, s, kernel_start, t)
             d == Store(c, kernel_end, e, t)
  <2>1. c \in State /\ InOrder(c) /\ Follows(b, c) /\ Holds(c, s, kernel_start)
    BY <1>2, StoreKeeps
  <2> HIDE DEF c
  <2>2. d \in State /\ InOrder(d) /\ Follows(c, d) /\ Holds(d, kernel_end, e)
    BY <1>5, <2>1, StoreKeeps
  <2> HIDE DEF d
  <2>3. n = d
    BY <1>2, <1>3, <1>6 DEF Adjust, Surrounds, OverlapsHead, OverlapsTail, c, d
  <2>4. b.count \in Nat /\ c.count \in Nat /\ d.count \in Nat
    BY <2>1, <2>2, BootmemConstants DEF State
  <2>5. Follows(b, d)
    BY <2>1, <2>2, <2>4 DEF Follows
  <2>6. ASSUME d.count < MAX_MEM_REGIONS, NEW p \in Nat,
               s <= p * PAGE_SIZE, (p + 1) * PAGE_SIZE <= e
        PROVE  KernelPage(p) \/ \E k \in Index : Within(d.regions, k, p)
    <3>1. CASE p * PAGE_SIZE < kernel_start
      <4>1. c.count < MAX_MEM_REGIONS
        BY <2>2, <2>4, <2>6, BootmemConstants DEF Follows
      <4>2. PICK k \in Index : Within(c.regions, k, p)
        BY <1>4, <2>1, <2>6, <3>1, <4>1, Zenon DEF Holds
      <4>3. QED BY <2>2, <4>2 DEF Follows
    <3>2. CASE p * PAGE_SIZE >= kernel_end
      BY <2>2, <2>6, <3>2 DEF Holds
    <3>3. CASE ~(p * PAGE_SIZE < kernel_start) /\ ~(p * PAGE_SIZE >= kernel_end)
      BY <1>2, <1>4, <3>3 DEF KernelPage
    <3>4. QED BY <3>1, <3>2, <3>3
  <2>7. QED BY <2>2, <2>3, <2>5, <2>6
<1>7. CASE OverlapsHead(s, e) /\ ~Surrounds(s, e)
  <2> DEFINE c == Store(b, s, kernel_start, t)
  <2>1. c \in State /\ InOrder(c) /\ Follows(b, c) /\ Holds(c, s, kernel_start)
    BY <1>2, StoreKeeps
  <2> HIDE DEF c
  <2>2. n = c
    BY <1>7, <1>2, <1>3 DEF Adjust, OverlapsHead, OverlapsTail, c
  <2>3. e <= kernel_end
    BY <1>2, <1>7 DEF OverlapsHead, Surrounds
  <2>4. ASSUME c.count < MAX_MEM_REGIONS, NEW p \in Nat,
               s <= p * PAGE_SIZE, (p + 1) * PAGE_SIZE <= e
        PROVE  KernelPage(p) \/ \E k \in Index : Within(c.regions, k, p)
    <3>1. CASE p * PAGE_SIZE < kernel_start
      BY <1>4, <2>1, <2>4, <3>1 DEF Holds
    <3>2. CASE ~(p * PAGE_SIZE < kernel_start)
      BY <1>2, <1>4, <2>3, <2>4, <3>2 DEF KernelPage
    <3>3. QED BY <3>1, <3>2
  <2>5. QED BY <2>1, <2>2, <2>4
<1>8. CASE OverlapsTail(s, e) /\ s >= kernel_start
  <2> DEFINE c == Store(b, kernel_end, e, t)
  <2>1. c \in State /\ InOrder(c) /\ Follows(b, c) /\ Holds(c, kernel_end, e)
    BY <1>5, StoreKeeps
  <2> HIDE DEF c
  <2>2. n = c
    BY <1>8, <1>2, <1>3 DEF Adjust, OverlapsHead, OverlapsTail, Surrounds, c
  <2>3. ASSUME c.count < MAX_MEM_REGIONS, NEW p \in Nat,
               s <= p * PAGE_SIZE, (p + 1) * PAGE_SIZE <= e
        PROVE  KernelPage(p) \/ \E k \in Index : Within(c.regions, k, p)
    <3>1. CASE p * PAGE_SIZE < kernel_end
      BY <1>2, <1>4, <1>8, <2>3, <3>1 DEF KernelPage
    <3>2. CASE ~(p * PAGE_SIZE < kernel_end)
      <4>1. kernel_end <= p * PAGE_SIZE
        BY <1>2, <1>4, <3>2
      <4>2. QED BY <2>1, <2>3, <4>1 DEF Holds
    <3>3. QED BY <3>1, <3>2
  <2>4. QED BY <2>1, <2>2, <2>3
<1>9. CASE ~OverlapsHead(s, e) /\ ~(OverlapsTail(s, e) /\ s >= kernel_start) /\ ~Surrounds(s, e)
  <2> DEFINE c == Store(b, s, e, t)
  <2>1. c \in State /\ InOrder(c) /\ Follows(b, c) /\ Holds(c, s, e)
    BY StoreKeeps
  <2> HIDE DEF c
  <2>2. n = c
    BY <1>9 DEF Adjust, c
  <2>3. QED BY <2>1, <2>2 DEF Holds
<1>10. QED BY <1>6, <1>7, <1>8, <1>9

\* Registering an entry, aligned inwards, keeps its pages and those there are.
LEMMA RegisterKeeps ==
  ASSUME IInv, KeptInv, NEW r \in Nat \X Nat \X Types, NEW end \in Nat,
         r[1] # 0, r[2] < ADDR_LIMIT => end = r[2], register(r, r[1], end, r[3])
  PROVE  KeptInv'
<1> DEFINE s == PAGE_ALIGN(r[1])
           e == PAGE_ALIGN_DOWN(end)
           b == [regions |-> mem_regions, count |-> region_count, highest |-> highest_pfn]
           n == IF Refused(b, s, e) THEN b ELSE Adjust(b, s, e, r[3])
<1>1. /\ phase = "map" /\ map' = map \cup {r}
      /\ mem_regions' = n.regions /\ region_count' = n.count /\ highest_pfn' = n.highest
      /\ UNCHANGED <<phase, i, first_page, allocs, freed>>
  BY DEF register, bootmem_add_mem_region
<1>2. b \in State /\ InOrder(b)
  BY DEF State, IInv, MemInv, RegionsInv, KeptInv, InOrder
<1>3. r[1] \in Nat /\ r[3] \in Types /\ r[2] \in Nat
  OBVIOUS
<1>4. s \in Nat /\ r[1] <= s
  BY <1>3, AlignUp, BootmemConstants, Zenon DEF PAGE_ALIGN
<1>5. e \in Nat
  BY AlignDown, BootmemConstants, Zenon DEF PAGE_ALIGN_DOWN
<1>6. \A p \in Nat : r[1] <= p * PAGE_SIZE => s <= p * PAGE_SIZE
  BY <1>3, AlignLeast, BootmemConstants, Zenon DEF PAGE_ALIGN
<1>7. \A p \in Nat : (p + 1) * PAGE_SIZE <= end => (p + 1) * PAGE_SIZE <= e
  BY DownGreatest, Zenon
<1>8. \A p \in Nat : /\ p * PAGE_SIZE \in Nat
                     /\ (p + 1) * PAGE_SIZE = p * PAGE_SIZE + PAGE_SIZE
  BY PageSteps, Zenon
<1> HIDE DEF s, e
<1>9. s \in Nat \ {0}
  BY <1>3, <1>4
<1>10. /\ n \in State /\ InOrder(n) /\ Follows(b, n)
       /\ n.count < MAX_MEM_REGIONS =>
            \A p \in Nat : s <= p * PAGE_SIZE /\ (p + 1) * PAGE_SIZE <= e =>
              KernelPage(p) \/ \E k \in Index : Within(n.regions, k, p)
  <2>1. CASE ~Refused(b, s, e)
    <3>1. n = Adjust(b, s, e, r[3])
      BY <2>1
    <3> HIDE DEF b, n
    <3>2. QED BY <1>2, <1>3, <1>5, <1>9, <3>1, AdjustKeeps, Zenon
  <2>2. CASE Refused(b, s, e)
    <3>1. n = b
      BY <2>2
    <3> HIDE DEF b, n
    <3>2. Follows(b, n)
      BY <1>2, <3>1, BootmemConstants DEF Follows, State
    <3>3. ASSUME n.count < MAX_MEM_REGIONS, NEW p \in Nat,
                 s <= p * PAGE_SIZE, (p + 1) * PAGE_SIZE <= e
          PROVE  KernelPage(p)
      <4>1. s >= kernel_start /\ e < kernel_end
        <5>1. b.count # MAX_MEM_REGIONS
          BY <3>1, <3>3, BootmemConstants
        <5>2. ~(e - s < PAGE_SIZE)
          BY <1>4, <1>5, <1>8, <3>3, BootmemConstants
        <5>3. QED BY <2>2, <5>1, <5>2 DEF Refused
      <4>2. QED BY <1>4, <1>5, <1>8, <3>3, <4>1, KernelBounds, BootmemConstants DEF KernelPage
    <3>4. QED BY <1>2, <3>1, <3>2, <3>3
  <2>3. QED BY <2>1, <2>2, Zenon
<1>11. b.regions = mem_regions /\ b.count = region_count
  OBVIOUS
<1>12. region_count \in Nat /\ n.count >= region_count
       /\ \A k \in Index, p \in Nat : Within(mem_regions, k, p) => Within(n.regions, k, p)
  <2>1. region_count \in Nat
    BY BootmemConstants DEF IInv, MemInv
  <2> HIDE DEF b, n
  <2>2. region_count <= n.count
    BY <1>10, <1>11 DEF Follows
  <2>3. QED BY <1>10, <1>11, <2>1, <2>2 DEF Follows
<1> HIDE DEF b, n
<1>13. Kept(n.regions, n.count, map \cup {r}, allocs)
  <2> SUFFICES ASSUME n.count < MAX_MEM_REGIONS, NEW q \in map \cup {r}, NEW p \in Nat,
                      q[2] < ADDR_LIMIT, q[1] <= p * PAGE_SIZE, (p + 1) * PAGE_SIZE <= q[2]
               PROVE  Accounted(n.regions, allocs, p)
    BY DEF Kept
  <2>1. CASE q \in map
    <3>1. region_count < MAX_MEM_REGIONS
      <4>1. n.count \in Nat
        BY <1>10, BootmemConstants DEF State
      <4>2. QED BY <1>12, <4>1, BootmemConstants
    <3>2. Accounted(mem_regions, allocs, p)
      BY <2>1, <3>1 DEF KeptInv, Kept
    <3>3. QED BY <1>12, <3>2 DEF Accounted
  <2>2. CASE q = r
    <3>1. s <= p * PAGE_SIZE /\ (p + 1) * PAGE_SIZE <= e
      BY <1>6, <1>7, <2>2
    <3>2. QED BY <1>10, <3>1 DEF Accounted
  <2>3. QED BY <2>1, <2>2
<1>14. ProgressInv'
  <2>1. Released' = Released
    BY <1>1 DEF Released
  <2>2. QED BY <1>1, <2>1 DEF KeptInv, ProgressInv
<1>15. QED BY <1>1, <1>10, <1>13, <1>14 DEF KeptInv, InOrder

-----------------------------------------------------------------------------
(* Handing it out *)

\* The gap that aligning leaves is smaller than a page, so a page is left over whole, or
\* some of it was handed out.
LEMMA AllocKeeps ==
  ASSUME MemInv, Packed(mem_regions, region_count), HighEnough(mem_regions, highest_pfn),
         Kept(mem_regions, region_count, map, allocs),
         NEW size \in Nat \ {0}, NEW alignment \in Nat \ {0}, alignment <= PAGE_SIZE,
         Possible(size, alignment), bootmem_alloc(size, alignment),
         UNCHANGED <<region_count, highest_pfn, map>>
  PROVE  /\ Packed(mem_regions, region_count)'
         /\ HighEnough(mem_regions, highest_pfn)'
         /\ Kept(mem_regions, region_count, map, allocs)'
<1> DEFINE F == {j \in Index : Fits(j, size, alignment)}
           k == Min(F)
           st == ALIGN(mem_regions[k].start, alignment)
<1>1. k \in Index /\ Fits(k, size, alignment)
  <2>1. F # {} /\ F \subseteq Nat
    BY BootmemConstants DEF Possible, Index
  <2> HIDE DEF F
  <2>2. k \in F
    BY <2>1, MinIsLeast, Zenon
  <2> USE DEF F
  <2>3. QED BY <2>2
<1>2. mem_regions' = [mem_regions EXCEPT ![k].start = st + size]
      /\ allocs' = allocs \cup {<<st, st + size>>}
  BY DEF bootmem_alloc, Take
<1> HIDE DEF k
<1>3. /\ mem_regions \in [Index -> Region]
      /\ mem_regions[k].start \in Nat /\ mem_regions[k].end \in Nat
  BY <1>1 DEF MemInv, RegionsInv, Region
<1>4. st \in Nat /\ mem_regions[k].start <= st
  BY <1>3, AlignUp, Zenon
<1>5. st < mem_regions[k].start + alignment
  BY <1>3, AlignLeast, Zenon
<1>6. st < mem_regions[k].end
  BY <1>1 DEF Fits
<1> HIDE DEF st
<1>7. /\ mem_regions'[k].start = st + size /\ mem_regions'[k].end = mem_regions[k].end
      /\ \A j \in Index \ {k} : mem_regions'[j] = mem_regions[j]
  BY <1>1, <1>2, <1>3 DEF Region
<1>8. k <= region_count
  BY <1>1, <1>3, <1>4, <1>6 DEF Packed, Empty
<1>9. Packed(mem_regions, region_count)'
  <2>1. st + size # 0
    BY <1>4
  <2>2. \A j \in Index : IF j <= region_count THEN mem_regions'[j].start # 0
                                              ELSE mem_regions'[j] = Empty
    <3> SUFFICES ASSUME NEW j \in Index
                 PROVE  IF j <= region_count THEN mem_regions'[j].start # 0
                                             ELSE mem_regions'[j] = Empty
      OBVIOUS
    <3>1. CASE j = k
      BY <1>7, <1>8, <2>1, <3>1
    <3>2. CASE j # k
      BY <1>7, <3>2 DEF Packed
    <3>3. QED BY <3>1, <3>2
  <2>3. QED BY <2>2 DEF Packed
<1>10. HighEnough(mem_regions, highest_pfn)'
  BY <1>7 DEF HighEnough
<1>11. ASSUME NEW p \in Nat, NEW j \in Index, Within(mem_regions, j, p)
       PROVE  Touched(allocs', p) \/ Within(mem_regions', j, p)
  <2>1. CASE j # k
    BY <1>7, <1>11, <2>1 DEF Within, Usable
  <2>2. CASE j = k
    <3> DEFINE a == <<st, st + size>>
    <3>1. /\ mem_regions[k].start <= p * PAGE_SIZE
          /\ (p + 1) * PAGE_SIZE <= mem_regions[k].end
      BY <1>11, <2>2 DEF Within
    <3>2. p * PAGE_SIZE \in Nat /\ (p + 1) * PAGE_SIZE = p * PAGE_SIZE + PAGE_SIZE
      BY PageSteps
    <3>3. st < (p + 1) * PAGE_SIZE
      BY <1>3, <1>4, <1>5, <3>1, <3>2, BootmemConstants
    <3>4. CASE p * PAGE_SIZE < st + size
      <4>1. a \in allocs' /\ a[1] = st /\ a[2] = st + size
        BY <1>2
      <4>2. a[1] < a[2] /\ a[1] < (p + 1) * PAGE_SIZE /\ p * PAGE_SIZE < a[2]
        BY <1>4, <3>3, <3>4, <4>1
      <4>3. QED BY <4>1, <4>2 DEF Touched
    <3>5. CASE ~(p * PAGE_SIZE < st + size)
      <4>1. st + size <= p * PAGE_SIZE /\ st + size < mem_regions[k].end
        BY <1>3, <1>4, <3>1, <3>2, <3>5, BootmemConstants
      <4>2. QED BY <1>7, <2>2, <3>1, <4>1 DEF Within, Usable
    <3>6. QED BY <3>4, <3>5
  <2>3. QED BY <2>1, <2>2
<1>12. \A p \in Nat : Accounted(mem_regions, allocs, p) => Accounted(mem_regions', allocs', p)
  <2>1. \A p \in Nat : Touched(allocs, p) => Touched(allocs', p)
    BY <1>2 DEF Touched
  <2>2. QED BY <1>11, <2>1 DEF Accounted
<1>13. Kept(mem_regions, region_count, map, allocs)'
  BY <1>12 DEF Kept
<1>14. QED BY <1>9, <1>10, <1>13

-----------------------------------------------------------------------------
(* Releasing the rest *)

\* No page lies in two regions.
LEMMA OneRegion ==
  ASSUME IInv, NEW p \in Nat, NEW j \in Index, NEW k \in Index,
         Within(mem_regions, j, p), Within(mem_regions, k, p)
  PROVE  j = k
<1> SUFFICES ASSUME j # k PROVE FALSE
  OBVIOUS
<1>1. /\ mem_regions[j].start \in Nat /\ mem_regions[j].end \in Nat
      /\ mem_regions[k].start \in Nat /\ mem_regions[k].end \in Nat
  BY DEF IInv, MemInv, RegionsInv, Region
<1>2. Beside(mem_regions[j].start, mem_regions[j].end, mem_regions[k].start, mem_regions[k].end)
  BY DEF IInv, MemInv, RegionsInv, Within
<1>3. p * PAGE_SIZE \in Nat /\ (p + 1) * PAGE_SIZE = p * PAGE_SIZE + PAGE_SIZE
  BY PageSteps
<1>4. QED BY <1>1, <1>2, <1>3, BootmemConstants DEF Within, Beside

\* The loop over the regions enters region k at the first of its pages.
LEMMA EnterKeeps ==
  ASSUME IInv, NEW k \in Nat, EnterRegion(k)
  PROVE  \A p \in Nat : k \in Index /\ Within(mem_regions, k, p) => ~(p * PAGE_SIZE < first_page')
<1> SUFFICES ASSUME NEW p \in Nat, k \in Index, Within(mem_regions, k, p)
             PROVE  ~(p * PAGE_SIZE < first_page')
  OBVIOUS
<1>1. mem_regions[k].start \in Nat /\ mem_regions[k].start <= p * PAGE_SIZE
  BY DEF IInv, MemInv, RegionsInv, Region, Within
<1>2. first_page' = ALIGN(mem_regions[k].start, PAGE_SIZE)
  BY DEF EnterRegion, PAGE_ALIGN
<1>3. first_page' <= p * PAGE_SIZE
  BY <1>1, <1>2, AlignLeast, BootmemConstants, Zenon
<1>4. first_page' \in Nat
  BY <1>1, <1>2, AlignUp, BootmemConstants, Zenon
<1>5. QED BY <1>3, <1>4, PageSteps

\* A page is released that was not released before.
LEMMA ReleasePageKeeps ==
  ASSUME IInv, ProgressInv, mark_free_page
  PROVE  ProgressInv'
<1>1. /\ phase = "free" /\ i <= region_count
      /\ mem_regions[i].start # 0 /\ first_page < end_page(i)
      /\ freed' = [p \in DOMAIN freed \cup {PA_TO_PFN(first_page)} |->
                     (IF p \in DOMAIN freed THEN freed[p] ELSE 0)
                     + (IF p = PA_TO_PFN(first_page) THEN 1 ELSE 0)]
      /\ first_page' = first_page + PAGE_SIZE
      /\ UNCHANGED <<mem_regions, phase, i>>
  BY DEF mark_free_page, InRegion
<1>2. i \in Nat /\ i \in Index
  <2>1. i <= region_count /\ i \in Nat \ {0}
    BY <1>1 DEF IInv, ReleaseInv
  <2>2. region_count \in 0 .. MAX_MEM_REGIONS
    BY DEF IInv, MemInv
  <2>3. QED BY <2>1, <2>2, BootmemConstants DEF Index
<1>3. PICK n \in Nat : first_page = n * PAGE_SIZE
  BY <1>1 DEF IInv, ReleaseInv
<1>4. mem_regions[i].start <= first_page /\ mem_regions[i].start \in Nat
      /\ mem_regions[i].end \in Nat
  BY <1>1, <1>2 DEF IInv, ReleaseInv, MemInv, RegionsInv, Region
<1>5. PA_TO_PFN(first_page) = n
  BY <1>3, BootmemConstants DEF PA_TO_PFN
<1>6. Within(mem_regions, i, n)
  <2> DEFINE d == mem_regions[i].end \div PAGE_SIZE
  <2>1. d \in Nat /\ d * PAGE_SIZE <= mem_regions[i].end
    BY <1>4, Rounding, BootmemConstants, Zenon
  <2>2. n * PAGE_SIZE < d * PAGE_SIZE
    BY <1>1, <1>3 DEF end_page, PAGE_ALIGN_DOWN, ALIGN_DOWN
  <2> HIDE DEF d
  <2>3. /\ (n + 1) * PAGE_SIZE <= d * PAGE_SIZE /\ n * PAGE_SIZE \in Nat
        /\ d * PAGE_SIZE \in Nat /\ (n + 1) * PAGE_SIZE = n * PAGE_SIZE + PAGE_SIZE
    BY <2>1, <2>2, PageSteps
  <2>4. QED BY <1>3, <1>4, <2>1, <2>2, <2>3, BootmemConstants DEF Within, Usable
<1>7. n \notin Released
  BY <1>1, <1>2, <1>3, <1>6, PageSteps DEF ProgressInv
<1>8. \A p \in DOMAIN freed : p \in Nat /\ freed[p] \in Nat /\ freed[p] <= 1
  BY DEF IInv, ReleaseInv, ProgressInv
<1>9. \A p \in DOMAIN freed' : freed'[p] <= 1
  <2>1. n \in DOMAIN freed => freed[n] = 0
    BY <1>7, <1>8 DEF Released
  <2>2. QED BY <1>1, <1>5, <1>8, <2>1
<1>10. Released' = Released \cup {n}
  BY <1>1, <1>5, <1>8 DEF Released
<1>11. ASSUME NEW p \in Nat, NEW k \in Index, Within(mem_regions, k, p)
       PROVE  p \in Released' <=> (k < i \/ (k = i /\ p * PAGE_SIZE < first_page'))
  <2>1. p \in Released <=> (k < i \/ (k = i /\ p * PAGE_SIZE < first_page))
    BY <1>1, <1>11 DEF ProgressInv
  <2>2. p = n => k = i
    BY <1>2, <1>6, <1>11, OneRegion
  <2>3. p * PAGE_SIZE < first_page' <=> (p * PAGE_SIZE < first_page \/ p = n)
    <3>1. first_page' = (n + 1) * PAGE_SIZE
      BY <1>1, <1>3, PageSteps
    <3>2. n + 1 \in Nat
      OBVIOUS
    <3>3. p * PAGE_SIZE < (n + 1) * PAGE_SIZE <=> p < n + 1
      BY <3>2, PageSteps
    <3>4. p * PAGE_SIZE < n * PAGE_SIZE <=> p < n
      BY PageSteps
    <3>5. QED BY <1>3, <3>1, <3>3, <3>4
  <2>4. QED BY <1>10, <2>1, <2>2, <2>3
<1>12. QED BY <1>1, <1>9, <1>11, Zenon DEF ProgressInv

\* The loop leaves a region when all of its pages are released.
LEMMA NextRegionKeeps ==
  ASSUME IInv, KeptInv, mark_free_next
  PROVE  ProgressInv'
<1>1. /\ phase = "free" /\ i <= region_count /\ ~InRegion
      /\ i' = i + 1 /\ EnterRegion(i + 1)
      /\ UNCHANGED <<mem_regions, phase, freed>>
  BY DEF mark_free_next
<1>2. i \in Nat /\ i + 1 \in Nat /\ Index \subseteq Nat
  BY <1>1, BootmemConstants DEF IInv, ReleaseInv, Index
<1>3. ASSUME NEW p \in Nat, i \in Index, Within(mem_regions, i, p)
      PROVE  p \in Released
  <2>1. mem_regions[i].start # 0
    BY <1>1, <1>3 DEF KeptInv, Packed
  <2>2. ~(first_page < end_page(i))
    BY <1>1, <2>1 DEF InRegion
  <2>3. mem_regions[i].end \in Nat
    BY <1>3 DEF IInv, MemInv, RegionsInv, Region
  <2>4. (p + 1) * PAGE_SIZE <= end_page(i) /\ end_page(i) \in Nat
    BY <1>3, <2>3, DownGreatest, AlignDown, BootmemConstants, Zenon DEF end_page, Within,
       PAGE_ALIGN_DOWN
  <2>5. first_page \in Nat
    BY <1>1, PageSteps DEF IInv, ReleaseInv
  <2>6. p * PAGE_SIZE < first_page
    BY <2>2, <2>4, <2>5, PageSteps, BootmemConstants
  <2>7. QED BY <1>1, <1>3, <2>6 DEF KeptInv, ProgressInv
<1>4. Released' = Released
  BY <1>1 DEF Released
<1>5. ASSUME NEW p \in Nat, NEW k \in Index, Within(mem_regions, k, p)
      PROVE  p \in Released <=> (k < i + 1 \/ (k = i + 1 /\ p * PAGE_SIZE < first_page'))
  <2>1. k = i + 1 => ~(p * PAGE_SIZE < first_page')
    BY <1>1, <1>2, <1>5, EnterKeeps
  <2>2. k = i => p \in Released
    BY <1>3, <1>5
  <2>3. k # i => (p \in Released <=> k < i)
    BY <1>1, <1>5 DEF KeptInv, ProgressInv
  <2>4. QED BY <1>2, <2>1, <2>2, <2>3
<1>6. QED BY <1>1, <1>4, <1>5 DEF KeptInv, ProgressInv

-----------------------------------------------------------------------------
(* Steps *)

\* Steps that leave bootmem's memory as it is, and neither enter the loops nor end them.
LEMMA AllKept ==
  ASSUME KeptInv, UNCHANGED <<mem_regions, region_count, highest_pfn, i, first_page, map,
                              allocs, freed>>,
         phase' \in {"free", "done"} => phase' = phase
  PROVE  KeptInv'
<1>1. Released' = Released
  BY DEF Released
<1>2. ProgressInv'
  BY <1>1 DEF KeptInv, ProgressInv
<1>3. QED BY <1>2 DEF KeptInv

\* bootmem_alloc() before buddy_init(), by whoever uses it.
LEMMA EarlyAllocKeeps ==
  ASSUME IInv, KeptInv, NEW size \in Nat \ {0}, NEW alignment \in Nat \ {0},
         alignment <= PAGE_SIZE,
         phase = "paging", Possible(size, alignment), bootmem_alloc(size, alignment),
         UNCHANGED <<region_count, highest_pfn, phase, map, freed>>
  PROVE  KeptInv'
<1>1. ProgressInv'
  BY DEF KeptInv, ProgressInv
<1>2. QED BY <1>1, AllocKeeps DEF IInv, KeptInv

\* The page structs, and the loops of bootmem_mark_free().
LEMMA BootmemStepKeeps ==
  ASSUME IInv, KeptInv,
         \/ paging_start \/ buddy_init
         \/ mark_free_start \/ mark_free_page \/ mark_free_next \/ mark_free_done
  PROVE  KeptInv'
<1>1. CASE paging_start
  BY <1>1, AllKept DEF paging_start, bootmemVars
<1>2. CASE buddy_init
  <2> DEFINE size == highest_pfn * StructSize
  <2>1. phase = "paging" /\ UNCHANGED <<region_count, highest_pfn, i, first_page, map>>
    BY <1>2 DEF buddy_init
  <2>2. CASE highest_pfn > 0 /\ Possible(size, 1)
    <3>1. /\ bootmem_alloc(size, 1) /\ phase' = "alloc"
          /\ freed' = [p \in 0 .. highest_pfn - 1 |-> 0]
      BY <1>2, <2>2 DEF buddy_init
    <3>2. size \in Nat \ {0} /\ highest_pfn \in Nat /\ 1 <= PAGE_SIZE
      BY <2>2, BootmemConstants DEF IInv, MemInv
    <3> HIDE DEF size
    <3>3. ProgressInv'
      BY <3>1 DEF ProgressInv
    <3>4. QED BY <2>1, <2>2, <3>1, <3>2, <3>3, AllocKeeps DEF IInv, KeptInv
  <2>3. CASE ~(highest_pfn > 0 /\ Possible(size, 1))
    <3>1. phase' = "panic" /\ UNCHANGED <<mem_regions, allocs, freed>>
      BY <1>2, <2>3 DEF buddy_init
    <3>2. QED BY <2>1, <3>1, AllKept
  <2>4. QED BY <2>2, <2>3
<1>3. CASE mark_free_start
  <2>1. /\ phase = "alloc" /\ phase' = "free" /\ i' = 1 /\ EnterRegion(1)
        /\ UNCHANGED <<mem_regions, region_count, highest_pfn, map, allocs, freed>>
    BY <1>3 DEF mark_free_start
  <2>2. Released = {} /\ Released' = {}
    BY <2>1 DEF IInv, ReleaseInv, Early, Released
  <2>3. ASSUME NEW p \in Nat, NEW k \in Index, Within(mem_regions, k, p)
        PROVE  ~(k < 1 \/ (k = 1 /\ p * PAGE_SIZE < first_page'))
    <3>1. ~(k < 1)
      BY BootmemConstants DEF Index
    <3>2. k = 1 => ~(p * PAGE_SIZE < first_page')
      BY <2>1, <2>3, EnterKeeps
    <3>3. QED BY <3>1, <3>2
  <2>4. ProgressInv'
    BY <2>1, <2>2, <2>3 DEF KeptInv, ProgressInv
  <2>5. QED BY <2>1, <2>4 DEF KeptInv
<1>4. CASE mark_free_page
  <2>1. UNCHANGED <<mem_regions, region_count, highest_pfn, map, allocs>>
    BY <1>4 DEF mark_free_page
  <2>2. QED BY <1>4, <2>1, ReleasePageKeeps DEF KeptInv
<1>5. CASE mark_free_next
  <2>1. UNCHANGED <<mem_regions, region_count, highest_pfn, map, allocs>>
    BY <1>5 DEF mark_free_next
  <2>2. QED BY <1>5, <2>1, NextRegionKeeps DEF KeptInv
<1>6. CASE mark_free_done
  <2>1. /\ phase = "free" /\ i > region_count /\ phase' = "done"
        /\ UNCHANGED <<mem_regions, region_count, highest_pfn, map, allocs, freed>>
    BY <1>6 DEF mark_free_done
  <2>2. Released' = Released
    BY <2>1 DEF Released
  <2>3. ASSUME NEW p \in Nat, NEW k \in Index, Within(mem_regions, k, p)
        PROVE  p \in Released
    <3>1. k <= region_count
      BY <2>3 DEF KeptInv, Packed, Within, Usable, Empty
    <3>2. k < i
      <4>1. k \in Nat /\ i \in Nat /\ region_count \in Nat
        BY <2>1, BootmemConstants DEF IInv, MemInv, ReleaseInv, Index
      <4>2. QED BY <2>1, <3>1, <4>1
    <3>3. QED BY <2>1, <2>3, <3>2 DEF KeptInv, ProgressInv
  <2>4. ProgressInv'
    BY <2>1, <2>2, <2>3 DEF KeptInv, ProgressInv
  <2>5. QED BY <2>1, <2>4 DEF KeptInv
<1>7. QED BY <1>1, <1>2, <1>3, <1>4, <1>5, <1>6

\* An empty array holds all of an empty map.
LEMMA EmptyKept ==
  ASSUME NEW A
  PROVE  LET R == [k \in Index |-> Empty] IN
         Packed(R, 0) /\ HighEnough(R, 0) /\ Kept(R, 0, {}, A)
<1> DEFINE R == [k \in Index |-> Empty]
<1>1. Packed(R, 0)
  BY BootmemConstants DEF Packed, Index
<1>2. HighEnough(R, 0)
  <2>1. 0 \div PAGE_SIZE = 0
    BY BootmemConstants
  <2>2. QED BY <2>1 DEF HighEnough, Empty, PA_TO_PFN
<1>3. Kept(R, 0, {}, A)
  BY DEF Kept
<1>4. QED BY <1>1, <1>2, <1>3

\* bootmem_reset() forgets everything.
LEMMA ResetKeeps ==
  ASSUME bootmem_reset
  PROVE  KeptInv'
<1>1. /\ mem_regions' = [k \in Index |-> Empty] /\ region_count' = 0 /\ highest_pfn' = 0
      /\ phase' = "map" /\ map' = {} /\ freed' = [p \in {} |-> 0]
  BY DEF bootmem_reset
<1>2. ProgressInv'
  BY <1>1 DEF ProgressInv
<1>3. QED BY <1>1, <1>2, EmptyKept DEF KeptInv

\* What is kept is released in the end, once, and has a page struct.
LEMMA InvOtherAreas == IInv /\ KeptInv => OtherAreasPreserved
<1> SUFFICES ASSUME IInv, KeptInv PROVE OtherAreasPreserved
  OBVIOUS
<1>1. ASSUME NEW p \in DOMAIN freed
      PROVE  freed[p] <= 1 /\ (freed[p] = 1 => p < highest_pfn)
  <2>1. freed[p] <= 1
    BY DEF KeptInv, ProgressInv
  <2>2. ASSUME freed[p] = 1 PROVE p < highest_pfn
    <3>1. p \in Nat /\ InArray(p)
      BY <2>2 DEF IInv, ReleaseInv, Released
    <3>2. PICK k \in Index : (p + 1) * PAGE_SIZE <= mem_regions[k].end
      BY <3>1 DEF InArray
    <3>3. mem_regions[k].end \in Nat
      BY DEF IInv, MemInv, RegionsInv, Region
    <3>4. p < PA_TO_PFN(mem_regions[k].end)
      BY <3>1, <3>2, <3>3, DownGreatest
    <3>5. PA_TO_PFN(mem_regions[k].end) <= highest_pfn
      BY DEF KeptInv, HighEnough
    <3>6. PA_TO_PFN(mem_regions[k].end) \in Nat /\ highest_pfn \in Nat
      BY <3>3, Rounding, BootmemConstants DEF PA_TO_PFN, IInv, MemInv
    <3>7. QED BY <3>1, <3>4, <3>5, <3>6
  <2>3. QED BY <2>1, <2>2
<1>2. ASSUME phase = "done", region_count < MAX_MEM_REGIONS, NEW r \in map, r[2] < ADDR_LIMIT,
             NEW p \in PA_TO_PFN(PAGE_ALIGN(r[1])) .. PA_TO_PFN(r[2]) - 1
      PROVE  \/ p \in Released
             \/ p \in PA_TO_PFN(kernel_start) .. PA_TO_PFN(kernel_end) - 1
             \/ \E a \in allocs : PageUnits(p) \cap (a[1] .. a[2] - 1) # {}
  <2>1. r[1] \in Nat /\ r[2] \in Nat
    BY DEF IInv, MemInv, MapInv
  <2>2. PICK q \in Nat : PAGE_ALIGN(r[1]) = q * PAGE_SIZE
    BY <2>1, AlignUp, BootmemConstants, Zenon DEF PAGE_ALIGN
  <2>3. PAGE_ALIGN(r[1]) >= r[1]
    BY <2>1, AlignUp, BootmemConstants, Zenon DEF PAGE_ALIGN
  <2>4. PA_TO_PFN(PAGE_ALIGN(r[1])) = q
    BY <2>2, BootmemConstants DEF PA_TO_PFN
  <2> DEFINE d == r[2] \div PAGE_SIZE
  <2>5. d \in Nat /\ d * PAGE_SIZE <= r[2] /\ PA_TO_PFN(r[2]) = d
    BY <2>1, Rounding, BootmemConstants, Zenon DEF PA_TO_PFN
  <2> HIDE DEF d
  <2>6. p \in Nat /\ q <= p /\ p < d
    BY <2>4, <2>5
  <2>7. /\ q * PAGE_SIZE <= p * PAGE_SIZE /\ (p + 1) * PAGE_SIZE <= d * PAGE_SIZE
        /\ q * PAGE_SIZE \in Nat /\ p * PAGE_SIZE \in Nat /\ d * PAGE_SIZE \in Nat
        /\ (p + 1) * PAGE_SIZE = p * PAGE_SIZE + PAGE_SIZE
    <3>1. ~(p * PAGE_SIZE < q * PAGE_SIZE)
      BY <2>6, PageSteps
    <3>2. (p + 1) * PAGE_SIZE <= d * PAGE_SIZE /\ d * PAGE_SIZE \in Nat
      BY <2>5, <2>6, PageSteps
    <3>3. QED BY <2>6, <3>1, <3>2, PageSteps
  <2>8. r[1] <= p * PAGE_SIZE /\ (p + 1) * PAGE_SIZE <= r[2]
    BY <2>1, <2>2, <2>3, <2>5, <2>7, BootmemConstants
  <2>9. Accounted(mem_regions, allocs, p)
    BY <1>2, <2>6, <2>8 DEF KeptInv, Kept
  <2>10. CASE \E k \in Index : Within(mem_regions, k, p)
    BY <1>2, <2>6, <2>10 DEF KeptInv, ProgressInv
  <2>11. CASE KernelPage(p)
    <3>1. PICK a \in Nat, b \in Nat : kernel_start = a * PAGE_SIZE /\ kernel_end = b * PAGE_SIZE
      BY KernelPages
    <3>2. PA_TO_PFN(kernel_start) = a /\ PA_TO_PFN(kernel_end) = b
      BY <3>1, BootmemConstants DEF PA_TO_PFN
    <3>3. a <= p
      <4>1. ~(p * PAGE_SIZE < a * PAGE_SIZE)
        BY <2>7, <2>11, <3>1, PageSteps DEF KernelPage
      <4>2. QED BY <2>6, <4>1, PageSteps
    <3>4. p < b
      <4>1. p * PAGE_SIZE < b * PAGE_SIZE
        BY <2>7, <2>11, <3>1, PageSteps, BootmemConstants DEF KernelPage
      <4>2. QED BY <2>6, <4>1, PageSteps
    <3>5. QED BY <2>6, <3>2, <3>3, <3>4
  <2>12. CASE Touched(allocs, p)
    <3>1. PICK a \in allocs : /\ a[1] < a[2] /\ a[1] < (p + 1) * PAGE_SIZE
                              /\ p * PAGE_SIZE < a[2]
      BY <2>12 DEF Touched
    <3>2. a[1] \in Nat /\ a[2] \in Nat
      BY Zenon DEF IInv, MemInv, AllocsInv
    <3> DEFINE x == IF a[1] < p * PAGE_SIZE THEN p * PAGE_SIZE ELSE a[1]
    <3>3. x \in PageUnits(p) /\ x \in a[1] .. a[2] - 1
      BY <2>7, <3>1, <3>2, BootmemConstants DEF PageUnits
    <3>4. QED BY <3>3
  <2>13. QED BY <2>9, <2>10, <2>11, <2>12 DEF Accounted
<1>3. QED BY <1>1, <1>2 DEF OtherAreasPreserved

=============================================================================
