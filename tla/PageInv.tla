------------------------------ MODULE PageInv -------------------------------
(***************************************************************************)
(* The invariant of the buddy allocator: the arithmetic of buddies, sets   *)
(* of blocks and the frames they cover, and the steps that keep every      *)
(* block whole.                                                            *)
(***************************************************************************)
EXTENDS PageAlloc, FiniteSetTheorems, TLAPS

-----------------------------------------------------------------------------
(* Block arithmetic *)

LEMMA SizeValues ==
  /\ Size(0) = 1 /\ Size(1) = 2 /\ Size(2) = 4 /\ Size(3) = 8
  /\ Size(4) = 16 /\ Size(5) = 32 /\ Size(6) = 64
BY DEF Size

LEMMA SizeFacts ==
  /\ \A o \in 0 .. 6 : Size(o) \in Nat \ {0}
  /\ \A o \in 0 .. 5 : Size(o + 1) = 2 * Size(o)
BY SizeValues

LEMMA BuddyArith ==
  ASSUME NEW p \in Nat, NEW o \in 0 .. 5, Aligned(p, o)
  PROVE  /\ buddy_get(p, o) \in Nat
         /\ LowOfPair(p, o) \in Nat
         /\ Aligned(buddy_get(p, o), o)
         /\ Aligned(LowOfPair(p, o), o + 1)
         /\ \/ LowOfPair(p, o) = p /\ buddy_get(p, o) = p + Size(o)
            \/ LowOfPair(p, o) = buddy_get(p, o) /\ p = buddy_get(p, o) + Size(o)
         /\ buddy_get(LowOfPair(p, o), o) = LowOfPair(p, o) + Size(o)
<1>1. CASE o = 0
  <2>1. p \div Size(o) = p /\ Size(o) = 1 /\ Size(o + 1) = 2 /\ \A q \in Nat : q % 1 = 0
    BY <1>1, SizeValues
  <2>2. CASE p % 2 = 1
    BY <1>1, <2>1, <2>2 DEF Aligned, buddy_get, LowOfPair, BitSet
  <2>3. CASE p % 2 # 1
    BY <1>1, <2>1, <2>3 DEF Aligned, buddy_get, LowOfPair, BitSet
  <2>4. QED BY <2>2, <2>3
<1>2. CASE o = 1 BY <1>2, SizeValues DEF Aligned, buddy_get, LowOfPair, BitSet
<1>3. CASE o = 2 BY <1>3, SizeValues DEF Aligned, buddy_get, LowOfPair, BitSet
<1>4. CASE o = 3 BY <1>4, SizeValues DEF Aligned, buddy_get, LowOfPair, BitSet
<1>5. CASE o = 4 BY <1>5, SizeValues DEF Aligned, buddy_get, LowOfPair, BitSet
<1>6. CASE o = 5 BY <1>6, SizeValues DEF Aligned, buddy_get, LowOfPair, BitSet
<1>7. QED BY <1>1, <1>2, <1>3, <1>4, <1>5, <1>6

\* The frames of a block, and its first one
LEMMA PagesOf ==
  ASSUME NEW p \in Nat, NEW o \in 0 .. 6
  PROVE  /\ \A x : x \in Pages(p, o) <=> x \in Nat /\ p <= x /\ x < p + Size(o)
         /\ p \in Pages(p, o)
         /\ p + Size(o) - 1 \in Pages(p, o)
BY SizeFacts DEF Pages

\* Two buddies are disjoint and make up the block of the next order
LEMMA PairFrames ==
  ASSUME NEW p \in Nat, NEW o \in 0 .. 5, Aligned(p, o)
  PROVE  /\ Pages(LowOfPair(p, o), o + 1) = Pages(p, o) \cup Pages(buddy_get(p, o), o)
         /\ Pages(p, o) \cap Pages(buddy_get(p, o), o) = {}
<1> DEFINE q == buddy_get(p, o)
           l == LowOfPair(p, o)
<1>1. q \in Nat /\ l \in Nat /\ ((l = p /\ q = p + Size(o)) \/ (l = q /\ p = q + Size(o)))
  BY BuddyArith
<1>2. Size(o) \in Nat \ {0} /\ Size(o + 1) = 2 * Size(o)
  BY SizeFacts
<1> HIDE DEF q, l
<1>3. Pages(l, o + 1) = Pages(p, o) \cup Pages(q, o) /\ Pages(p, o) \cap Pages(q, o) = {}
  BY <1>1, <1>2 DEF Pages
<1>4. QED
  BY <1>3 DEF q, l

\* If a block does not start at the buddy but contains it, it contains the pair
LEMMA BuddyInside ==
  ASSUME NEW p \in Nat, NEW o \in 0 .. 5, Aligned(p, o),
         NEW r \in Nat, NEW j \in 0 .. 6, Aligned(r, j),
         buddy_get(p, o) \in Pages(r, j), buddy_get(p, o) # r
  PROVE  p \in Pages(r, j)
<1> DEFINE q == buddy_get(p, o)
           l == LowOfPair(p, o)
<1>1. /\ q \in Nat /\ l \in Nat /\ Aligned(q, o) /\ Aligned(l, o + 1)
      /\ ((l = p /\ q = p + Size(o)) \/ (l = q /\ p = q + Size(o)))
  BY BuddyArith, Zenon
<1>2. /\ Size(o) \in {1, 2, 4, 8, 16, 32, 64}
      /\ Size(j) \in {1, 2, 4, 8, 16, 32, 64}
      /\ Size(o + 1) = 2 * Size(o)
  BY SizeValues
<1>3. q % Size(o) = 0 /\ r % Size(j) = 0 /\ l % (2 * Size(o)) = 0
  BY <1>1, <1>2 DEF Aligned
<1>4. r < q /\ q < r + Size(j)
  BY <1>1, <1>2 DEF Pages
<1> HIDE DEF q, l
<1>5. l <= q /\ q < l + 2 * Size(o)
  BY <1>1, <1>2
<1> DEFINE n == Size(o)
           m == Size(j)
<1>6. n \in {1, 2, 4, 8, 16, 32, 64} /\ m \in {1, 2, 4, 8, 16, 32, 64}
  BY <1>2
<1>7. q % n = 0 /\ r % m = 0 /\ r < q /\ q < r + m /\ l % (2 * n) = 0 /\ l <= q /\ q < l + 2 * n
  BY <1>3, <1>4, <1>5
<1> HIDE DEF n, m
<1>8. r <= l /\ l + 2 * n <= r + m
  <2>1. CASE n = 1 BY <1>1, <1>6, <1>7, <2>1
  <2>2. CASE n = 2 BY <1>1, <1>6, <1>7, <2>2
  <2>3. CASE n = 4 BY <1>1, <1>6, <1>7, <2>3
  <2>4. CASE n = 8 BY <1>1, <1>6, <1>7, <2>4
  <2>5. CASE n = 16 BY <1>1, <1>6, <1>7, <2>5
  <2>6. CASE n = 32 BY <1>1, <1>6, <1>7, <2>6
  <2>7. CASE n = 64 BY <1>1, <1>6, <1>7, <2>7
  <2>8. QED BY <1>6, <2>1, <2>2, <2>3, <2>4, <2>5, <2>6, <2>7
<1>9. r <= p /\ p < r + m
  BY <1>1, <1>6, <1>8 DEF n
<1>10. QED
  BY <1>6, <1>9 DEF Pages, m

\* The lower half of a block of order k and its buddy
LEMMA SplitArith ==
  ASSUME NEW p \in Nat, NEW o \in 0 .. 5, Aligned(p, o + 1)
  PROVE  Aligned(p, o) /\ LowOfPair(p, o) = p /\ buddy_get(p, o) = p + Size(o)
<1>1. CASE o = 0
  <2>1. p \div Size(o) = p /\ Size(o) = 1 /\ Size(o + 1) = 2 /\ p % 1 = 0
    BY <1>1, SizeValues
  <2>2. QED BY <1>1, <2>1 DEF Aligned, buddy_get, LowOfPair, BitSet
<1>2. CASE o = 1 BY <1>2, SizeValues DEF Aligned, buddy_get, LowOfPair, BitSet
<1>3. CASE o = 2 BY <1>3, SizeValues DEF Aligned, buddy_get, LowOfPair, BitSet
<1>4. CASE o = 3 BY <1>4, SizeValues DEF Aligned, buddy_get, LowOfPair, BitSet
<1>5. CASE o = 4 BY <1>5, SizeValues DEF Aligned, buddy_get, LowOfPair, BitSet
<1>6. CASE o = 5 BY <1>6, SizeValues DEF Aligned, buddy_get, LowOfPair, BitSet
<1>7. QED BY <1>1, <1>2, <1>3, <1>4, <1>5, <1>6

\* In a memory made of whole blocks of order ORDER_MAX every buddy exists
LEMMA BuddyExists ==
  ASSUME NEW n \in Nat, NEW m \in 0 .. 6, n % Size(m) = 0,
         NEW p \in Nat, p < n, NEW o \in 0 .. 5, o < m, Aligned(p, o)
  PROVE  buddy_get(p, o) < n
<1>1. n % Size(o + 1) = 0
  <2>1. CASE m = 1 BY <2>1, SizeValues
  <2>2. CASE m = 2 BY <2>2, SizeValues
  <2>3. CASE m = 3 BY <2>3, SizeValues
  <2>4. CASE m = 4 BY <2>4, SizeValues
  <2>5. CASE m = 5 BY <2>5, SizeValues
  <2>6. CASE m = 6 BY <2>6, SizeValues
  <2>7. QED BY <2>1, <2>2, <2>3, <2>4, <2>5, <2>6
<1>2. CASE o = 0
  <2>1. p \div Size(o) = p /\ Size(o) = 1 /\ n % 2 = 0
    BY <1>1, <1>2, SizeValues
  <2>2. CASE p % 2 = 1 BY <1>2, <2>1, <2>2 DEF buddy_get, BitSet
  <2>3. CASE p % 2 # 1 BY <1>2, <2>1, <2>3 DEF buddy_get, BitSet
  <2>4. QED BY <2>2, <2>3
<1>3. CASE o = 1 BY <1>1, <1>3, SizeValues DEF Aligned, buddy_get, BitSet
<1>4. CASE o = 2 BY <1>1, <1>4, SizeValues DEF Aligned, buddy_get, BitSet
<1>5. CASE o = 3 BY <1>1, <1>5, SizeValues DEF Aligned, buddy_get, BitSet
<1>6. CASE o = 4 BY <1>1, <1>6, SizeValues DEF Aligned, buddy_get, BitSet
<1>7. CASE o = 5 BY <1>1, <1>7, SizeValues DEF Aligned, buddy_get, BitSet
<1>8. QED BY <1>2, <1>3, <1>4, <1>5, <1>6, <1>7

-----------------------------------------------------------------------------
(* Sets of blocks *)

\* No block is empty, and two disjoint blocks have different heads
LEMMA HeadIn ==
  ASSUME NEW b \in Blocks
  PROVE  /\ b[1] \in Pages(b[1], b[2]) /\ b = <<b[1], b[2]>>
         /\ b[1] \in Nat /\ b[2] \in 0 .. 6
<1>1. b[1] \in Nat /\ b[2] \in 0 .. 6 /\ b = <<b[1], b[2]>>
  BY PageAllocConstants DEF Blocks, Pfn, Order
<1>2. QED BY <1>1, PagesOf, Zenon

LEMMA HeadsDiffer ==
  ASSUME NEW B \in SUBSET Blocks, Disjoint(B),
         NEW a \in B, NEW b \in B, a[1] \in Pages(b[1], b[2])
  PROVE  a = b
<1>1. a[1] \in Pages(a[1], a[2])
  BY HeadIn
<1>2. QED BY <1>1 DEF Disjoint

\* Blocks of a set may be replaced by others that make up the same frames
LEMMA Replace ==
  ASSUME NEW B \in SUBSET Blocks, NEW C \in SUBSET B, NEW D \in SUBSET Blocks,
         Placed(B), Disjoint(B), Placed(D), Disjoint(D), FramesOf(D) = FramesOf(C)
  PROVE  /\ Placed((B \ C) \cup D)
         /\ Disjoint((B \ C) \cup D)
         /\ FramesOf((B \ C) \cup D) = FramesOf(B)
         /\ D \cap (B \ C) = {}
<1> DEFINE F(b) == Pages(b[1], b[2])
<1>1. /\ \A x : (\E d \in D : x \in F(d)) <=> (\E e \in C : x \in F(e))
      /\ \A b \in Blocks : F(b) # {}
  BY HeadIn DEF FramesOf
<1>2. /\ \A a, b \in B : a # b => F(a) \cap F(b) = {}
      /\ \A a, b \in D : a # b => F(a) \cap F(b) = {}
  BY Zenon DEF Disjoint
<1> HIDE DEF F
<1>3. \A a \in B \ C, d \in D : F(a) \cap F(d) = {}
  BY <1>1, <1>2
<1>4. \A a, b \in (B \ C) \cup D : a # b => F(a) \cap F(b) = {}
  BY <1>2, <1>3
<1>5. D \cap (B \ C) = {}
  BY <1>1, <1>3
<1>6. FramesOf((B \ C) \cup D) = FramesOf(B)
  <2>1. \A x : (\E b \in (B \ C) \cup D : x \in F(b)) <=> (\E b \in B : x \in F(b))
    BY <1>1
  <2>2. QED BY <2>1 DEF FramesOf, F
<1>7. Placed((B \ C) \cup D)
  BY DEF Placed
<1>8. QED BY <1>4, <1>5, <1>6, <1>7, Zenon DEF Disjoint, F

\* A block of order o + 1 and its two halves
LEMMA Halves ==
  ASSUME NEW p \in Nat, NEW o \in 0 .. 5, Aligned(p, o),
         NEW l, l = LowOfPair(p, o), NEW q, q = buddy_get(p, o),
         o + 1 <= ORDER_MAX
  PROVE  /\ FramesOf({<<l, o + 1>>}) = FramesOf({<<p, o>>, <<q, o>>})
         /\ Disjoint({<<l, o + 1>>})
         /\ Disjoint({<<p, o>>, <<q, o>>})
         /\ Placed({<<l, o + 1>>}) <=> Placed({<<p, o>>, <<q, o>>})
         /\ p # q
<1>1. Pages(l, o + 1) = Pages(p, o) \cup Pages(q, o) /\ Pages(p, o) \cap Pages(q, o) = {}
  BY PairFrames
<1>2. Aligned(q, o) /\ Aligned(l, o + 1) /\ q \in Nat
  BY BuddyArith
<1>3. FramesOf({<<l, o + 1>>}) = Pages(l, o + 1)
  BY DEF FramesOf
<1>4. FramesOf({<<p, o>>, <<q, o>>}) = Pages(p, o) \cup Pages(q, o)
  BY DEF FramesOf
<1>5. Disjoint({<<l, o + 1>>}) /\ Disjoint({<<p, o>>, <<q, o>>})
  BY <1>1 DEF Disjoint
<1>6. Placed({<<l, o + 1>>}) <=> Placed({<<p, o>>, <<q, o>>})
  BY <1>1, <1>2 DEF Placed
<1>7. p \in Pages(p, o) /\ q \in Pages(q, o)
  <2>1. o \in 0 .. 6 OBVIOUS
  <2>2. QED BY <1>2, <2>1, PagesOf, Zenon
<1>8. QED BY <1>1, <1>3, <1>4, <1>5, <1>6, <1>7, Zenon

-----------------------------------------------------------------------------
(* The blocks of a state *)

\* A step that moves no block
Still == FreeBlocks' = FreeBlocks /\ InFlight' = InFlight /\ live' = live

LEMMA FreeBlocksAre ==
  ASSUME TypeOK
  PROVE  /\ FreeBlocks \subseteq Blocks
         /\ \A p, o : <<p, o>> \in FreeBlocks <=> o \in Order /\ p \in free_pages[o]
         /\ \A b \in FreeBlocks : b[2] \in Order /\ b[1] \in free_pages[b[2]]
BY DEF FreeBlocks, Blocks, TypeOK

\* The block in flight is that of the one context that is in buddy_merge_block()
LEMMA FlightOf ==
  ASSUME LockInv, NEW c \in Ctx, pc[c] = "merge"
  PROVE  InFlight = {<<blk[c], lvl[c]>>}
<1>1. {d \in Ctx : pc[d] = "merge"} = {c}
  BY DEF LockInv
<1>2. QED BY <1>1 DEF InFlight

LEMMA NoFlight ==
  ASSUME \A d \in Ctx : pc[d] # "merge"
  PROVE  InFlight = {}
BY DEF InFlight

LEMMA AllAreBlocks ==
  ASSUME TypeOK, LevelInv
  PROVE  /\ FreeBlocks \subseteq Blocks /\ live \subseteq Blocks
         /\ InFlight \subseteq Blocks /\ AllBlocks \subseteq Blocks
<1>1. InFlight \subseteq Blocks
  BY DEF InFlight, TypeOK, LevelInv, Blocks, Order
<1>2. QED BY <1>1, FreeBlocksAre DEF AllBlocks, TypeOK

\* What an action preserves when it moves no block
LEMMA SameBlocks ==
  ASSUME InFlight' = InFlight,
         UNCHANGED <<order, invalid, free_pages, free_count, live>>,
         NoOverlap, NoFrameLost, HeadOrder, FreeCountsAgree
  PROVE  NoOverlap' /\ NoFrameLost' /\ HeadOrder' /\ FreeCountsAgree' /\ Still
<1>1. FreeBlocks' = FreeBlocks
  BY DEF FreeBlocks
<1>2. AllBlocks' = AllBlocks
  BY <1>1 DEF AllBlocks
<1>3. NoOverlap'
  BY <1>1, <1>2 DEF NoOverlap, Placed, Disjoint
<1>4. NoFrameLost'
  BY <1>2 DEF NoFrameLost, FramesOf
<1>5. HeadOrder' /\ FreeCountsAgree'
  BY DEF HeadOrder, FreeCountsAgree
<1>6. QED BY <1>1, <1>3, <1>4, <1>5 DEF Still

LEMMA Unmoved ==
  ASSUME NEW c \in Ctx, pc[c] # "merge", pc'[c] # "merge",
         \A d \in Ctx \ {c} : pc'[d] = pc[d] /\ blk'[d] = blk[d] /\ lvl'[d] = lvl[d],
         UNCHANGED <<order, invalid, free_pages, free_count, live>>,
         NoOverlap, NoFrameLost, HeadOrder, FreeCountsAgree
  PROVE  NoOverlap' /\ NoFrameLost' /\ HeadOrder' /\ FreeCountsAgree' /\ Still
<1>1. {d \in Ctx : pc'[d] = "merge"} = {d \in Ctx \ {c} : pc[d] = "merge"}
  OBVIOUS
<1>2. {d \in Ctx : pc[d] = "merge"} = {d \in Ctx \ {c} : pc[d] = "merge"}
  OBVIOUS
<1>3. InFlight' = InFlight
  BY <1>1, <1>2 DEF InFlight
<1>4. QED BY <1>3, SameBlocks

\* What an action preserves when it changes no user of a page
LEMMA SameUsers ==
  ASSUME TypeOK, NEW c \in Ctx,
         pc[c] \notin {"dec", "free", "merge"}, pc'[c] \notin {"dec", "free", "merge"},
         \A d \in Ctx \ {c} : pc'[d] = pc[d] /\ page'[d] = page[d] /\ req'[d] = req[d],
         UNCHANGED <<use_count, boot, live, refs, size, invalid>>,
         UseCountsAgree, CallerInv, BootInv
  PROVE  UseCountsAgree' /\ CallerInv' /\ BootInv'
<1>1. \A p \in Pfn : Pending(p)' = Pending(p)
  BY DEF Pending
<1>2. UseCountsAgree'
  BY <1>1 DEF UseCountsAgree
<1>3. CallerInv'
  <2>1. \A p \in Pfn : refs'[p] > 0 => <<p, size'[p]>> \in live'
    BY DEF CallerInv
  <2>2. ASSUME NEW d \in Ctx, pc'[d] = "free"
        PROVE  /\ <<page'[d], req'[d]>> \in live' /\ refs'[page'[d]] = 0
               /\ Pending(page[d])' = {d} /\ page'[d] = page[d]
    BY <1>1, <2>2 DEF CallerInv, TypeOK
  <2>3. \A d \in Ctx : pc'[d] = "free" => (Pending(page[d]))' = {d}
    BY <2>2, Zenon
  <2>4. QED BY <2>1, <2>2, <2>3, Zenon DEF CallerInv
<1>4. BootInv'
  BY DEF BootInv
<1>5. QED BY <1>2, <1>3, <1>4

-----------------------------------------------------------------------------
(* Finite sets and types *)

LEMMA PendingFinite ==
  \A p : IsFiniteSet(Pending(p)) /\ Cardinality(Pending(p)) \in Nat
<1>1. \A p : Pending(p) \subseteq Ctx
  BY DEF Pending
<1>2. \A p : IsFiniteSet(Pending(p))
  BY <1>1, FS_Subset, PageAllocConstants
<1>3. QED BY <1>2, FS_CardinalityType

LEMMA OrderFacts ==
  /\ ORDER_MAX \in 0 .. 6 /\ PageCount \in Nat \ {0}
  /\ 0 \in Order /\ 0 \in Pfn /\ 0 \in 0 .. ORDER_MAX + 1
BY PageAllocConstants DEF Order, Pfn

LEMMA FreeListsFinite ==
  ASSUME TypeOK, NEW o \in Order
  PROVE  IsFiniteSet(free_pages[o]) /\ Cardinality(free_pages[o]) \in Nat
<1>1. IsFiniteSet(Pfn)
  BY FS_Interval, OrderFacts DEF Pfn
<1>2. free_pages[o] \subseteq Pfn
  BY DEF TypeOK
<1>3. QED BY <1>1, <1>2, FS_Subset, FS_CardinalityType

LEMMA ReturnTypes ==
  ASSUME TypeOK, NEW c \in Ctx, Return(c)
  PROVE  /\ pc' \in [Ctx -> {"idle", "alloc", "split", "take", "dec", "free", "merge"}]
         /\ req' \in [Ctx -> Order] /\ page' \in [Ctx -> Pfn] /\ blk' \in [Ctx -> Pfn]
         /\ lvl' \in [Ctx -> 0 .. ORDER_MAX + 1]
         /\ pc'[c] = "idle"
         /\ \A d \in Ctx \ {c} : /\ pc'[d] = pc[d] /\ req'[d] = req[d] /\ page'[d] = page[d]
                                 /\ blk'[d] = blk[d] /\ lvl'[d] = lvl[d]
BY OrderFacts DEF TypeOK, Return

-----------------------------------------------------------------------------
(* Steps that move no block: calls that begin, fail, look for a larger block, or *)
(* add or drop a user *)

LEMMA Inv_page_alloc_enter ==
  ASSUME IInv, NEW c \in Ctx, NEW o \in Order, page_alloc_enter(c, o)
  PROVE  IInv' /\ Still
<1>1. TypeOK' /\ LockInv' /\ LevelInv'
  <2>1. TypeOK'
    BY PageAllocConstants, Zenon DEF IInv, TypeOK, LevelInv, page_alloc_enter, callerVars,
       pageVars, listVars, Order
  <2>2. LockInv'
    BY PageAllocConstants, Zenon DEF IInv, TypeOK, LockInv, page_alloc_enter, callerVars,
       pageVars, listVars, Order
  <2>3. LevelInv'
    BY PageAllocConstants, Zenon DEF IInv, TypeOK, LevelInv, page_alloc_enter, callerVars,
       pageVars, listVars, Order
  <2>4. QED BY <2>1, <2>2, <2>3
<1>2. NoOverlap' /\ NoFrameLost' /\ HeadOrder' /\ FreeCountsAgree' /\ Still
  BY Unmoved, Zenon DEF IInv, TypeOK, page_alloc_enter, callerVars, pageVars, listVars
<1>3. UseCountsAgree' /\ CallerInv' /\ BootInv'
  BY SameUsers, Zenon DEF IInv, TypeOK, page_alloc_enter, callerVars, pageVars, listVars
<1>4. QED BY <1>1, <1>2, <1>3 DEF IInv

LEMMA Inv_page_alloc_lock ==
  ASSUME IInv, NEW c \in Ctx, page_alloc_lock(c)
  PROVE  IInv' /\ Still
<1>1. TypeOK' /\ LockInv' /\ LevelInv'
  <2>1. TypeOK'
    <3>1. lvl' \in [Ctx -> 0 .. ORDER_MAX + 1]
      <4>1. lvl \in [Ctx -> 0 .. ORDER_MAX + 1] /\ req[c] \in Order
        BY DEF IInv, TypeOK
      <4>2. lvl' = lvl \/ lvl' = [lvl EXCEPT ![c] = req[c] + 1]
        BY DEF page_alloc_lock
      <4>3. req[c] + 1 \in 0 .. ORDER_MAX + 1
        BY <4>1, OrderFacts DEF Order
      <4>4. QED BY <4>1, <4>2, <4>3
    <3>2. pc' \in [Ctx -> {"idle", "alloc", "split", "take", "dec", "free", "merge"}]
      <4>1. pc' = [pc EXCEPT ![c] = "take"] \/ pc' = [pc EXCEPT ![c] = "split"]
        BY DEF page_alloc_lock
      <4>2. QED BY <4>1, Zenon DEF IInv, TypeOK
    <3>3. QED
      BY <3>1, <3>2, Zenon DEF IInv, TypeOK, page_alloc_lock, callerVars, pageVars, listVars
<2>2. LockInv'
    BY PageAllocConstants, Zenon DEF IInv, TypeOK, LockInv, page_alloc_lock, callerVars,
       pageVars, listVars, Order
  <2>3. LevelInv'
    <3>1. /\ pc'[c] \in {"take", "split"}
          /\ pc'[c] = "split" => lvl'[c] = req[c] + 1
          /\ \A d \in Ctx \ {c} : pc'[d] = pc[d] /\ lvl'[d] = lvl[d]
          /\ req' = req
      BY DEF IInv, TypeOK, page_alloc_lock
    <3>2. req[c] < req[c] + 1
      BY OrderFacts DEF IInv, TypeOK, Order
    <3>3. LevelInv
      BY DEF IInv
    <3>4. QED BY <3>1, <3>2, <3>3 DEF LevelInv
  <2>4. QED BY <2>1, <2>2, <2>3
<1>2. NoOverlap' /\ NoFrameLost' /\ HeadOrder' /\ FreeCountsAgree' /\ Still
  BY Unmoved, Zenon DEF IInv, TypeOK, page_alloc_lock, callerVars, pageVars, listVars
<1>3. UseCountsAgree' /\ CallerInv' /\ BootInv'
  BY SameUsers, Zenon DEF IInv, TypeOK, page_alloc_lock, callerVars, pageVars, listVars
<1>4. QED BY <1>1, <1>2, <1>3 DEF IInv

LEMMA Inv_buddy_split_recurse ==
  ASSUME IInv, NEW c \in Ctx, buddy_split_recurse(c)
  PROVE  IInv' /\ Still
<1>1. TypeOK' /\ LockInv' /\ LevelInv'
  <2>1. TypeOK'
    <3>1. lvl' \in [Ctx -> 0 .. ORDER_MAX + 1]
      <4>1. lvl \in [Ctx -> 0 .. ORDER_MAX + 1]
        BY DEF IInv, TypeOK
      <4>2. lvl[c] <= ORDER_MAX /\ lvl' = [lvl EXCEPT ![c] = lvl[c] + 1]
        BY DEF buddy_split_recurse
      <4>3. lvl[c] + 1 \in 0 .. ORDER_MAX + 1
        BY <4>1, <4>2, OrderFacts
      <4>4. QED BY <4>1, <4>2, <4>3
    <3>2. pc' \in [Ctx -> {"idle", "alloc", "split", "take", "dec", "free", "merge"}]
      BY Zenon DEF IInv, TypeOK, buddy_split_recurse
    <3>3. QED
      BY <3>1, <3>2, Zenon DEF IInv, TypeOK, buddy_split_recurse, callerVars, pageVars,
         listVars
<2>2. LockInv'
    BY PageAllocConstants, Zenon DEF IInv, TypeOK, LockInv, buddy_split_recurse, callerVars,
       pageVars, listVars, Order
  <2>3. LevelInv'
    <3>1. /\ pc[c] = "split" /\ lvl'[c] = lvl[c] + 1 /\ req' = req /\ pc' = pc
          /\ \A d \in Ctx \ {c} : lvl'[d] = lvl[d]
      BY DEF IInv, TypeOK, buddy_split_recurse
    <3>2. LevelInv /\ req[c] \in Order /\ lvl[c] \in 0 .. ORDER_MAX + 1
      BY DEF IInv, TypeOK
    <3>3. req[c] < lvl[c] + 1
      BY <3>1, <3>2, OrderFacts DEF LevelInv, Order
    <3>4. QED BY <3>1, <3>2, <3>3 DEF LevelInv
  <2>4. QED BY <2>1, <2>2, <2>3
<1>2. NoOverlap' /\ NoFrameLost' /\ HeadOrder' /\ FreeCountsAgree' /\ Still
  BY Unmoved, Zenon DEF IInv, TypeOK, buddy_split_recurse, callerVars, pageVars, listVars
<1>3. UseCountsAgree' /\ CallerInv' /\ BootInv'
  BY SameUsers, Zenon DEF IInv, TypeOK, buddy_split_recurse, callerVars, pageVars, listVars
<1>4. QED BY <1>1, <1>2, <1>3 DEF IInv

LEMMA Inv_buddy_split_fail ==
  ASSUME IInv, NEW c \in Ctx, buddy_split_fail(c)
  PROVE  IInv' /\ Still
<1>1. TypeOK' /\ LockInv' /\ LevelInv'
  <2>1. TypeOK'
    BY ReturnTypes, Zenon DEF IInv, TypeOK, buddy_split_fail, callerVars, pageVars, listVars
<2>2. LockInv'
    BY PageAllocConstants, Zenon DEF IInv, TypeOK, LockInv, buddy_split_fail, callerVars,
       pageVars, listVars, Order, Return, Pfn
  <2>3. LevelInv'
    BY PageAllocConstants, Zenon DEF IInv, TypeOK, LevelInv, buddy_split_fail, callerVars,
       pageVars, listVars, Order, Return, Pfn
  <2>4. QED BY <2>1, <2>2, <2>3
<1>2. NoOverlap' /\ NoFrameLost' /\ HeadOrder' /\ FreeCountsAgree' /\ Still
  BY Unmoved, Zenon DEF IInv, TypeOK, buddy_split_fail, callerVars, pageVars, listVars,
     Return, Pfn
<1>3. UseCountsAgree' /\ CallerInv' /\ BootInv'
  BY SameUsers, Zenon DEF IInv, TypeOK, buddy_split_fail, callerVars, pageVars, listVars,
     Return, Pfn
<1>4. QED BY <1>1, <1>2, <1>3 DEF IInv

LEMMA Inv_page_free_enter ==
  ASSUME IInv, NEW c \in Ctx, NEW p \in Pfn, page_free_enter(c, p)
  PROVE  IInv' /\ Still
<1>1. /\ pc[c] = "idle" /\ refs[p] > 0 /\ refs' = [refs EXCEPT ![p] = refs[p] - 1]
      /\ page' = [page EXCEPT ![c] = p] /\ req' = [req EXCEPT ![c] = size[p]]
      /\ pc' = [pc EXCEPT ![c] = IF SeveralUsers(p) THEN "dec" ELSE "free"]
      /\ size' = [size EXCEPT ![p] = IF refs[p] = 1 THEN 0 ELSE size[p]]
      /\ UNCHANGED <<order, invalid, use_count, free_pages, free_count, lock, blk, lvl,
                     boot, live>>
  BY DEF page_free_enter, pageVars, listVars
<1>2. /\ TypeOK /\ LockInv /\ LevelInv /\ NoOverlap /\ NoFrameLost /\ HeadOrder
      /\ FreeCountsAgree /\ UseCountsAgree /\ CallerInv /\ BootInv
  BY DEF IInv
<1>3. /\ pc'[c] \in {"dec", "free"} /\ page'[c] = p /\ req'[c] = size[p]
      /\ \A d \in Ctx \ {c} : pc'[d] = pc[d] /\ page'[d] = page[d] /\ req'[d] = req[d]
      /\ \A q \in Pfn \ {p} : refs'[q] = refs[q] /\ size'[q] = size[q]
      /\ refs'[p] = refs[p] - 1 /\ refs'[p] \in Nat /\ refs[p] \in Nat
      /\ refs[p] # 1 => size'[p] = size[p]
  BY <1>1, <1>2 DEF TypeOK
<1>4. TypeOK'
  <2>1. refs' \in [Pfn -> Nat]
    BY <1>1, <1>2, <1>3, Zenon DEF TypeOK
  <2>2. pc' \in [Ctx -> {"idle", "alloc", "split", "take", "dec", "free", "merge"}]
    BY <1>1, <1>2, Zenon DEF TypeOK
  <2>3. size' \in [Pfn -> Order] /\ req' \in [Ctx -> Order] /\ page' \in [Ctx -> Pfn]
    BY <1>1, <1>2, OrderFacts, Zenon DEF TypeOK
  <2>4. QED BY <1>1, <1>2, <2>1, <2>2, <2>3, Zenon DEF TypeOK
<1>5. LockInv' /\ LevelInv'
  BY <1>1, <1>2, <1>3 DEF LockInv, LevelInv
<1>6. NoOverlap' /\ NoFrameLost' /\ HeadOrder' /\ FreeCountsAgree' /\ Still
  BY <1>1, <1>2, <1>3, Unmoved
<1>7. /\ Pending(p)' = Pending(p) \cup {c} /\ c \notin Pending(p)
      /\ \A q \in Pfn \ {p} : Pending(q)' = Pending(q)
  BY <1>1, <1>3 DEF Pending
<1>8. Cardinality(Pending(p)') = Cardinality(Pending(p)) + 1
  <2>1. IsFiniteSet(Pending(p))
    BY PendingFinite
  <2>2. QED BY <1>7, <2>1, FS_AddElement
<1>9. UseCountsAgree'
  <2>1. use_count[p] = refs'[p] + Cardinality(Pending(p)')
    BY <1>2, <1>3, <1>8, PendingFinite DEF UseCountsAgree
  <2>2. \A q \in Pfn \ {p} : use_count[q] = refs'[q] + Cardinality(Pending(q)')
    BY <1>2, <1>3, <1>7 DEF UseCountsAgree
  <2>3. QED BY <1>1, <2>1, <2>2, Zenon DEF UseCountsAgree
<1>10. CallerInv'
  <2>1. \A q \in Pfn : refs'[q] > 0 => <<q, size'[q]>> \in live'
    BY <1>1, <1>2, <1>3 DEF CallerInv
  <2>2. ASSUME pc'[c] = "free"
        PROVE  <<page'[c], req'[c]>> \in live' /\ refs'[page'[c]] = 0 /\ Pending(page[c])' = {c}
    <3>1. use_count[p] <= 1
      BY <1>1, <1>2, <2>2 DEF SeveralUsers, TypeOK
    <3>2. refs[p] = 1 /\ Cardinality(Pending(p)) = 0
      BY <1>1, <1>2, <1>3, <3>1, PendingFinite DEF UseCountsAgree
    <3>3. Pending(p) = {}
      BY <3>2, PendingFinite, FS_EmptySet
    <3>4. QED BY <1>1, <1>2, <1>3, <1>7, <3>2, <3>3 DEF CallerInv
  <2>3. ASSUME NEW d \in Ctx \ {c}, pc'[d] = "free"
        PROVE  <<page'[d], req'[d]>> \in live' /\ refs'[page'[d]] = 0 /\ Pending(page[d])' = {d}
    <3>1. <<page[d], req[d]>> \in live /\ refs[page[d]] = 0 /\ Pending(page[d]) = {d}
      BY <1>2, <1>3, <2>3, Zenon DEF CallerInv
    <3>2. page[d] # p /\ page[d] \in Pfn
      BY <1>1, <1>2, <3>1 DEF TypeOK
    <3>3. QED BY <1>1, <1>3, <1>7, <3>1, <3>2
  <2>4. QED BY <2>1, <2>2, <2>3, Zenon DEF CallerInv
<1>11. BootInv'
  BY <1>1, <1>2, <1>3 DEF BootInv
<1>12. QED BY <1>4, <1>5, <1>6, <1>9, <1>10, <1>11 DEF IInv

LEMMA Inv_page_free_shared ==
  ASSUME IInv, NEW c \in Ctx, page_free_shared(c)
  PROVE  IInv' /\ Still
<1>0. PICK p \in Pfn : p = page[c]
  BY DEF IInv, TypeOK
<1>1. /\ pc[c] = "dec" /\ use_count' = [use_count EXCEPT ![p] = use_count[p] - 1] /\ Return(c)
      /\ UNCHANGED <<order, invalid, free_pages, free_count, lock, boot, live, refs, size>>
  BY <1>0 DEF page_free_shared, PAGE_DEC_USES, listVars, callerVars
<1>2. /\ TypeOK /\ LockInv /\ LevelInv /\ NoOverlap /\ NoFrameLost /\ HeadOrder
      /\ FreeCountsAgree /\ UseCountsAgree /\ CallerInv /\ BootInv
  BY DEF IInv
<1>3. /\ pc'[c] = "idle"
      /\ \A d \in Ctx \ {c} : /\ pc'[d] = pc[d] /\ req'[d] = req[d] /\ page'[d] = page[d]
                              /\ blk'[d] = blk[d] /\ lvl'[d] = lvl[d]
  BY <1>1, <1>2, ReturnTypes, Zenon DEF TypeOK
<1>4. /\ Pending(p)' = Pending(p) \ {c} /\ c \in Pending(p)
      /\ \A q \in Pfn \ {p} : Pending(q)' = Pending(q)
  BY <1>0, <1>1, <1>3 DEF Pending
<1>5. /\ Cardinality(Pending(p)') = Cardinality(Pending(p)) - 1
      /\ use_count[p] - 1 = refs[p] + Cardinality(Pending(p)')
      /\ use_count[p] - 1 \in Nat
  <2>1. Cardinality(Pending(p)') = Cardinality(Pending(p)) - 1
    BY <1>4, PendingFinite, FS_RemoveElement, Zenon
  <2>2. Cardinality(Pending(p)') \in Nat
    BY <1>4, PendingFinite, FS_RemoveElement, FS_CardinalityType
  <2>3. use_count[p] = refs[p] + Cardinality(Pending(p)) /\ refs[p] \in Nat
    BY <1>2, <1>3, Zenon DEF UseCountsAgree, TypeOK
  <2>4. QED BY <2>1, <2>2, <2>3, PendingFinite
<1>6. TypeOK'
  <2>1. use_count' \in [Pfn -> Nat]
    BY <1>1, <1>2, <1>3, <1>5, Zenon DEF TypeOK
  <2>2. QED BY <1>1, <1>2, <2>1, ReturnTypes, Zenon DEF TypeOK
<1>7. LockInv' /\ LevelInv'
  BY <1>1, <1>2, <1>3, Zenon DEF LockInv, LevelInv
<1>8. NoOverlap' /\ NoFrameLost' /\ HeadOrder' /\ FreeCountsAgree' /\ Still
  BY <1>1, <1>2, <1>3, Unmoved, Zenon
<1>9. UseCountsAgree'
  <2>1. \A q \in Pfn : use_count'[q] = IF q = p THEN use_count[p] - 1 ELSE use_count[q]
    BY <1>1, <1>2, Zenon DEF TypeOK
  <2>2. \A q \in Pfn \ {p} : use_count[q] = refs[q] + Cardinality(Pending(q)')
    BY <1>2, <1>4 DEF UseCountsAgree
  <2>3. \A q \in Pfn : use_count'[q] = refs'[q] + Cardinality(Pending(q)')
    BY <1>1, <1>5, <2>1, <2>2, Zenon
  <2>4. QED BY <2>3 DEF UseCountsAgree
<1>10. CallerInv'
  <2>1. ASSUME NEW d \in Ctx, pc'[d] = "free"
        PROVE  <<page'[d], req'[d]>> \in live' /\ refs'[page'[d]] = 0 /\ Pending(page[d])' = {d}
    <3>1. d # c /\ page[d] \in Pfn
      BY <1>2, <1>3, <2>1, Zenon DEF TypeOK
    <3>2. <<page[d], req[d]>> \in live /\ refs[page[d]] = 0 /\ Pending(page[d]) = {d}
      BY <1>2, <1>3, <2>1, <3>1, Zenon DEF CallerInv
    <3>3. page[d] # p
      BY <1>4, <3>1, <3>2, Zenon
    <3>4. QED BY <1>1, <1>3, <1>4, <3>1, <3>2, <3>3
  <2>2. QED BY <1>1, <1>2, <2>1, Zenon DEF CallerInv
<1>11. BootInv'
  BY <1>1, <1>2, <1>3 DEF BootInv
<1>12. QED BY <1>6, <1>7, <1>8, <1>9, <1>10, <1>11 DEF IInv

LEMMA Inv_share_page ==
  ASSUME IInv, NEW p \in Pfn, share_page(p)
  PROVE  IInv' /\ Still
<1>1. /\ refs[p] > 0 /\ refs' = [refs EXCEPT ![p] = refs[p] + 1]
      /\ use_count' = [use_count EXCEPT ![p] = use_count[p] + 1]
      /\ UNCHANGED <<order, invalid, free_pages, free_count, lock, pc, req, page, blk, lvl,
                     boot, live, size>>
  BY PageAllocConstants DEF share_page, PAGE_INC_USES, listVars, localVars
<1>2. /\ TypeOK /\ LockInv /\ LevelInv /\ NoOverlap /\ NoFrameLost /\ HeadOrder
      /\ FreeCountsAgree /\ UseCountsAgree /\ CallerInv /\ BootInv
  BY DEF IInv
<1>3. use_count' \in [Pfn -> Nat] /\ refs' \in [Pfn -> Nat]
  BY <1>1, <1>2 DEF TypeOK
<1>4. TypeOK'
  BY <1>1, <1>2, <1>3, Zenon DEF TypeOK
<1>5. LockInv' /\ LevelInv' /\ BootInv'
  BY <1>1, <1>2 DEF LockInv, LevelInv, BootInv
<1>6. NoOverlap' /\ NoFrameLost' /\ HeadOrder' /\ FreeCountsAgree' /\ Still
  <2>1. InFlight' = InFlight
    BY <1>1 DEF InFlight
  <2>2. QED BY <1>1, <1>2, <2>1, SameBlocks
<1>7. \A q : Pending(q)' = Pending(q)
  BY <1>1 DEF Pending
<1>8. UseCountsAgree'
  <2>1. \A q \in Pfn : use_count'[q] = refs'[q] + Cardinality(Pending(q))
    BY <1>1, <1>2, PendingFinite DEF UseCountsAgree, TypeOK
  <2>2. QED BY <1>7, <2>1 DEF UseCountsAgree
<1>9. CallerInv'
  <2>1. \A q \in Pfn : refs'[q] > 0 => <<q, size'[q]>> \in live'
    BY <1>1, <1>2 DEF CallerInv, TypeOK
  <2>2. \A d \in Ctx : pc[d] = "free" => page[d] # p /\ page[d] \in Pfn
    <3>1. \A d \in Ctx : pc[d] = "free" => refs[page[d]] = 0
      BY <1>2, Zenon DEF CallerInv
    <3>2. \A d \in Ctx : page[d] \in Pfn
      BY <1>2 DEF TypeOK
    <3>3. QED BY <1>1, <3>1, <3>2
  <2>3. \A d \in Ctx : pc'[d] = "free" =>
          <<page'[d], req'[d]>> \in live' /\ refs'[page'[d]] = 0 /\ Pending(page[d])' = {d}
    BY <1>1, <1>2, <1>7, <2>2, Zenon DEF CallerInv, TypeOK
  <2>4. QED BY <2>1, <2>3 DEF CallerInv
<1>10. QED BY <1>4, <1>5, <1>6, <1>8, <1>9 DEF IInv

-----------------------------------------------------------------------------
(* Steps by which a block changes hands: it leaves a free list for a caller or a *)
(* merge, or enters one *)

\* Blocks that only change hands stay where they are
LEMMA ChangeHands ==
  ASSUME NoOverlap, NoFrameLost, UNCHANGED invalid, AllBlocks' = AllBlocks,
         FreeBlocks' \cap live' = {}, InFlight' \cap (FreeBlocks' \cup live') = {}
  PROVE  NoOverlap' /\ NoFrameLost'
<1>1. NoOverlap'
  BY DEF NoOverlap, Placed, Disjoint
<1>2. NoFrameLost'
  BY DEF NoFrameLost, FramesOf
<1>3. QED BY <1>1, <1>2, Zenon

\* The head of a block is in no other block
LEMMA OneHead ==
  ASSUME TypeOK, LevelInv, NoOverlap,
         NEW a \in AllBlocks, NEW b \in AllBlocks, a[1] = b[1]
  PROVE  a = b
<1>1. a \in Blocks /\ b \in Blocks /\ AllBlocks \subseteq Blocks /\ Disjoint(AllBlocks)
  BY AllAreBlocks DEF NoOverlap
<1>2. a[1] \in Pages(b[1], b[2])
  BY <1>1, HeadIn
<1>3. QED BY <1>1, <1>2, HeadsDiffer

LEMMA Inv_page_alloc_take ==
  ASSUME IInv, NEW c \in Ctx, page_alloc_take(c)
  PROVE  IInv' /\ \E b \in FreeBlocks :
           /\ FreeBlocks' = FreeBlocks \ {b} /\ live' = live \cup {b}
           /\ InFlight = {} /\ InFlight' = {}
<1>1. /\ TypeOK /\ LockInv /\ LevelInv /\ NoOverlap /\ NoFrameLost /\ HeadOrder
      /\ FreeCountsAgree /\ UseCountsAgree /\ CallerInv /\ BootInv
  BY DEF IInv
<1>2. PICK o \in Order : o = req[c]
  BY <1>1 DEF TypeOK
<1>3. PICK p \in free_pages[o] :
        /\ buddy_remove_block(p) /\ use_count' = PAGE_INC_USES(p)
        /\ live' = live \cup {<<p, o>>} /\ refs' = [refs EXCEPT ![p] = @ + 1]
        /\ size' = [size EXCEPT ![p] = o]
  BY <1>2, Zenon DEF page_alloc_take
<1>4. p \in Pfn /\ order[p] = o
  BY <1>1, <1>3 DEF TypeOK, HeadOrder
<1>5. /\ pc[c] = "take" /\ Return(c) /\ lock' = NoCtx /\ UNCHANGED <<invalid, boot>>
      /\ free_pages' = [free_pages EXCEPT ![o] = free_pages[o] \ {p}]
      /\ free_count' = [free_count EXCEPT ![o] = free_count[o] - 1]
      /\ order' = [order EXCEPT ![p] = ORDER_USED]
      /\ use_count' = [use_count EXCEPT ![p] = use_count[p] + 1]
      /\ refs' = [refs EXCEPT ![p] = refs[p] + 1]
  BY <1>3, <1>4, Zenon DEF page_alloc_take, buddy_remove_block, PAGE_INC_USES
<1>6. /\ pc'[c] = "idle"
      /\ \A d \in Ctx \ {c} : /\ pc'[d] = pc[d] /\ req'[d] = req[d] /\ page'[d] = page[d]
                              /\ blk'[d] = blk[d] /\ lvl'[d] = lvl[d]
  BY <1>1, <1>5, ReturnTypes, Zenon
<1>7. lock = c /\ \A d \in Ctx : pc[d] # "merge" /\ pc'[d] # "merge"
  BY <1>1, <1>5, <1>6 DEF LockInv
<1>8. FreeBlocks' = FreeBlocks \ {<<p, o>>} /\ <<p, o>> \in FreeBlocks
  BY <1>1, <1>3, <1>4, <1>5 DEF FreeBlocks, Blocks, TypeOK
<1>9. InFlight = {} /\ InFlight' = {}
  BY <1>7 DEF InFlight
<1>10. AllBlocks' = AllBlocks /\ <<p, o>> \in AllBlocks
  BY <1>3, <1>8, <1>9 DEF AllBlocks
<1>11. \A b \in AllBlocks : b[1] = p => b = <<p, o>>
  BY <1>1, <1>10, OneHead
<1>12. NoOverlap' /\ NoFrameLost'
  <2>1. FreeBlocks' \cap live' = {}
    BY <1>1, <1>3, <1>8 DEF NoOverlap
  <2>2. QED BY <1>1, <1>5, <1>9, <1>10, <2>1, ChangeHands, Zenon
<1>13. HeadOrder'
  <2>1. \A x \in Order : \A q \in free_pages'[x] : q \in free_pages[x] /\ q # p
    <3>1. \A x \in Order : \A q \in free_pages'[x] : q \in free_pages[x] /\ (x = o => q # p)
      BY <1>1, <1>5, Zenon DEF TypeOK
    <3>2. \A x \in Order : p \in free_pages[x] => x = o
      <4>1. \A x \in Order : p \in free_pages[x] => <<p, x>> \in AllBlocks /\ <<p, x>>[1] = p
        BY <1>1, FreeBlocksAre DEF AllBlocks
      <4>2. QED BY <1>11, <4>1, Zenon
    <3>3. QED BY <3>1, <3>2
  <2>2. \A b \in live : b[1] \in Pfn /\ order[b[1]] = ORDER_USED
    BY <1>1 DEF HeadOrder, TypeOK, Blocks
  <2>3. \A b \in live' : order'[b[1]] = ORDER_USED
    BY <1>1, <1>3, <1>4, <1>5, <2>2 DEF TypeOK
  <2>4. \A x \in Order : \A q \in free_pages'[x] : order'[q] = x
    BY <1>1, <1>5, <2>1 DEF HeadOrder, TypeOK
  <2>5. QED BY <2>3, <2>4 DEF HeadOrder
<1>14. free_count[o] - 1 = Cardinality(free_pages[o] \ {p}) /\ free_count[o] - 1 \in Nat
  <2>1. IsFiniteSet(free_pages[o])
    BY <1>1, FreeListsFinite
  <2>2. Cardinality(free_pages[o] \ {p}) = Cardinality(free_pages[o]) - 1
    BY <1>3, <2>1, FS_RemoveElement, Zenon
  <2>3. Cardinality(free_pages[o] \ {p}) \in Nat
    BY <2>1, FS_RemoveElement, FS_CardinalityType
  <2>4. QED BY <1>1, <2>2, <2>3 DEF FreeCountsAgree
<1>15. FreeCountsAgree'
  <2>1. \A x \in Order : free_count'[x] = Cardinality(free_pages'[x])
    BY <1>1, <1>5, <1>14, Zenon DEF FreeCountsAgree, TypeOK
  <2>2. QED BY <2>1 DEF FreeCountsAgree
<1>16. \A q : Pending(q)' = Pending(q)
  BY <1>5, <1>6 DEF Pending
<1>17. UseCountsAgree'
  <2>1. \A q \in Pfn : use_count'[q] = refs'[q] + Cardinality(Pending(q))
    BY <1>1, <1>4, <1>5, PendingFinite DEF UseCountsAgree, TypeOK
  <2>2. QED BY <1>16, <2>1 DEF UseCountsAgree
<1>18. CallerInv'
  <2>1. \A q \in Pfn : refs'[q] > 0 => <<q, size'[q]>> \in live'
    BY <1>1, <1>3, <1>4, <1>5 DEF CallerInv, TypeOK
  <2>2. ASSUME NEW d \in Ctx, pc'[d] = "free"
        PROVE  <<page'[d], req'[d]>> \in live' /\ refs'[page'[d]] = 0 /\ Pending(page[d])' = {d}
    <3>1. d # c /\ page[d] \in Pfn
      BY <1>1, <1>6, <2>2, Zenon DEF TypeOK
    <3>2. <<page[d], req[d]>> \in live /\ refs[page[d]] = 0 /\ Pending(page[d]) = {d}
      BY <1>1, <1>6, <2>2, <3>1, Zenon DEF CallerInv
    <3>3. page[d] # p
      <4>1. <<page[d], req[d]>> # <<p, o>>
        BY <1>1, <1>8, <3>2, Zenon DEF NoOverlap
      <4>2. QED BY <1>11, <3>2, <4>1 DEF AllBlocks
    <3>4. page'[d] = page[d] /\ req'[d] = req[d]
      BY <1>6, <3>1
    <3>5. refs'[page[d]] = refs[page[d]]
      BY <1>1, <1>5, <3>1, <3>3, Zenon DEF TypeOK
    <3>6. QED BY <1>3, <1>16, <3>2, <3>4, <3>5, Zenon
  <2>3. QED BY <2>1, <2>2, Zenon DEF CallerInv
<1>19. TypeOK'
  <2>1. order' \in [Pfn -> Order \cup {ORDER_USED}] /\ free_pages' \in [Order -> SUBSET Pfn]
    BY <1>1, <1>5, Zenon DEF TypeOK
  <2>2. use_count' \in [Pfn -> Nat] /\ refs' \in [Pfn -> Nat] /\ size' \in [Pfn -> Order]
    BY <1>1, <1>3, <1>5 DEF TypeOK
  <2>3. free_count' \in [Order -> Nat]
    BY <1>1, <1>5, <1>14, Zenon DEF TypeOK
  <2>4. live' \subseteq Blocks
    BY <1>1, <1>3, <1>4 DEF TypeOK, Blocks
  <2>5. QED BY <1>1, <1>5, <2>1, <2>2, <2>3, <2>4, ReturnTypes, Zenon DEF TypeOK
<1>20. LockInv' /\ LevelInv' /\ BootInv'
  BY <1>1, <1>5, <1>6, <1>7, PageAllocConstants DEF LockInv, LevelInv, BootInv
<1>21. QED BY <1>3, <1>8, <1>9, <1>12, <1>13, <1>15, <1>17, <1>18, <1>19, <1>20 DEF IInv

\* A frame that bootmem has yet to release is in no block that callers hold
LEMMA HeldNotBoot ==
  ASSUME TypeOK, LevelInv, NoFrameLost, BootInv, NEW b \in AllBlocks, b[1] \in boot
  PROVE  \E c \in Ctx : pc[c] = "merge" /\ page[c] = b[1]
<1>1. b \in Blocks /\ b[1] \in Pages(b[1], b[2])
  BY AllAreBlocks, HeadIn
<1>2. b[1] \in FramesOf(AllBlocks)
  BY <1>1 DEF FramesOf
<1>3. ~invalid[b[1]]
  BY <1>2 DEF NoFrameLost
<1>4. QED BY <1>3 DEF BootInv

LEMMA Inv_page_free_lock ==
  ASSUME IInv, NEW c \in Ctx, page_free_lock(c)
  PROVE  IInv' /\ \E b \in live :
           /\ FreeBlocks' = FreeBlocks /\ live' = live \ {b}
           /\ InFlight = {} /\ InFlight' = {b}
<1>1. /\ TypeOK /\ LockInv /\ LevelInv /\ NoOverlap /\ NoFrameLost /\ HeadOrder
      /\ FreeCountsAgree /\ UseCountsAgree /\ CallerInv /\ BootInv
  BY DEF IInv
<1>2. PICK p \in Pfn, o \in Order : p = page[c] /\ o = req[c]
  BY <1>1 DEF TypeOK
<1>3. /\ pc[c] = "free" /\ lock = NoCtx /\ lock' = c
      /\ order' = [order EXCEPT ![p] = o] /\ blk' = [blk EXCEPT ![c] = p]
      /\ lvl' = [lvl EXCEPT ![c] = o] /\ pc' = [pc EXCEPT ![c] = "merge"]
      /\ live' = live \ {<<p, o>>}
      /\ UNCHANGED <<invalid, use_count, free_pages, free_count, req, page, boot, refs, size>>
  BY <1>2 DEF page_free_lock, listVars
<1>4. <<p, o>> \in live /\ refs[p] = 0 /\ Pending(p) = {c}
  BY <1>1, <1>2, <1>3, Zenon DEF CallerInv
<1>5. /\ pc'[c] = "merge" /\ blk'[c] = p /\ lvl'[c] = o
      /\ \A d \in Ctx \ {c} : pc'[d] = pc[d] /\ blk'[d] = blk[d] /\ lvl'[d] = lvl[d]
  BY <1>1, <1>3 DEF TypeOK
<1>6. \A d \in Ctx : pc[d] \notin {"split", "take", "merge"}
  BY <1>1, <1>3, PageAllocConstants DEF LockInv
<1>7. TypeOK'
  <2>1. order' \in [Pfn -> Order \cup {ORDER_USED}] /\ blk' \in [Ctx -> Pfn]
    BY <1>1, <1>3, Zenon DEF TypeOK
  <2>2. lvl' \in [Ctx -> 0 .. ORDER_MAX + 1]
    <3>1. o \in 0 .. ORDER_MAX + 1
      BY OrderFacts DEF Order
    <3>2. QED BY <1>1, <1>3, <3>1, Zenon DEF TypeOK
  <2>3. pc' \in [Ctx -> {"idle", "alloc", "split", "take", "dec", "free", "merge"}]
    BY <1>1, <1>3, Zenon DEF TypeOK
  <2>4. live' \subseteq Blocks /\ lock' \in Ctx \cup {NoCtx}
    BY <1>1, <1>3, Zenon DEF TypeOK
  <2>5. QED BY <1>1, <1>3, <2>1, <2>2, <2>3, <2>4, Zenon DEF TypeOK
<1>8. LockInv' /\ LevelInv'
  <2>1. LockInv'
    BY <1>3, <1>5, <1>6 DEF LockInv
  <2>2. LevelInv'
    <3>1. o <= ORDER_MAX
      BY OrderFacts DEF Order
    <3>2. QED BY <1>3, <1>5, <1>6, <3>1 DEF LevelInv
  <2>3. QED BY <2>1, <2>2
<1>9. FreeBlocks' = FreeBlocks
  BY <1>3 DEF FreeBlocks
<1>10. InFlight = {} /\ InFlight' = {<<p, o>>}
  <2>1. InFlight = {}
    BY <1>6 DEF InFlight
  <2>2. {d \in Ctx : pc'[d] = "merge"} = {c}
    BY <1>5, <1>6
  <2>3. QED BY <1>5, <2>1, <2>2 DEF InFlight
<1>11. AllBlocks' = AllBlocks /\ <<p, o>> \in AllBlocks
  BY <1>3, <1>4, <1>9, <1>10 DEF AllBlocks
<1>12. NoOverlap' /\ NoFrameLost'
  <2>1. FreeBlocks' \cap live' = {} /\ InFlight' \cap (FreeBlocks' \cup live') = {}
    BY <1>1, <1>3, <1>4, <1>9, <1>10 DEF NoOverlap
  <2>2. QED BY <1>1, <1>3, <1>11, <2>1, ChangeHands
<1>13. HeadOrder'
  <2>1. \A b \in AllBlocks : b[1] = p => b = <<p, o>>
    BY <1>1, <1>11, OneHead
  <2>2. \A b \in live' : b[1] # p /\ b[1] \in Pfn /\ order[b[1]] = ORDER_USED
    <3>1. \A b \in live' : b \in live /\ b # <<p, o>> /\ b \in AllBlocks
      BY <1>3 DEF AllBlocks
    <3>2. \A b \in live : b[1] \in Pfn /\ order[b[1]] = ORDER_USED
      BY <1>1, Zenon DEF HeadOrder, TypeOK, Blocks
    <3>3. QED BY <2>1, <3>1, <3>2
  <2>3. \A x \in Order : \A q \in free_pages[x] : q # p /\ q \in Pfn /\ order[q] = x
    <3>1. \A x \in Order : \A q \in free_pages[x] :
            <<q, x>> \in AllBlocks /\ <<q, x>> # <<p, o>> /\ <<q, x>>[1] = q
      BY <1>1, <1>4, FreeBlocksAre, Zenon DEF AllBlocks, NoOverlap
    <3>2. \A x \in Order : \A q \in free_pages[x] : q # p
      BY <2>1, <3>1, Zenon
    <3>3. QED BY <1>1, <3>2 DEF HeadOrder, TypeOK
  <2>4. \A q \in Pfn \ {p} : order'[q] = order[q]
    BY <1>1, <1>3, Zenon DEF TypeOK
  <2>5. QED BY <1>3, <2>2, <2>3, <2>4 DEF HeadOrder
<1>14. p \notin boot
  <2>1. <<p, o>>[1] = p
    OBVIOUS
  <2>2. QED BY <1>1, <1>6, <1>11, <2>1, HeldNotBoot
<1>15. FreeCountsAgree'
  BY <1>1, <1>3, Zenon DEF FreeCountsAgree
<1>16. \A q : Pending(q)' = Pending(q)
  BY <1>2, <1>3, <1>5, <1>14 DEF Pending
<1>17. UseCountsAgree'
  BY <1>1, <1>3, <1>16, Zenon DEF UseCountsAgree
<1>18. CallerInv'
  <2>1. \A q \in Pfn : refs[q] > 0 => <<q, size[q]>> \in live /\ q # p
    BY <1>1, <1>4 DEF CallerInv
  <2>2. \A q \in Pfn : refs'[q] > 0 => <<q, size'[q]>> \in live'
    BY <1>3, <2>1, Zenon
  <2>3. ASSUME NEW d \in Ctx, pc'[d] = "free"
        PROVE  <<page'[d], req'[d]>> \in live' /\ refs'[page'[d]] = 0 /\ Pending(page[d])' = {d}
    <3>1. d # c /\ pc[d] = "free"
      BY <1>5, <2>3
    <3>2. <<page[d], req[d]>> \in live /\ refs[page[d]] = 0 /\ Pending(page[d]) = {d}
      BY <1>1, <3>1, Zenon DEF CallerInv
    <3>3. page[d] # p
      BY <1>4, <3>1, <3>2, Zenon
    <3>4. QED BY <1>3, <1>16, <3>2, <3>3, Zenon
  <2>4. QED BY <2>2, <2>3, Zenon DEF CallerInv
<1>19. BootInv'
  BY <1>1, <1>3, <1>5, <1>6 DEF BootInv
<1>20. QED BY <1>3, <1>4, <1>7, <1>8, <1>9, <1>10, <1>12, <1>13, <1>15, <1>17, <1>18, <1>19 DEF IInv

LEMMA Inv_page_initial_free ==
  ASSUME IInv, NEW c \in Ctx, NEW p \in Pfn, page_initial_free(c, p)
  PROVE  /\ IInv' /\ FreeBlocks' = FreeBlocks /\ live' = live
         /\ InFlight = {} /\ InFlight' = {<<p, 0>>}
         /\ Pages(p, 0) = {p} /\ p \notin FramesOf(AllBlocks)
         /\ p \in Usable /\ invalid' = [invalid EXCEPT ![p] = FALSE]
<1>1. /\ TypeOK /\ LockInv /\ LevelInv /\ NoOverlap /\ NoFrameLost /\ HeadOrder
      /\ FreeCountsAgree /\ UseCountsAgree /\ CallerInv /\ BootInv
  BY DEF IInv
<1>2. /\ p \in boot /\ (\A d \in Ctx : pc[d] = "idle") /\ lock = NoCtx /\ lock' = c
      /\ invalid' = [invalid EXCEPT ![p] = FALSE]
      /\ page' = [page EXCEPT ![c] = p] /\ blk' = [blk EXCEPT ![c] = p]
      /\ lvl' = [lvl EXCEPT ![c] = 0] /\ pc' = [pc EXCEPT ![c] = "merge"]
      /\ UNCHANGED <<order, use_count, free_pages, free_count, req, boot, live, refs, size>>
  BY DEF page_initial_free, listVars, callerVars
<1>3. /\ pc'[c] = "merge" /\ blk'[c] = p /\ lvl'[c] = 0 /\ page'[c] = p
      /\ \A d \in Ctx \ {c} : pc'[d] = "idle" /\ page'[d] = page[d]
      /\ \A q \in Pfn \ {p} : invalid'[q] = invalid[q]
      /\ ~invalid'[p]
  BY <1>1, <1>2 DEF TypeOK
<1>4. TypeOK'
  <2>1. invalid' \in [Pfn -> BOOLEAN] /\ page' \in [Ctx -> Pfn] /\ blk' \in [Ctx -> Pfn]
    BY <1>1, <1>2, Zenon DEF TypeOK
  <2>2. lvl' \in [Ctx -> 0 .. ORDER_MAX + 1]
    BY <1>1, <1>2, OrderFacts, Zenon DEF TypeOK
  <2>3. pc' \in [Ctx -> {"idle", "alloc", "split", "take", "dec", "free", "merge"}]
    BY <1>1, <1>2, Zenon DEF TypeOK
  <2>4. QED BY <1>1, <1>2, <2>1, <2>2, <2>3, Zenon DEF TypeOK
<1>5. LockInv' /\ LevelInv'
  <2>1. LockInv'
    BY <1>2, <1>3 DEF LockInv
  <2>2. LevelInv'
    BY <1>3, OrderFacts DEF LevelInv
  <2>3. QED BY <2>1, <2>2
<1>6. FreeBlocks' = FreeBlocks
  BY <1>2 DEF FreeBlocks
<1>7. InFlight = {} /\ InFlight' = {<<p, 0>>}
  <2>1. InFlight = {}
    BY <1>2 DEF InFlight
  <2>2. {d \in Ctx : pc'[d] = "merge"} = {c}
    BY <1>3
  <2>3. QED BY <1>3, <2>1, <2>2 DEF InFlight
<1>8. AllBlocks' = AllBlocks \cup {<<p, 0>>}
  BY <1>2, <1>6, <1>7 DEF AllBlocks
<1>9. p \notin FramesOf(AllBlocks)
  BY <1>1, <1>2 DEF BootInv, NoFrameLost
<1>10. Pages(p, 0) = {p} /\ Aligned(p, 0)
  <2>1. p \in Nat /\ p % 1 = 0
    BY OrderFacts DEF Pfn
  <2>2. QED BY <2>1, SizeValues DEF Pages, Aligned
<1>11. FramesOf(AllBlocks') = FramesOf(AllBlocks) \cup {p}
  <2>1. <<p, 0>>[1] = p /\ <<p, 0>>[2] = 0
    OBVIOUS
  <2>2. \A x : (\E b \in AllBlocks \cup {<<p, 0>>} : x \in Pages(b[1], b[2])) <=>
              (x = p \/ \E b \in AllBlocks : x \in Pages(b[1], b[2]))
    BY <1>10, <2>1, Zenon
  <2>3. QED BY <1>8, <2>2 DEF FramesOf
<1>12. \A b \in AllBlocks : p \notin Pages(b[1], b[2])
  BY <1>9 DEF FramesOf
<1>13. NoOverlap'
  <2>1. <<p, 0>> \notin AllBlocks
    BY <1>10, <1>12
  <2>2. Placed(AllBlocks')
    BY <1>1, <1>8, <1>10 DEF Placed, NoOverlap
  <2>3. Disjoint(AllBlocks')
    BY <1>1, <1>8, <1>10, <1>12 DEF Disjoint, NoOverlap
  <2>4. FreeBlocks' \cap live' = {} /\ InFlight' \cap (FreeBlocks' \cup live') = {}
    BY <1>1, <1>2, <1>6, <1>7, <2>1 DEF NoOverlap, AllBlocks
  <2>5. QED BY <2>2, <2>3, <2>4 DEF NoOverlap
<1>14. NoFrameLost'
  <2>1. {q \in Pfn : ~invalid'[q]} = {q \in Pfn : ~invalid[q]} \cup {p}
    BY <1>3, Zenon
  <2>2. QED BY <1>1, <1>11, <2>1 DEF NoFrameLost
<1>15. HeadOrder' /\ FreeCountsAgree'
  BY <1>1, <1>2, Zenon DEF HeadOrder, FreeCountsAgree
<1>16. \A q : Pending(q)' = Pending(q)
  BY <1>2, <1>3 DEF Pending
<1>17. UseCountsAgree'
  BY <1>1, <1>2, <1>16, Zenon DEF UseCountsAgree
<1>18. CallerInv'
  <2>1. \A d \in Ctx : pc'[d] # "free"
    BY <1>3
  <2>2. QED BY <1>1, <1>2, <2>1, Zenon DEF CallerInv
<1>19. BootInv'
  <2>1. \A q \in boot : q \in Pfn /\ invalid[q]
    BY <1>1, <1>2, PageAllocConstants, Zenon DEF BootInv, TypeOK
  <2>2. QED BY <1>2, <1>3, <2>1 DEF BootInv
<1>20. p \in Usable
  BY <1>1, <1>2, Zenon DEF TypeOK
<1>21. QED BY <1>2, <1>4, <1>5, <1>6, <1>7, <1>9, <1>10, <1>13, <1>14, <1>15, <1>17, <1>18, <1>19, <1>20 DEF IInv

LEMMA Inv_buddy_merge_done ==
  ASSUME IInv, NEW c \in Ctx, buddy_merge_done(c)
  PROVE  IInv' /\ \E b \in Blocks :
           /\ FreeBlocks' = FreeBlocks \cup {b} /\ live' = live
           /\ InFlight = {b} /\ InFlight' = {}
<1>1. /\ TypeOK /\ LockInv /\ LevelInv /\ NoOverlap /\ NoFrameLost /\ HeadOrder
      /\ FreeCountsAgree /\ UseCountsAgree /\ CallerInv /\ BootInv
  BY DEF IInv
<1>2. pc[c] = "merge"
  BY DEF buddy_merge_done
<1>3. PICK p \in Pfn, o \in Order, r \in Pfn : p = blk[c] /\ o = lvl[c] /\ r = page[c]
  <2>1. blk[c] \in Pfn /\ page[c] \in Pfn /\ lvl[c] \in 0 .. ORDER_MAX + 1
    BY <1>1 DEF TypeOK
  <2>2. lvl[c] <= ORDER_MAX
    BY <1>1, <1>2 DEF LevelInv
  <2>3. lvl[c] \in Order
    BY <2>1, <2>2, OrderFacts DEF Order
  <2>4. QED BY <2>1, <2>3
<1>4. /\ order' = [order EXCEPT ![p] = o]
      /\ free_pages' = [free_pages EXCEPT ![o] = free_pages[o] \cup {p}]
      /\ free_count' = [free_count EXCEPT ![o] = free_count[o] + 1]
      /\ use_count' = (IF r \in boot THEN use_count
                       ELSE [use_count EXCEPT ![r] = use_count[r] - 1])
      /\ boot' = boot \ {r} /\ Return(c) /\ lock' = NoCtx
      /\ UNCHANGED <<invalid, live, refs, size>>
  BY <1>3 DEF buddy_merge_done, buddy_add_block, PAGE_DEC_USES
<1>5. /\ pc'[c] = "idle"
      /\ \A d \in Ctx \ {c} : /\ pc'[d] = pc[d] /\ req'[d] = req[d] /\ page'[d] = page[d]
                              /\ blk'[d] = blk[d] /\ lvl'[d] = lvl[d]
  BY <1>1, <1>4, ReturnTypes, Zenon
<1>6. lock = c /\ \A d \in Ctx \ {c} : pc[d] \notin {"split", "take", "merge"}
  BY <1>1, <1>2 DEF LockInv
<1>7. InFlight = {<<p, o>>} /\ InFlight' = {}
  <2>1. InFlight = {<<p, o>>}
    BY <1>1, <1>2, <1>3, FlightOf
  <2>2. InFlight' = {}
    BY <1>5, <1>6 DEF InFlight
  <2>3. QED BY <2>1, <2>2
<1>8. FreeBlocks' = FreeBlocks \cup {<<p, o>>}
  BY <1>1, <1>4 DEF FreeBlocks, Blocks, TypeOK
<1>9. AllBlocks' = AllBlocks /\ <<p, o>> \in AllBlocks
  BY <1>4, <1>7, <1>8 DEF AllBlocks
<1>10. <<p, o>> \notin FreeBlocks /\ <<p, o>> \notin live
  BY <1>1, <1>7 DEF NoOverlap
<1>11. NoOverlap' /\ NoFrameLost'
  <2>1. FreeBlocks' \cap live' = {} /\ InFlight' \cap (FreeBlocks' \cup live') = {}
    BY <1>1, <1>4, <1>7, <1>8, <1>10 DEF NoOverlap
  <2>2. QED BY <1>1, <1>4, <1>9, <2>1, ChangeHands, Zenon
<1>12. HeadOrder'
  <2>1. \A b \in AllBlocks : b[1] = p => b = <<p, o>>
    BY <1>1, <1>9, OneHead
  <2>2. \A b \in live : b[1] # p /\ b[1] \in Pfn /\ order[b[1]] = ORDER_USED
    <3>1. \A b \in live : b \in AllBlocks /\ b # <<p, o>>
      BY <1>10 DEF AllBlocks
    <3>2. \A b \in live : b[1] \in Pfn /\ order[b[1]] = ORDER_USED
      BY <1>1, Zenon DEF HeadOrder, TypeOK, Blocks
    <3>3. QED BY <2>1, <3>1, <3>2
  <2>3. \A x \in Order : \A q \in free_pages[x] : q # p /\ q \in Pfn /\ order[q] = x
    <3>1. \A x \in Order : \A q \in free_pages[x] :
            <<q, x>> \in AllBlocks /\ <<q, x>> # <<p, o>> /\ <<q, x>>[1] = q
      BY <1>1, <1>10, FreeBlocksAre, Zenon DEF AllBlocks
    <3>2. \A x \in Order : \A q \in free_pages[x] : q # p
      BY <2>1, <3>1, Zenon
    <3>3. QED BY <1>1, <3>2 DEF HeadOrder, TypeOK
  <2>4. order'[p] = o /\ \A q \in Pfn \ {p} : order'[q] = order[q]
    BY <1>1, <1>4, Zenon DEF TypeOK
  <2>5. \A x \in Order : \A q \in free_pages'[x] : q \in free_pages[x] \/ (q = p /\ x = o)
    BY <1>1, <1>4, Zenon DEF TypeOK
  <2>6. QED BY <1>4, <2>2, <2>3, <2>4, <2>5 DEF HeadOrder
<1>13. FreeCountsAgree'
  <2>1. p \notin free_pages[o]
    BY <1>1, <1>10, FreeBlocksAre
  <2>2. Cardinality(free_pages[o] \cup {p}) = Cardinality(free_pages[o]) + 1
    BY <1>1, <2>1, FreeListsFinite, FS_AddElement, Zenon
  <2>3. \A x \in Order : free_count'[x] = Cardinality(free_pages'[x])
    BY <1>1, <1>4, <2>2, Zenon DEF FreeCountsAgree, TypeOK
  <2>4. QED BY <2>3 DEF FreeCountsAgree
<1>14. \A q : q # r \/ r \in boot => Pending(q)' = Pending(q)
  BY <1>2, <1>3, <1>4, <1>5, <1>6 DEF Pending
<1>15. r \notin boot => /\ Pending(r)' = Pending(r) \ {c} /\ c \in Pending(r)
                        /\ use_count[r] - 1 = refs[r] + Cardinality(Pending(r)')
                        /\ use_count[r] - 1 \in Nat
  <2> SUFFICES ASSUME r \notin boot
               PROVE  /\ Pending(r)' = Pending(r) \ {c} /\ c \in Pending(r)
                      /\ use_count[r] - 1 = refs[r] + Cardinality(Pending(r)')
                      /\ use_count[r] - 1 \in Nat
    OBVIOUS
  <2>1. Pending(r)' = Pending(r) \ {c} /\ c \in Pending(r)
    BY <1>2, <1>3, <1>4, <1>5, <1>6 DEF Pending
  <2>2. Cardinality(Pending(r)') = Cardinality(Pending(r)) - 1
    BY <2>1, PendingFinite, FS_RemoveElement, Zenon
  <2>3. Cardinality(Pending(r)') \in Nat
    BY <2>1, PendingFinite, FS_RemoveElement, FS_CardinalityType
  <2>4. use_count[r] = refs[r] + Cardinality(Pending(r)) /\ refs[r] \in Nat
    BY <1>1, Zenon DEF UseCountsAgree, TypeOK
  <2>5. QED BY <2>1, <2>2, <2>3, <2>4, PendingFinite
<1>16. UseCountsAgree'
  <2>1. \A q \in Pfn : use_count[q] = refs[q] + Cardinality(Pending(q))
    BY <1>1 DEF UseCountsAgree
  <2>2. \A q \in Pfn : use_count'[q] = refs[q] + Cardinality(Pending(q)')
    <3>1. CASE r \in boot
      BY <1>4, <1>14, <2>1, <3>1, Zenon
    <3>2. CASE r \notin boot
      <4>1. \A q \in Pfn : use_count'[q] = IF q = r THEN use_count[r] - 1 ELSE use_count[q]
        BY <1>1, <1>4, <3>2, Zenon DEF TypeOK
      <4>2. QED BY <1>14, <1>15, <2>1, <3>2, <4>1
    <3>3. QED BY <3>1, <3>2
  <2>3. QED BY <1>4, <2>2, Zenon DEF UseCountsAgree
<1>17. CallerInv'
  <2>1. ASSUME NEW d \in Ctx, pc'[d] = "free"
        PROVE  <<page'[d], req'[d]>> \in live' /\ refs'[page'[d]] = 0 /\ Pending(page[d])' = {d}
    <3>1. d # c /\ pc[d] = "free" /\ page'[d] = page[d] /\ req'[d] = req[d]
      BY <1>5, <2>1
    <3>2. <<page[d], req[d]>> \in live /\ refs[page[d]] = 0 /\ Pending(page[d]) = {d}
      BY <1>1, <3>1, Zenon DEF CallerInv
    <3>3. page[d] # r \/ r \in boot
      BY <1>15, <3>1, <3>2, Zenon
    <3>4. QED BY <1>4, <1>14, <3>1, <3>2, <3>3, Zenon
  <2>2. QED BY <1>1, <1>4, <2>1, Zenon DEF CallerInv
<1>18. BootInv'
  BY <1>1, <1>3, <1>4, <1>5, <1>6 DEF BootInv
<1>19. TypeOK'
  <2>1. order' \in [Pfn -> Order \cup {ORDER_USED}] /\ free_pages' \in [Order -> SUBSET Pfn]
    BY <1>1, <1>4 DEF TypeOK
  <2>2. use_count' \in [Pfn -> Nat]
    BY <1>1, <1>4, <1>15, Zenon DEF TypeOK
  <2>3. free_count' \in [Order -> Nat]
    BY <1>1, <1>4 DEF TypeOK
  <2>4. boot' \subseteq Usable
    BY <1>1, <1>4, Zenon DEF TypeOK
  <2>5. QED BY <1>1, <1>4, <2>1, <2>2, <2>3, <2>4, ReturnTypes, Zenon DEF TypeOK
<1>20. LockInv' /\ LevelInv'
  BY <1>1, <1>4, <1>5, <1>6, PageAllocConstants, Zenon DEF LockInv, LevelInv
<1>21. <<p, o>> \in Blocks
  BY DEF Blocks
<1>22. QED BY <1>4, <1>7, <1>8, <1>11, <1>12, <1>13, <1>16, <1>17, <1>18, <1>19, <1>20,
              <1>21, Zenon DEF IInv

=============================================================================
