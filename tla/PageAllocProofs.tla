--------------------------- MODULE PageAllocProofs ---------------------------
(***************************************************************************)
(* The theorems about the buddy allocator, for every number of frames,     *)
(* every set of usable frames, every order up to 6 and every set of        *)
(* contexts; at the end, that it implements PageOwnership.                 *)
(***************************************************************************)
EXTENDS PageInv

-----------------------------------------------------------------------------
(* Steps that change the size of a block: a split and one round of a merge *)

LEMMA Inv_buddy_split_block ==
  ASSUME IInv, NEW c \in Ctx, buddy_split_block(c)
  PROVE  IInv' /\ \E b \in FreeBlocks, D \in SUBSET Blocks :
           /\ FreeBlocks' = (FreeBlocks \ {b}) \cup D /\ FramesOf(D) = FramesOf({b})
           /\ live' = live /\ InFlight = {} /\ InFlight' = {}
<1>1. /\ TypeOK /\ LockInv /\ LevelInv /\ NoOverlap /\ NoFrameLost /\ HeadOrder
      /\ FreeCountsAgree /\ UseCountsAgree /\ CallerInv /\ BootInv
  BY DEF IInv
<1>2. pc[c] = "split" /\ lvl[c] <= ORDER_MAX
  BY DEF buddy_split_block
<1>3. PICK o \in 0 .. 5 : /\ lvl[c] = o + 1 /\ o = lvl[c] - 1 /\ o \in Order /\ o + 1 \in Order
                          /\ o + 1 <= ORDER_MAX /\ req[c] <= o
  <2>1. lvl[c] \in 0 .. ORDER_MAX + 1 /\ req[c] \in Order
    BY <1>1 DEF TypeOK
  <2>2. req[c] < lvl[c]
    BY <1>1, <1>2 DEF LevelInv
  <2>3. lvl[c] - 1 \in 0 .. 5
    BY <1>2, <2>1, <2>2, OrderFacts DEF Order
  <2>4. QED BY <1>2, <2>1, <2>2, <2>3, OrderFacts DEF Order
<1>4. PICK t \in free_pages[o + 1] :
        /\ order' = [order EXCEPT ![t] = o, ![buddy_get(t, o)] = o]
        /\ free_pages' = [free_pages EXCEPT ![o + 1] = @ \ {t}, ![o] = @ \cup {t, buddy_get(t, o)}]
        /\ free_count' = [free_count EXCEPT ![o + 1] = @ - 1, ![o] = @ + 2]
  <2>1. PICK t \in free_pages[lvl[c]] :
        /\ order' = [order EXCEPT ![t] = lvl[c] - 1, ![buddy_get(t, lvl[c] - 1)] = lvl[c] - 1]
        /\ free_pages' = [free_pages EXCEPT ![lvl[c]] = @ \ {t},
                            ![lvl[c] - 1] = @ \cup {t, buddy_get(t, lvl[c] - 1)}]
        /\ free_count' = [free_count EXCEPT ![lvl[c]] = @ - 1, ![lvl[c] - 1] = @ + 2]
    BY Zenon DEF buddy_split_block
  <2>2. lvl[c] = o + 1 /\ lvl[c] - 1 = o
    BY <1>3
  <2>3. QED BY <2>1, <2>2, Zenon
<1>5. /\ lvl' = [lvl EXCEPT ![c] = o]
      /\ pc' = [pc EXCEPT ![c] = IF o = req[c] THEN "take" ELSE "split"]
      /\ UNCHANGED <<invalid, use_count, lock, req, page, blk, boot, live, refs, size>>
  BY <1>3, Zenon DEF buddy_split_block, callerVars
<1>6. /\ lvl'[c] = o /\ pc'[c] = (IF o = req[c] THEN "take" ELSE "split")
      /\ \A d \in Ctx \ {c} : pc'[d] = pc[d] /\ lvl'[d] = lvl[d]
  BY <1>1, <1>5 DEF TypeOK
<1>7. lock = c /\ \A d \in Ctx : pc[d] # "merge" /\ pc'[d] # "merge"
  BY <1>1, <1>2, <1>6 DEF LockInv
\* the block, its lower half and the buddy
<1>8. t \in Pfn /\ t \in Nat
  <2>1. free_pages \in [Order -> SUBSET Pfn]
    BY <1>1, Zenon DEF TypeOK
  <2>2. t \in Pfn
    BY <1>3, <1>4, <2>1
  <2>3. QED BY <2>2, OrderFacts DEF Pfn
<1>9. <<t, o + 1>> \in FreeBlocks /\ <<t, o + 1>> \in AllBlocks
  BY <1>1, <1>3, <1>4, FreeBlocksAre DEF AllBlocks
<1>10. Aligned(t, o + 1) /\ Pages(t, o + 1) \subseteq Pfn
  BY <1>1, <1>9 DEF NoOverlap, Placed
<1>11. PICK u : u = buddy_get(t, o)
  OBVIOUS
<1>12. Aligned(t, o) /\ LowOfPair(t, o) = t
  BY <1>8, <1>10, SplitArith
<1>13. /\ FramesOf({<<t, o + 1>>}) = FramesOf({<<t, o>>, <<u, o>>})
       /\ Disjoint({<<t, o>>, <<u, o>>}) /\ t # u
       /\ Placed({<<t, o + 1>>}) <=> Placed({<<t, o>>, <<u, o>>})
  <2>1. t \in Nat /\ o \in 0 .. 5 /\ Aligned(t, o) /\ o + 1 <= ORDER_MAX
    BY <1>3, <1>8, <1>12
  <2>2. t = LowOfPair(t, o) /\ u = buddy_get(t, o)
    BY <1>11, <1>12
  <2>3. FramesOf({<<t, o + 1>>}) = FramesOf({<<t, o>>, <<u, o>>})
    BY <2>1, <2>2, Halves
  <2>4. Placed({<<t, o + 1>>}) <=> Placed({<<t, o>>, <<u, o>>})
    BY <2>1, <2>2, Halves, Zenon
  <2>5. Disjoint({<<t, o>>, <<u, o>>})
    BY <2>1, <2>2, Halves, Zenon
  <2>6. t # u
    <3>1. buddy_get(LowOfPair(t, o), o) = LowOfPair(t, o) + Size(o)
      BY <2>1, BuddyArith, Zenon
    <3>2. Size(o) \in Nat \ {0}
      BY <2>1, SizeFacts
    <3>3. u = t + Size(o)
      BY <2>2, <3>1
    <3>4. QED BY <2>1, <3>2, <3>3
  <2>7. QED BY <2>3, <2>4, <2>5, <2>6
<1>14. Placed({<<t, o>>, <<u, o>>})
  BY <1>10, <1>13 DEF Placed
<1>15. u \in Pfn
  <2>1. u \in Nat
    BY <1>8, <1>11, <1>12, BuddyArith, Zenon
  <2>2. u \in Pages(u, o)
    <3>1. o \in 0 .. 6
      BY <1>3
    <3>2. QED BY <2>1, <3>1, PagesOf, Zenon
  <2>3. Pages(u, o) \subseteq Pfn
    BY <1>14 DEF Placed
  <2>4. QED BY <2>2, <2>3
\* the lists
<1>16. /\ order' = [order EXCEPT ![t] = o, ![u] = o]
       /\ free_pages' = [free_pages EXCEPT ![o + 1] = @ \ {t}, ![o] = @ \cup {t, u}]
       /\ free_count' = [free_count EXCEPT ![o + 1] = @ - 1, ![o] = @ + 2]
  BY <1>4, <1>11, Zenon
<1>17. /\ free_pages'[o + 1] = free_pages[o + 1] \ {t} /\ free_pages'[o] = free_pages[o] \cup {t, u}
       /\ \A x \in Order \ {o, o + 1} : free_pages'[x] = free_pages[x]
       /\ free_pages' \in [Order -> SUBSET Pfn]
  <2>1. free_pages \in [Order -> SUBSET Pfn] /\ o # o + 1
    BY <1>1, <1>3 DEF TypeOK
  <2>2. QED BY <1>3, <1>8, <1>15, <1>16, <2>1
<1>18. FreeBlocks' = (FreeBlocks \ {<<t, o + 1>>}) \cup {<<t, o>>, <<u, o>>}
  <2>1. \A q, x : <<q, x>> \in FreeBlocks' <=> x \in Order /\ q \in Pfn /\ q \in free_pages'[x]
    BY DEF FreeBlocks, Blocks
  <2>2. \A q, x : <<q, x>> \in FreeBlocks <=> x \in Order /\ q \in Pfn /\ q \in free_pages[x]
    BY DEF FreeBlocks, Blocks
  <2>3. \A q, x : <<q, x>> \in FreeBlocks' <=>
                  <<q, x>> \in (FreeBlocks \ {<<t, o + 1>>}) \cup {<<t, o>>, <<u, o>>}
    BY <1>3, <1>8, <1>15, <1>17, <2>1, <2>2, Zenon
  <2>4. FreeBlocks' \subseteq Blocks /\ FreeBlocks \subseteq Blocks /\ <<t, o>> \in Blocks /\ <<u, o>> \in Blocks
    BY <1>3, <1>8, <1>15, Zenon DEF FreeBlocks, Blocks
  <2>5. \A b \in Blocks : b = <<b[1], b[2]>>
    BY HeadIn
  <2>6. QED BY <2>3, <2>4, <2>5
<1>19. InFlight = {} /\ InFlight' = {}
  BY <1>7 DEF InFlight
<1>20. /\ AllBlocks = FreeBlocks \cup live
       /\ AllBlocks' = (AllBlocks \ {<<t, o + 1>>}) \cup {<<t, o>>, <<u, o>>}
  BY <1>1, <1>5, <1>9, <1>18, <1>19 DEF AllBlocks, NoOverlap
<1>21. /\ Placed(AllBlocks') /\ Disjoint(AllBlocks') /\ FramesOf(AllBlocks') = FramesOf(AllBlocks)
       /\ {<<t, o>>, <<u, o>>} \cap (AllBlocks \ {<<t, o + 1>>}) = {}
  <2>1. {<<t, o>>, <<u, o>>} \in SUBSET Blocks /\ AllBlocks \in SUBSET Blocks
    BY <1>1, <1>3, <1>8, <1>15, AllAreBlocks DEF Blocks
  <2>2. {<<t, o + 1>>} \in SUBSET AllBlocks
    BY <1>9, Zenon
  <2>3. Placed(AllBlocks) /\ Disjoint(AllBlocks)
    BY <1>1 DEF NoOverlap
  <2>4. PICK C, D : C = {<<t, o + 1>>} /\ D = {<<t, o>>, <<u, o>>}
    OBVIOUS
  <2>5. /\ C \in SUBSET AllBlocks /\ D \in SUBSET Blocks /\ Placed(D) /\ Disjoint(D)
        /\ FramesOf(D) = FramesOf(C) /\ AllBlocks' = (AllBlocks \ C) \cup D
    BY <1>13, <1>14, <1>20, <2>1, <2>2, <2>4, Zenon
  <2>6. /\ Placed((AllBlocks \ C) \cup D) /\ Disjoint((AllBlocks \ C) \cup D)
        /\ FramesOf((AllBlocks \ C) \cup D) = FramesOf(AllBlocks) /\ D \cap (AllBlocks \ C) = {}
    BY <2>1, <2>3, <2>5, Replace
  <2>7. QED BY <2>4, <2>5, <2>6, Zenon
<1>22. <<t, o>> \notin AllBlocks /\ <<u, o>> \notin AllBlocks
  BY <1>3, <1>21
<1>23. NoOverlap' /\ NoFrameLost'
  <2>1. FreeBlocks' \cap live' = {}
    BY <1>1, <1>5, <1>18, <1>20, <1>22, Zenon DEF NoOverlap
  <2>2. NoOverlap'
    BY <1>19, <1>21, <2>1 DEF NoOverlap
  <2>3. NoFrameLost'
    BY <1>1, <1>5, <1>21, Zenon DEF NoFrameLost
  <2>4. QED BY <2>2, <2>3, Zenon
<1>24. TypeOK'
  <2>1. order' \in [Pfn -> Order \cup {ORDER_USED}]
    BY <1>1, <1>3, <1>16, Zenon DEF TypeOK
  <2>2. free_count' \in [Order -> Nat]
    <3>1. free_count[o + 1] - 1 \in Nat
      <4>1. free_count[o + 1] # 0
        BY <1>3, Zenon DEF buddy_split_block
      <4>2. QED BY <1>1, <1>3, <4>1 DEF TypeOK
    <3>2. QED BY <1>1, <1>3, <1>16, <3>1 DEF TypeOK
  <2>3. lvl' \in [Ctx -> 0 .. ORDER_MAX + 1]
    <3>1. o \in 0 .. ORDER_MAX + 1
      BY <1>3, OrderFacts DEF Order
    <3>2. QED BY <1>1, <1>5, <3>1, Zenon DEF TypeOK
  <2>4. pc' \in [Ctx -> {"idle", "alloc", "split", "take", "dec", "free", "merge"}]
    BY <1>1, <1>5, Zenon DEF TypeOK
  <2>5. QED BY <1>1, <1>5, <1>17, <2>1, <2>2, <2>3, <2>4, Zenon DEF TypeOK
<1>25. LockInv' /\ LevelInv'
  <2>1. LockInv'
    BY <1>1, <1>2, <1>5, <1>6, Zenon DEF LockInv
  <2>2. pc'[c] = "split" => req[c] < o
    <3>1. req[c] \in Order
      BY <1>1, Zenon DEF TypeOK
    <3>2. QED BY <1>3, <1>6, <3>1, OrderFacts DEF Order
  <2>3. LevelInv'
    BY <1>1, <1>5, <1>6, <1>7, <2>2, Zenon DEF LevelInv
  <2>4. QED BY <2>1, <2>3
<1>26. HeadOrder'
  <2>1. \A b \in AllBlocks' : /\ b[1] = t => b = <<t, o>>
                              /\ b[1] = u => b = <<u, o>>
    <3>1. <<t, o>> \in AllBlocks' /\ <<u, o>> \in AllBlocks'
      BY <1>20, Zenon
    <3>2. AllBlocks' \in SUBSET Blocks
      BY <1>1, <1>3, <1>8, <1>15, <1>20, AllAreBlocks DEF Blocks
    <3>3. t \in Pages(t, o) /\ u \in Pages(u, o)
      <4>1. <<t, o>> \in Blocks /\ <<u, o>> \in Blocks
        BY <3>1, <3>2, Zenon
      <4>2. QED BY <4>1, HeadIn, Zenon
    <3>4. QED BY <1>21, <3>1, <3>2, <3>3, HeadsDiffer
  <2>2. order'[t] = o /\ order'[u] = o /\ \A q \in Pfn \ {t, u} : order'[q] = order[q]
    BY <1>1, <1>8, <1>13, <1>15, <1>16, Zenon DEF TypeOK
  <2>3. \A x \in Order : \A q \in free_pages'[x] : order'[q] = x
    <3>1. ASSUME NEW x \in Order, NEW q \in free_pages'[x]
          PROVE  order'[q] = x
      <4>1. q \in Pfn
        BY <1>17, <3>1, Zenon
      <4>2. <<q, x>> \in FreeBlocks' /\ <<q, x>> \in AllBlocks' /\ <<q, x>>[1] = q
        BY <3>1, <4>1, Zenon DEF FreeBlocks, Blocks, AllBlocks
      <4>3. CASE q \in {t, u}
        BY <2>1, <2>2, <4>2, <4>3
      <4>4. CASE q \notin {t, u}
        <5>1. q \in free_pages[x]
          BY <1>17, <3>1, <4>4, Zenon
        <5>2. QED BY <1>1, <2>2, <4>1, <4>4, <5>1, Zenon DEF HeadOrder
      <4>5. QED BY <4>3, <4>4, Zenon
    <3>2. QED BY <3>1
  <2>4. \A b \in live : order'[b[1]] = ORDER_USED
    <3>1. \A b \in live : b \in AllBlocks' /\ b # <<t, o>> /\ b # <<u, o>>
      BY <1>5, <1>20, <1>22, Zenon DEF AllBlocks
    <3>2. \A b \in live : b[1] \in Pfn /\ order[b[1]] = ORDER_USED
      BY <1>1, Zenon DEF HeadOrder, TypeOK, Blocks
    <3>3. QED BY <2>1, <2>2, <3>1, <3>2, Zenon
  <2>5. QED BY <1>5, <2>3, <2>4, Zenon DEF HeadOrder
<1>27. FreeCountsAgree'
  <2>1. t \notin free_pages[o] /\ u \notin free_pages[o]
    BY <1>1, <1>3, <1>20, <1>22, FreeBlocksAre, Zenon
  <2>2. Cardinality(free_pages[o] \cup {t, u}) = Cardinality(free_pages[o]) + 2
    <3>1. IsFiniteSet(free_pages[o] \cup {t}) /\ Cardinality(free_pages[o] \cup {t}) = Cardinality(free_pages[o]) + 1
      BY <1>1, <1>3, <2>1, FreeListsFinite, FS_AddElement, Zenon
    <3>2. u \notin free_pages[o] \cup {t}
      BY <1>13, <2>1, Zenon
    <3>3. Cardinality((free_pages[o] \cup {t}) \cup {u}) = Cardinality(free_pages[o] \cup {t}) + 1
      BY <3>1, <3>2, FS_AddElement, Zenon
    <3>4. (free_pages[o] \cup {t}) \cup {u} = free_pages[o] \cup {t, u}
      OBVIOUS
    <3>5. Cardinality(free_pages[o]) \in Nat
      BY <1>1, <1>3, FreeListsFinite, Zenon
    <3>6. Cardinality(free_pages[o] \cup {t, u}) = Cardinality(free_pages[o] \cup {t}) + 1
      BY <3>3, <3>4, Zenon
    <3>7. QED BY <3>1, <3>5, <3>6
  <2>3. Cardinality(free_pages[o + 1] \ {t}) = Cardinality(free_pages[o + 1]) - 1
    BY <1>1, <1>3, <1>4, FreeListsFinite, FS_RemoveElement, Zenon
  <2>4. /\ free_count'[o] = free_count[o] + 2 /\ free_count'[o + 1] = free_count[o + 1] - 1
        /\ \A x \in Order \ {o, o + 1} : free_count'[x] = free_count[x]
    <3>1. free_count \in [Order -> Nat] /\ o # o + 1
      BY <1>1, <1>3 DEF TypeOK
    <3>2. QED BY <1>3, <1>16, <3>1, Zenon
  <2>5. \A x \in Order : free_count[x] = Cardinality(free_pages[x])
    BY <1>1, Zenon DEF FreeCountsAgree
  <2>6. \A x \in Order : free_count'[x] = Cardinality(free_pages'[x])
    BY <1>3, <1>17, <2>2, <2>3, <2>4, <2>5, Zenon
  <2>7. QED BY <2>6 DEF FreeCountsAgree
<1>28. UseCountsAgree' /\ CallerInv' /\ BootInv'
  <2>1. pc[c] \notin {"dec", "free", "merge"} /\ pc'[c] \notin {"dec", "free", "merge"}
    BY <1>2, <1>6, Zenon
  <2>2. \A d \in Ctx \ {c} : pc'[d] = pc[d] /\ page'[d] = page[d] /\ req'[d] = req[d]
    BY <1>5, <1>6, Zenon
  <2>3. QED BY <1>1, <1>5, <2>1, <2>2, SameUsers, Zenon
<1>29. {<<t, o>>, <<u, o>>} \in SUBSET Blocks
  BY <1>3, <1>8, <1>15 DEF Blocks
<1>30. QED BY <1>5, <1>9, <1>13, <1>18, <1>19, <1>23, <1>24, <1>25, <1>26, <1>27, <1>28,
              <1>29, Zenon DEF IInv

\* The heart of the matter: a buddy whose page struct reads `free, of this order'
\* is on the free list of that order.  If it were inside another block, that
\* block would contain the merging block too; if it headed one, its order field
\* would be accurate.  Confined keeps the look-up inside the page area.
LEMMA BuddyIsFree ==
  ASSUME Confined, TypeOK, LockInv, LevelInv, NoOverlap, NoFrameLost, HeadOrder,
         NEW c \in Ctx, pc[c] = "merge",
         NEW o \in 0 .. 5, o = lvl[c], NEW p \in Pfn, p = blk[c],
         NEW g \in Stray, Mergeable(p, o, g)
  PROVE  /\ <<buddy_get(p, o), o>> \in FreeBlocks
         /\ Aligned(p, o) /\ o + 1 <= ORDER_MAX /\ o \in Order /\ o + 1 \in Order
<1>1. o + 1 <= ORDER_MAX /\ o \in Order /\ o + 1 \in Order /\ o \in 0 .. 6 /\ o < ORDER_MAX
  BY OrderFacts DEF Mergeable, Order
<1>2. InFlight = {<<p, o>>}
  BY FlightOf
<1>3. <<p, o>> \in AllBlocks /\ <<p, o>> \in Blocks /\ p \in Nat /\ p < PageCount
  BY <1>1, <1>2, OrderFacts DEF AllBlocks, Blocks, Pfn
<1>4. Aligned(p, o)
  BY <1>3 DEF NoOverlap, Placed
<1>5. PICK q : q = buddy_get(p, o)
  OBVIOUS
<1>6. q \in Nat /\ p # q /\ Pages(p, o) \cap Pages(q, o) = {}
  <2>1. q \in Nat /\ Pages(p, o) \cap Pages(q, o) = {}
    BY <1>3, <1>4, <1>5, BuddyArith, PairFrames, Zenon
  <2>2. p \in Pages(p, o)
    BY <1>1, <1>3, PagesOf, Zenon
  <2>3. QED BY <2>1, <2>2
<1>7. q \in Pfn
  <2>1. CASE PageCount % Size(ORDER_MAX) = 0
    <3>1. q < PageCount
      BY <1>1, <1>3, <1>4, <1>5, <2>1, OrderFacts, BuddyExists, Zenon
    <3>2. QED BY <1>6, <3>1, OrderFacts DEF Pfn
  <2>2. CASE \A h \in Stray : h \notin Order
    BY <1>1, <1>5, <2>2, Zenon DEF Mergeable
  <2>3. QED BY <2>1, <2>2 DEF Confined
<1>8. order[q] = o /\ ~invalid[q]
  BY <1>5, <1>7 DEF Mergeable
<1>9. PICK b \in AllBlocks : q \in Pages(b[1], b[2])
  <2>1. q \in FramesOf(AllBlocks)
    BY <1>7, <1>8 DEF NoFrameLost
  <2>2. QED BY <2>1 DEF FramesOf
<1>10. AllBlocks \subseteq Blocks /\ Disjoint(AllBlocks) /\ Placed(AllBlocks)
  BY AllAreBlocks DEF NoOverlap
<1>11. b \in Blocks /\ b[1] \in Nat /\ b[2] \in 0 .. 6 /\ b = <<b[1], b[2]>> /\ Aligned(b[1], b[2])
  BY <1>9, <1>10, HeadIn DEF Placed
<1>12. b[1] = q
  <2>1. SUFFICES ASSUME b[1] # q PROVE FALSE
    OBVIOUS
  <2>2. p \in Pages(b[1], b[2])
    BY <1>3, <1>4, <1>5, <1>9, <1>11, <2>1, BuddyInside, Zenon
  <2>3. <<p, o>>[1] = p /\ <<p, o>>[2] = o
    OBVIOUS
  <2>4. <<p, o>> = b
    BY <1>3, <1>9, <1>10, <2>2, <2>3, HeadsDiffer
  <2>5. q \in Pages(q, o)
    BY <1>1, <1>6, PagesOf, Zenon
  <2>6. QED BY <1>6, <1>9, <2>3, <2>4, <2>5
<1>13. b \in FreeBlocks
  <2>1. b \notin InFlight
    BY <1>2, <1>6, <1>12
  <2>2. b \notin live
    <3>1. o # ORDER_USED
      BY DEF ORDER_USED
    <3>2. QED BY <1>8, <1>12, <3>1 DEF HeadOrder
  <2>3. QED BY <1>9, <2>1, <2>2 DEF AllBlocks
<1>14. b[2] = o
  BY <1>8, <1>12, <1>13, FreeBlocksAre DEF HeadOrder
<1>15. QED BY <1>1, <1>4, <1>5, <1>11, <1>12, <1>13, <1>14

LEMMA Inv_buddy_merge_step ==
  ASSUME Confined, IInv, NEW c \in Ctx, buddy_merge_step(c)
  PROVE  IInv' /\ \E a, b, d \in Blocks :
           /\ FreeBlocks' = FreeBlocks \ {b} /\ b \in FreeBlocks /\ live' = live
           /\ InFlight = {a} /\ InFlight' = {d} /\ FramesOf({d}) = FramesOf({a, b})
<1>1. /\ TypeOK /\ LockInv /\ LevelInv /\ NoOverlap /\ NoFrameLost /\ HeadOrder
      /\ FreeCountsAgree /\ UseCountsAgree /\ CallerInv /\ BootInv
  BY DEF IInv
<1>2. PICK g \in Stray : Mergeable(blk[c], lvl[c], g)
  BY DEF buddy_merge_step
<1>3. PICK o \in 0 .. 5, p \in Pfn : o = lvl[c] /\ p = blk[c]
  <2>1. lvl[c] \in 0 .. ORDER_MAX + 1 /\ blk[c] \in Pfn
    BY <1>1 DEF TypeOK
  <2>2. lvl[c] < ORDER_MAX
    BY <1>2 DEF Mergeable
  <2>3. lvl[c] \in 0 .. 5
    BY <2>1, <2>2, OrderFacts
  <2>4. QED BY <2>1, <2>3
<1>4. PICK q, l : q = buddy_get(p, o) /\ l = LowOfPair(p, o)
  OBVIOUS
<1>5. /\ pc[c] = "merge"
      /\ free_pages' = [free_pages EXCEPT ![o] = free_pages[o] \ {q}]
      /\ free_count' = [free_count EXCEPT ![o] = free_count[o] - 1]
      /\ order' = [x \in Pfn |-> IF x = buddy_get(l, o) THEN o ELSE order[x]]
      /\ blk' = [blk EXCEPT ![c] = l] /\ lvl' = [lvl EXCEPT ![c] = o + 1]
      /\ UNCHANGED <<invalid, use_count, lock, pc, req, page, boot, live, refs, size>>
  BY <1>3, <1>4, Zenon DEF buddy_merge_step, callerVars
<1>6. /\ <<q, o>> \in FreeBlocks /\ Aligned(p, o) /\ o + 1 <= ORDER_MAX /\ o \in Order
      /\ o + 1 \in Order
  <2>1. Mergeable(p, o, g)
    BY <1>2, <1>3
  <2>2. QED BY <1>1, <1>3, <1>4, <1>5, <2>1, BuddyIsFree, Zenon
<1>7. q \in free_pages[o] /\ q \in Pfn
  BY <1>1, <1>6, FreeBlocksAre, Zenon DEF TypeOK
<1>8. InFlight = {<<p, o>>} /\ InFlight' = {<<l, o + 1>>}
  <2>1. InFlight = {<<p, o>>}
    BY <1>1, <1>3, <1>5, FlightOf, Zenon
  <2>2. blk'[c] = l /\ lvl'[c] = o + 1
    BY <1>1, <1>5, Zenon DEF TypeOK
  <2>3. {d \in Ctx : pc'[d] = "merge"} = {c}
    BY <1>1, <1>5, Zenon DEF LockInv
  <2>4. QED BY <2>1, <2>2, <2>3 DEF InFlight
<1>9. p \in Nat /\ q \in Nat /\ l \in Nat /\ buddy_get(l, o) = l + Size(o) /\ (l = p \/ l = q)
  <2>1. p \in Nat
    BY OrderFacts DEF Pfn
  <2>2. QED BY <1>4, <1>6, <2>1, BuddyArith, Zenon
<1>10. l \in Pfn
  BY <1>7, <1>9
<1>11. /\ FramesOf({<<l, o + 1>>}) = FramesOf({<<p, o>>, <<q, o>>})
       /\ Disjoint({<<l, o + 1>>})
       /\ Placed({<<l, o + 1>>}) <=> Placed({<<p, o>>, <<q, o>>})
  <2>1. p \in Nat /\ o \in 0 .. 5 /\ Aligned(p, o) /\ o + 1 <= ORDER_MAX
    BY <1>6, <1>9
  <2>2. l = LowOfPair(p, o) /\ q = buddy_get(p, o)
    BY <1>4
  <2>3. QED BY <2>1, <2>2, Halves
<1>12. <<p, o>> \in AllBlocks /\ <<q, o>> \in AllBlocks /\ AllBlocks \in SUBSET Blocks
  BY <1>1, <1>6, <1>8, AllAreBlocks DEF AllBlocks
<1>13. Placed(AllBlocks) /\ Disjoint(AllBlocks) /\ Placed({<<l, o + 1>>})
  <2>1. Placed(AllBlocks) /\ Disjoint(AllBlocks)
    BY <1>1 DEF NoOverlap
  <2>2. Placed({<<p, o>>, <<q, o>>})
    BY <1>12, <2>1 DEF Placed
  <2>3. QED BY <1>11, <2>1, <2>2
<1>14. FreeBlocks' = FreeBlocks \ {<<q, o>>}
  BY <1>1, <1>5, <1>6, <1>7 DEF FreeBlocks, Blocks, TypeOK
<1>15. AllBlocks' = (AllBlocks \ {<<p, o>>, <<q, o>>}) \cup {<<l, o + 1>>}
  <2>1. <<p, o>> \notin FreeBlocks \cup live /\ <<q, o>> \notin live
    BY <1>1, <1>6, <1>8 DEF NoOverlap
  <2>2. QED BY <1>5, <1>8, <1>14, <2>1, Zenon DEF AllBlocks
<1>16. /\ Placed(AllBlocks') /\ Disjoint(AllBlocks') /\ FramesOf(AllBlocks') = FramesOf(AllBlocks)
       /\ {<<l, o + 1>>} \cap (AllBlocks \ {<<p, o>>, <<q, o>>}) = {}
  <2>1. PICK C, D : C = {<<p, o>>, <<q, o>>} /\ D = {<<l, o + 1>>}
    OBVIOUS
  <2>2. D \in SUBSET Blocks
    BY <1>6, <1>10, <2>1 DEF Blocks
  <2>3. /\ C \in SUBSET AllBlocks /\ Placed(D) /\ Disjoint(D)
        /\ FramesOf(D) = FramesOf(C) /\ AllBlocks' = (AllBlocks \ C) \cup D
    BY <1>11, <1>12, <1>13, <1>15, <2>1
  <2>4. /\ Placed((AllBlocks \ C) \cup D) /\ Disjoint((AllBlocks \ C) \cup D)
        /\ FramesOf((AllBlocks \ C) \cup D) = FramesOf(AllBlocks) /\ D \cap (AllBlocks \ C) = {}
    <3>1. AllBlocks \in SUBSET Blocks /\ Placed(AllBlocks) /\ Disjoint(AllBlocks)
      BY <1>12, <1>13
    <3>2. QED BY <2>2, <2>3, <3>1, Replace
  <2>5. QED BY <2>1, <2>3, <2>4
<1>17. <<l, o + 1>> \notin FreeBlocks' \cup live'
  <2>1. o + 1 # o
    BY <1>6
  <2>2. FreeBlocks' \cup live' \subseteq AllBlocks \ {<<p, o>>, <<q, o>>}
    BY <1>1, <1>5, <1>6, <1>8, <1>14, Zenon DEF NoOverlap, AllBlocks
  <2>3. QED BY <1>16, <2>2, Zenon
<1>18. NoOverlap' /\ NoFrameLost'
  <2>1. FreeBlocks' \cap live' = {}
    BY <1>1, <1>5, <1>14, Zenon DEF NoOverlap
  <2>2. NoOverlap'
    BY <1>8, <1>16, <1>17, <2>1 DEF NoOverlap
  <2>3. NoFrameLost'
    BY <1>1, <1>5, <1>16, Zenon DEF NoFrameLost
  <2>4. QED BY <2>2, <2>3
<1>19. HeadOrder'
  <2>1. PICK h : h = buddy_get(l, o)
    OBVIOUS
  <2>2. \A b \in AllBlocks' : b # <<l, o + 1>> => b[1] # h
    <3>1. h \in Pages(l, o + 1)
      <4>1. Size(o) \in Nat \ {0} /\ Size(o + 1) = 2 * Size(o)
        BY SizeFacts
      <4>2. QED BY <1>9, <2>1, <4>1 DEF Pages
    <3>2. AllBlocks' \in SUBSET Blocks /\ <<l, o + 1>> \in AllBlocks'
      BY <1>6, <1>10, <1>12, <1>15 DEF Blocks
    <3>3. <<l, o + 1>>[1] = l /\ <<l, o + 1>>[2] = o + 1
      OBVIOUS
    <3>4. QED BY <1>16, <3>1, <3>2, <3>3, HeadsDiffer
  <2>3. \A x \in Pfn : x # h => order'[x] = order[x]
    BY <1>5, <2>1, Zenon
  <2>4. \A x \in Order : \A y \in free_pages'[x] : y \in free_pages[x] /\ y \in Pfn /\ y # h
    <3>1. \A x \in Order : \A y \in free_pages'[x] : y \in free_pages[x] /\ y \in Pfn
      BY <1>1, <1>5, Zenon DEF TypeOK
    <3>2. \A x \in Order : \A y \in free_pages'[x] :
            <<y, x>> \in FreeBlocks' /\ <<y, x>> \in AllBlocks' /\ <<y, x>>[1] = y
      BY <3>1, Zenon DEF FreeBlocks, Blocks, AllBlocks
    <3>3. QED BY <1>17, <2>2, <3>1, <3>2, Zenon
  <2>5. \A b \in live' : b[1] \in Pfn /\ order[b[1]] = ORDER_USED /\ b[1] # h
    <3>1. \A b \in live' : b[1] \in Pfn /\ order[b[1]] = ORDER_USED
      BY <1>1, <1>5, Zenon DEF HeadOrder, TypeOK, Blocks
    <3>2. \A b \in live' : b \in AllBlocks' /\ b # <<l, o + 1>>
      BY <1>17, Zenon DEF AllBlocks
    <3>3. QED BY <2>2, <3>1, <3>2
  <2>6. \A x \in Order : \A y \in free_pages'[x] : order'[y] = x
    BY <1>1, <2>3, <2>4, Zenon DEF HeadOrder
  <2>7. \A b \in live' : order'[b[1]] = ORDER_USED
    BY <2>3, <2>5, Zenon
  <2>8. QED BY <2>6, <2>7 DEF HeadOrder
<1>20. free_count[o] - 1 = Cardinality(free_pages[o] \ {q}) /\ free_count[o] - 1 \in Nat
  <2>1. Cardinality(free_pages[o] \ {q}) = Cardinality(free_pages[o]) - 1
    BY <1>1, <1>6, <1>7, FreeListsFinite, FS_RemoveElement, Zenon
  <2>2. Cardinality(free_pages[o] \ {q}) \in Nat
    BY <1>1, <1>6, FreeListsFinite, FS_RemoveElement, FS_CardinalityType, Zenon
  <2>3. QED BY <1>1, <1>6, <2>1, <2>2, Zenon DEF FreeCountsAgree
<1>21. FreeCountsAgree'
  <2>1. \A x \in Order : free_count'[x] = Cardinality(free_pages'[x])
    BY <1>1, <1>5, <1>20, Zenon DEF FreeCountsAgree, TypeOK
  <2>2. QED BY <2>1, Zenon DEF FreeCountsAgree
<1>22. TypeOK'
  <2>1. order' \in [Pfn -> Order \cup {ORDER_USED}]
    BY <1>1, <1>5, <1>6, Zenon DEF TypeOK
  <2>2. free_pages' \in [Order -> SUBSET Pfn] /\ free_count' \in [Order -> Nat]
    BY <1>1, <1>5, <1>20, Zenon DEF TypeOK
  <2>3. blk' \in [Ctx -> Pfn] /\ lvl' \in [Ctx -> 0 .. ORDER_MAX + 1]
    <3>1. o + 1 \in 0 .. ORDER_MAX + 1
      BY <1>6, OrderFacts DEF Order
    <3>2. QED BY <1>1, <1>5, <1>10, <3>1, Zenon DEF TypeOK
  <2>4. QED BY <1>1, <1>5, <2>1, <2>2, <2>3, Zenon DEF TypeOK
<1>23. LockInv' /\ LevelInv'
  <2>1. LockInv'
    BY <1>1, <1>5, Zenon DEF LockInv
  <2>2. lvl'[c] = o + 1 /\ \A d \in Ctx \ {c} : lvl'[d] = lvl[d]
    BY <1>1, <1>5, Zenon DEF TypeOK
  <2>3. LevelInv'
    BY <1>1, <1>5, <1>6, <2>2, Zenon DEF LevelInv
  <2>4. QED BY <2>1, <2>3
<1>24. UseCountsAgree' /\ CallerInv' /\ BootInv'
  <2>1. \A x : Pending(x)' = Pending(x)
    BY <1>5, Zenon DEF Pending
  <2>2. UseCountsAgree' /\ BootInv'
    BY <1>1, <1>5, <2>1, Zenon DEF UseCountsAgree, BootInv
  <2>3. CallerInv'
    BY <1>1, <1>5, <2>1, Zenon DEF CallerInv
  <2>4. QED BY <2>2, <2>3
<1>25. <<p, o>> \in Blocks /\ <<q, o>> \in Blocks /\ <<l, o + 1>> \in Blocks
  BY <1>6, <1>7, <1>10, Zenon DEF Blocks
<1>26. QED BY <1>5, <1>6, <1>8, <1>11, <1>14, <1>18, <1>19, <1>21, <1>22, <1>23, <1>24,
              <1>25, Zenon DEF IInv

-----------------------------------------------------------------------------
(* All steps *)

LEMMA InitInv ==
  ASSUME Init
  PROVE  IInv
<1>1. TypeOK
  BY PageAllocConstants, OrderFacts DEF Init, TypeOK, ORDER_USED
<1>2. FreeBlocks = {} /\ InFlight = {} /\ live = {}
  BY DEF Init, FreeBlocks, InFlight, Blocks
<1>3. AllBlocks = {}
  BY <1>2 DEF AllBlocks
<1>4. NoOverlap /\ NoFrameLost
  BY <1>2, <1>3 DEF Init, NoOverlap, NoFrameLost, Placed, Disjoint, FramesOf
<1>5. LockInv /\ LevelInv /\ HeadOrder /\ BootInv
  BY PageAllocConstants DEF Init, LockInv, LevelInv, HeadOrder, BootInv, TypeOK
<1>6. FreeCountsAgree
  BY FS_EmptySet DEF Init, FreeCountsAgree
<1>7. \A p \in Pfn : Pending(p) = {}
  BY DEF Init, Pending
<1>8. UseCountsAgree
  BY <1>7, FS_EmptySet DEF Init, UseCountsAgree
<1>9. CallerInv
  BY DEF Init, CallerInv
<1>10. QED BY <1>1, <1>4, <1>5, <1>6, <1>8, <1>9 DEF IInv

LEMMA StutterInv ==
  ASSUME IInv, UNCHANGED vars
  PROVE  IInv' /\ Still
<1>1. /\ TypeOK /\ LockInv /\ LevelInv /\ NoOverlap /\ NoFrameLost /\ HeadOrder
      /\ FreeCountsAgree /\ UseCountsAgree /\ CallerInv /\ BootInv
  BY DEF IInv
<1>2. TypeOK' /\ LockInv' /\ LevelInv' /\ BootInv'
  BY <1>1, Zenon DEF vars, TypeOK, LockInv, LevelInv, BootInv
<1>3. InFlight' = InFlight
  BY DEF vars, InFlight
<1>4. NoOverlap' /\ NoFrameLost' /\ HeadOrder' /\ FreeCountsAgree' /\ Still
  BY <1>1, <1>3, SameBlocks DEF vars
<1>5. \A p : Pending(p)' = Pending(p)
  BY DEF vars, Pending
<1>6. UseCountsAgree' /\ CallerInv'
  BY <1>1, <1>5, Zenon DEF vars, UseCountsAgree, CallerInv
<1>7. QED BY <1>2, <1>4, <1>6 DEF IInv

LEMMA NextInv ==
  ASSUME Confined, IInv, Next
  PROVE  IInv'
<1>1. ASSUME NEW c \in Ctx, Step(c) PROVE IInv'
  BY <1>1, Inv_page_alloc_lock, Inv_buddy_split_recurse, Inv_buddy_split_fail,
     Inv_buddy_split_block, Inv_page_alloc_take, Inv_page_free_shared, Inv_page_free_lock,
     Inv_buddy_merge_step, Inv_buddy_merge_done, Zenon DEF Step
<1>2. ASSUME NEW c \in Ctx, Call(c) PROVE IInv'
  BY <1>2, Inv_page_alloc_enter, Inv_page_free_enter, Inv_page_initial_free DEF Call
<1>3. ASSUME NEW p \in Pfn, share_page(p) PROVE IInv'
  BY <1>3, Inv_share_page
<1>4. QED BY <1>1, <1>2, <1>3 DEF Next

\* The inductive invariant holds of every behaviour of the allocator, provided
\* that buddies are not looked up beyond the page area (buddy_get() in palloc.c).
THEOREM Invariance == Confined => (Spec => []IInv)
<1> SUFFICES ASSUME Confined PROVE Spec => []IInv
  OBVIOUS
<1>1. Init => IInv
  BY InitInv
<1>2. IInv /\ [Next]_vars => IInv'
  BY NextInv, StutterInv
<1>3. QED BY <1>1, <1>2, PTL DEF Spec

\* Every variable keeps its type: in particular PAGE_DEC_USES() and the two
\* `free_count--' of palloc.c never take a counter below zero, and no page number
\* computed by buddy_get() or by the mask of buddy_merge_block() leaves memory.
THEOREM TypeCorrect == Confined => (Spec => []TypeOK)
<1>1. IInv => TypeOK
  BY DEF IInv
<1>2. QED BY <1>1, Invariance, PTL

\* No page frame is ever in two blocks, whoever calls page_alloc(), page_free()
\* and however their steps interleave.
THEOREM Exclusion == Confined => (Spec => []NoOverlap)
<1>1. IInv => NoOverlap
  BY DEF IInv
<1>2. QED BY <1>1, Invariance, PTL

\* page_alloc() and page_free() neither lose a frame nor use a PF_INVALID one.
THEOREM Conservation == Confined => (Spec => []NoFrameLost)
<1>1. IInv => NoFrameLost
  BY DEF IInv
<1>2. QED BY <1>1, Invariance, PTL

\* free_count is the length of its list, so that page_get_last() is never called
\* on an empty list.
THEOREM CountsExact == Confined => (Spec => []FreeCountsAgree)
<1>1. IInv => FreeCountsAgree
  BY DEF IInv
<1>2. QED BY <1>1, Invariance, PTL

\* use_count is the number of users of a page, also while page_free() calls race.
THEOREM UsersExact == Confined => (Spec => []UseCountsAgree)
<1>1. IInv => UseCountsAgree
  BY DEF IInv
<1>2. QED BY <1>1, Invariance, PTL

-----------------------------------------------------------------------------
(* The buddy allocator implements PageOwnership: page_alloc() is Grant,      *)
(* page_free() of the last user is Return at the moment it takes the lock,   *)
(* page_initial_free() is Release, every other step changes nothing that a   *)
(* caller can see.                                                           *)

\* Only frames that bootmem released lose PF_INVALID
OnlyUsable == \A p \in Pfn : ~invalid[p] => p \in Usable

RInv == IInv /\ OnlyUsable

-----------------------------------------------------------------------------
(* Frames of sets of blocks *)

LEMMA FramesIn ==
  ASSUME NEW B, NEW x
  PROVE  x \in FramesOf(B) <=> \E b \in B : x \in Pages(b[1], b[2])
BY DEF FramesOf

LEMMA FramesUnion ==
  ASSUME NEW A, NEW B
  PROVE  FramesOf(A \cup B) = FramesOf(A) \cup FramesOf(B)
BY FramesIn

LEMMA FramesReplace ==
  ASSUME NEW B, NEW C \in SUBSET B, NEW D, FramesOf(D) = FramesOf(C)
  PROVE  FramesOf((B \ C) \cup D) = FramesOf(B)
<1>1. \A x : x \in FramesOf(D) <=> x \in FramesOf(C)
  OBVIOUS
<1>2. \A x : x \in FramesOf((B \ C) \cup D) <=> x \in FramesOf(B)
  BY <1>1, FramesIn
<1>3. QED BY <1>2, Zenon

\* In a set of disjoint blocks, taking one away takes exactly its frames away
LEMMA FramesRemove ==
  ASSUME NEW B \in SUBSET Blocks, Disjoint(B), NEW b \in B
  PROVE  FramesOf(B \ {b}) = FramesOf(B) \ Pages(b[1], b[2])
<1>1. \A a \in B : a # b => Pages(a[1], a[2]) \cap Pages(b[1], b[2]) = {}
  BY DEF Disjoint
<1>2. \A x : x \in FramesOf(B \ {b}) <=> x \in FramesOf(B) /\ x \notin Pages(b[1], b[2])
  BY <1>1, FramesIn
<1>3. QED BY <1>2

LEMMA FramesSingle ==
  ASSUME NEW b
  PROVE  FramesOf({b}) = Pages(b[1], b[2])
BY DEF FramesOf

-----------------------------------------------------------------------------
(* The invariant *)

LEMMA OnlyUsableStep ==
  ASSUME Confined, RInv, [Next]_vars
  PROVE  RInv'
<1>1. IInv'
  BY NextInv, StutterInv DEF RInv
<1>2. OnlyUsable'
  <2>1. CASE UNCHANGED invalid
    BY <2>1 DEF RInv, OnlyUsable
  <2>2. CASE \E c \in Ctx, p \in Pfn : page_initial_free(c, p)
    <3>1. PICK c \in Ctx, p \in Pfn : page_initial_free(c, p)
      BY <2>2
    <3>2. p \in Usable /\ invalid' = [invalid EXCEPT ![p] = FALSE]
      BY <3>1, Inv_page_initial_free DEF RInv
    <3>3. \A q \in Pfn : q # p => invalid'[q] = invalid[q]
      BY <3>2 DEF RInv, IInv, TypeOK
    <3>4. QED BY <3>2, <3>3 DEF RInv, OnlyUsable
  <2>3. UNCHANGED invalid \/ \E c \in Ctx, p \in Pfn : page_initial_free(c, p)
    <3>1. ASSUME NEW c \in Ctx, Step(c) PROVE UNCHANGED invalid
      BY <3>1, Zenon DEF Step, page_alloc_lock, buddy_split_recurse, buddy_split_fail,
         buddy_split_block, page_alloc_take, page_free_shared, page_free_lock,
         buddy_merge_step, buddy_merge_done, pageVars
    <3>2. ASSUME NEW c \in Ctx, Call(c)
          PROVE  UNCHANGED invalid \/ \E p \in Pfn : page_initial_free(c, p)
      BY <3>2, Zenon DEF Call, page_alloc_enter, page_free_enter, pageVars
    <3>3. ASSUME NEW p \in Pfn, share_page(p) PROVE UNCHANGED invalid
      BY <3>3 DEF share_page
    <3>4. QED BY <3>1, <3>2, <3>3 DEF Next, vars
  <2>4. QED BY <2>1, <2>2, <2>3
<1>3. QED BY <1>1, <1>2 DEF RInv

LEMMA RInvariance == Confined => (Spec => []RInv)
<1> SUFFICES ASSUME Confined PROVE Spec => []RInv
  OBVIOUS
<1>1. Init => RInv
  BY InitInv DEF RInv, OnlyUsable, Init
<1>2. RInv /\ [Next]_vars => RInv'
  BY OnlyUsableStep
<1>3. QED BY <1>1, <1>2, PTL DEF Spec

-----------------------------------------------------------------------------
(* Step simulation *)

Pool == FramesOf(FreeBlocks \cup InFlight)

Held == {Pages(b[1], b[2]) : b \in live}

Run == {Pages(b[1], b[2]) : b \in {x \in Blocks :
          Aligned(x[1], x[2]) /\ Pages(x[1], x[2]) \subseteq Usable}}

LEMMA BlocksAreRuns ==
  ASSUME RInv, NEW b \in AllBlocks
  PROVE  b \in Blocks /\ Pages(b[1], b[2]) \in Run
<1>1. b \in Blocks /\ Aligned(b[1], b[2])
  BY AllAreBlocks DEF RInv, IInv, NoOverlap, Placed
<1>2. \A x \in Pages(b[1], b[2]) : x \in FramesOf(AllBlocks)
  BY FramesIn
<1>3. Pages(b[1], b[2]) \subseteq Usable
  BY <1>2 DEF RInv, IInv, NoFrameLost, OnlyUsable
<1>4. QED BY <1>1, <1>3 DEF Run

LEMMA StillSim ==
  ASSUME Still
  PROVE  Pool' = Pool /\ Held' = Held
BY DEF Still, Pool, Held, FramesOf

LEMMA TakeSim ==
  ASSUME RInv, NEW c \in Ctx, page_alloc_take(c)
  PROVE  \E r \in Run : r \subseteq Pool /\ Pool' = Pool \ r /\ Held' = Held \cup {r}
<1>1. PICK b \in FreeBlocks :
        /\ FreeBlocks' = FreeBlocks \ {b} /\ live' = live \cup {b}
        /\ InFlight = {} /\ InFlight' = {}
  BY Inv_page_alloc_take DEF RInv
<1>2. b \in AllBlocks
  BY <1>1 DEF AllBlocks
<1>3. Pages(b[1], b[2]) \in Run
  BY <1>2, BlocksAreRuns
<1>4. Pool = FramesOf(FreeBlocks) /\ Pool' = FramesOf(FreeBlocks \ {b})
  BY <1>1 DEF Pool
<1>5. FreeBlocks \in SUBSET Blocks /\ Disjoint(FreeBlocks)
  <2>1. FreeBlocks \in SUBSET Blocks /\ Disjoint(AllBlocks)
    BY AllAreBlocks DEF RInv, IInv, NoOverlap
  <2>2. QED BY <2>1 DEF Disjoint, AllBlocks
<1>6. Pool' = Pool \ Pages(b[1], b[2])
  BY <1>1, <1>4, <1>5, FramesRemove
<1>7. Pages(b[1], b[2]) \subseteq Pool
  BY <1>1, <1>4, FramesIn
<1>8. Held' = Held \cup {Pages(b[1], b[2])}
  BY <1>1 DEF Held
<1>9. QED BY <1>3, <1>6, <1>7, <1>8

LEMMA FreeSim ==
  ASSUME RInv, NEW c \in Ctx, page_free_lock(c)
  PROVE  \E r \in Run : r \in Held /\ Pool' = Pool \cup r /\ Held' = Held \ {r}
<1>1. PICK b \in live :
        /\ FreeBlocks' = FreeBlocks /\ live' = live \ {b}
        /\ InFlight = {} /\ InFlight' = {b}
  BY Inv_page_free_lock DEF RInv
<1>2. b \in AllBlocks
  BY <1>1 DEF AllBlocks
<1>3. Pages(b[1], b[2]) \in Run
  BY <1>2, BlocksAreRuns
<1>4. Pool = FramesOf(FreeBlocks) /\ Pool' = FramesOf(FreeBlocks \cup {b})
  BY <1>1 DEF Pool
<1>5. Pool' = Pool \cup Pages(b[1], b[2])
  <2>1. FramesOf(FreeBlocks \cup {b}) = FramesOf(FreeBlocks) \cup FramesOf({b})
    BY FramesUnion
  <2>2. FramesOf({b}) = Pages(b[1], b[2])
    BY FramesSingle
  <2>3. QED BY <1>4, <2>1, <2>2, Zenon
<1>6. \A a \in live : a # b => Pages(a[1], a[2]) # Pages(b[1], b[2])
  <2>1. Disjoint(AllBlocks) /\ live \subseteq Blocks /\ live \subseteq AllBlocks
    BY AllAreBlocks DEF RInv, IInv, NoOverlap, AllBlocks
  <2>2. \A a \in live : a[1] \in Pages(a[1], a[2])
    BY <2>1, HeadIn
  <2>3. \A a \in live : a # b => Pages(a[1], a[2]) \cap Pages(b[1], b[2]) = {}
    BY <1>2, <2>1, Zenon DEF Disjoint
  <2>4. QED BY <2>2, <2>3
<1>7. Held' = Held \ {Pages(b[1], b[2])}
  BY <1>1, <1>6 DEF Held
<1>8. Pages(b[1], b[2]) \in Held
  BY DEF Held
<1>9. QED BY <1>3, <1>5, <1>7, <1>8

LEMMA ReleaseSim ==
  ASSUME RInv, NEW c \in Ctx, NEW p \in Pfn, page_initial_free(c, p)
  PROVE  p \in Usable /\ p \notin Pool \cup UNION Held /\ Pool' = Pool \cup {p} /\ Held' = Held
<1>1. /\ FreeBlocks' = FreeBlocks /\ live' = live
      /\ InFlight = {} /\ InFlight' = {<<p, 0>>}
      /\ Pages(p, 0) = {p} /\ p \notin FramesOf(AllBlocks) /\ p \in Usable
  BY Inv_page_initial_free DEF RInv
<1>2. Pool = FramesOf(FreeBlocks) /\ Pool' = FramesOf(FreeBlocks \cup {<<p, 0>>})
  BY <1>1 DEF Pool
<1>3. FramesOf({<<p, 0>>}) = {p}
  BY <1>1 DEF FramesOf
<1>4. Pool' = Pool \cup {p}
  <2>1. FramesOf(FreeBlocks \cup {<<p, 0>>}) = FramesOf(FreeBlocks) \cup FramesOf({<<p, 0>>})
    BY FramesUnion
  <2>2. QED BY <1>2, <1>3, <2>1, Zenon
<1>5. \A b \in FreeBlocks \cup live : p \notin Pages(b[1], b[2])
  BY <1>1, FramesIn DEF AllBlocks
<1>6. p \notin Pool
  BY <1>2, <1>5, FramesIn
<1>7. p \notin UNION Held
  BY <1>5 DEF Held
<1>8. QED BY <1>1, <1>4, <1>6, <1>7 DEF Held

LEMMA InsideSim ==
  ASSUME Confined, RInv, NEW c \in Ctx,
         buddy_split_block(c) \/ buddy_merge_step(c) \/ buddy_merge_done(c)
  PROVE  Pool' = Pool /\ Held' = Held
<1>1. CASE buddy_split_block(c)
  <2>1. PICK b \in FreeBlocks, D \in SUBSET Blocks :
          /\ FreeBlocks' = (FreeBlocks \ {b}) \cup D /\ FramesOf(D) = FramesOf({b})
          /\ live' = live /\ InFlight = {} /\ InFlight' = {}
    BY <1>1, Inv_buddy_split_block, Zenon DEF RInv
  <2>2. Pool = FramesOf(FreeBlocks) /\ Pool' = FramesOf((FreeBlocks \ {b}) \cup D)
    BY <2>1 DEF Pool
  <2>3. {b} \in SUBSET FreeBlocks
    OBVIOUS
  <2>4. QED BY <2>1, <2>2, <2>3, FramesReplace DEF Held
<1>2. CASE buddy_merge_step(c)
  <2>1. PICK a, b, d \in Blocks :
          /\ FreeBlocks' = FreeBlocks \ {b} /\ b \in FreeBlocks /\ live' = live
          /\ InFlight = {a} /\ InFlight' = {d} /\ FramesOf({d}) = FramesOf({a, b})
    BY <1>2, Inv_buddy_merge_step, Zenon DEF RInv
  <2>2. a \notin FreeBlocks
    BY <2>1 DEF RInv, IInv, NoOverlap
  <2>3. PICK B, C, D : B = FreeBlocks \cup {a} /\ C = {a, b} /\ D = {d}
    OBVIOUS
  <2>4. (B \ C) \cup D = (FreeBlocks \ {b}) \cup {d} /\ C \in SUBSET B
    BY <2>1, <2>2, <2>3
  <2>5. Pool = FramesOf(B) /\ Pool' = FramesOf((B \ C) \cup D) /\ FramesOf(D) = FramesOf(C)
    BY <2>1, <2>3, <2>4, Zenon DEF Pool
  <2>6. Pool' = Pool
    BY <2>4, <2>5, FramesReplace
  <2>7. QED BY <2>1, <2>6 DEF Held
<1>3. CASE buddy_merge_done(c)
  <2>1. PICK b \in Blocks :
          /\ FreeBlocks' = FreeBlocks \cup {b} /\ live' = live
          /\ InFlight = {b} /\ InFlight' = {}
    BY <1>3, Inv_buddy_merge_done DEF RInv
  <2>2. FreeBlocks' \cup InFlight' = FreeBlocks \cup InFlight
    BY <2>1
  <2>3. QED BY <2>1, <2>2 DEF Pool, Held, FramesOf
<1>4. QED BY <1>1, <1>2, <1>3

LEMMA QuietSim ==
  ASSUME RInv, NEW c \in Ctx,
         \/ page_alloc_lock(c) \/ buddy_split_recurse(c) \/ buddy_split_fail(c)
         \/ page_free_shared(c)
         \/ \E o \in Order : page_alloc_enter(c, o)
         \/ \E p \in Pfn : page_free_enter(c, p)
  PROVE  Still
BY Inv_page_alloc_lock, Inv_buddy_split_recurse, Inv_buddy_split_fail, Inv_page_free_shared,
   Inv_page_alloc_enter, Inv_page_free_enter DEF RInv

LEMMA StepSim ==
  ASSUME Confined, RInv, [Next]_vars
  PROVE  [Ownership!Next]_<<Pool, Held>>
<1> DEFINE Moved ==
      \/ \E p \in Usable : p \notin Pool \cup UNION Held /\ Pool' = Pool \cup {p} /\ Held' = Held
      \/ \E r \in Run : r \subseteq Pool /\ Pool' = Pool \ r /\ Held' = Held \cup {r}
      \/ \E r \in Run : r \in Held /\ Pool' = Pool \cup r /\ Held' = Held \ {r}
      \/ Pool' = Pool /\ Held' = Held
<1>1. ASSUME NEW c \in Ctx, Step(c) PROVE Moved
  BY <1>1, QuietSim, StillSim, TakeSim, FreeSim, InsideSim DEF Step
<1>2. ASSUME NEW c \in Ctx, Call(c) PROVE Moved
  BY <1>2, QuietSim, StillSim, ReleaseSim DEF Call
<1>3. ASSUME NEW p \in Pfn, share_page(p) PROVE Moved
  BY <1>3, Inv_share_page, StillSim DEF RInv
<1>4. ASSUME UNCHANGED vars PROVE Moved
  BY <1>4, StutterInv, StillSim DEF RInv
<1>5. Moved
  BY <1>1, <1>2, <1>3, <1>4 DEF Next
<1>6. QED
  BY <1>5, Zenon DEF Ownership!Next, Ownership!Release, Ownership!Grant, Ownership!Return,
     Ownership!Held, Pool, Held, Run

\* Seen through Pool and Held, every behaviour of the allocator is a behaviour
\* of PageOwnership, for every memory layout and every interleaving of callers.
THEOREM Refinement == Confined => (Spec => RefinesOwnership)
<1> SUFFICES ASSUME Confined PROVE Spec => RefinesOwnership
  OBVIOUS
<1>1. Init => Ownership!Init
  <2> SUFFICES ASSUME Init PROVE Ownership!Init
    OBVIOUS
  <2>1. FreeBlocks = {} /\ InFlight = {} /\ live = {}
    BY DEF Init, FreeBlocks, InFlight, Blocks
  <2>2. QED BY <2>1 DEF Ownership!Init, FramesOf
<1>2. RInv /\ [Next]_vars =>
        [Ownership!Next]_<<FramesOf(FreeBlocks \cup InFlight), {Pages(b[1], b[2]) : b \in live}>>
  BY StepSim DEF Pool, Held
<1>3. Spec => []RInv
  BY RInvariance
<1>4. QED BY <1>1, <1>2, <1>3, PTL DEF Spec, RefinesOwnership, Ownership!Spec

-----------------------------------------------------------------------------
(* Merging is complete: Coalesced and FailsOnlyWhenFull.  While the lock is    *)
(* held the lists may hold a pair of buddies, the halves that                  *)
(* buddy_split_block() has just made; the invariant says where, and which      *)
(* lists the search for a larger block has found empty.                        *)

\* p and its buddy are the block that was split last, alone on their list
JustSplit(p, o) ==
  \E c \in Ctx :
    /\ \/ pc[c] = "split" /\ lvl[c] = o
       \/ pc[c] = "take" /\ req[c] = o
    /\ free_pages[o] = {p, buddy_get(p, o)}

PairsInv ==
  \A o \in 0 .. ORDER_MAX - 1 : \A p \in free_pages[o] :
    buddy_get(p, o) \in free_pages[o] => JustSplit(p, o)

\* buddy_split_block() goes up as long as the lists are empty
SearchInv ==
  \A c \in Ctx : pc[c] = "split" =>
    \A o \in Order : req[c] <= o /\ o < lvl[c] => free_pages[o] = {}

CoInv == IInv /\ PairsInv /\ SearchInv

NoPairs ==
  \A o \in 0 .. ORDER_MAX - 1 : \A p \in free_pages[o] : buddy_get(p, o) \notin free_pages[o]

\* The buddy of the buddy is the page itself
LEMMA BuddyBack ==
  ASSUME NEW p \in Nat, NEW o \in 0 .. 5, Aligned(p, o)
  PROVE  buddy_get(buddy_get(p, o), o) = p /\ buddy_get(p, o) # p
<1>1. PICK q, l, n : q = buddy_get(p, o) /\ l = LowOfPair(p, o) /\ n = Size(o)
  OBVIOUS
<1>2. /\ q \in Nat /\ Aligned(q, o) /\ Aligned(l, o + 1) /\ buddy_get(l, o) = l + n
      /\ ((l = p /\ q = p + n) \/ (l = q /\ p = q + n))
  BY <1>1, BuddyArith
<1>3. n \in {1, 2, 4, 8, 16, 32} /\ Size(o + 1) = 2 * n
  BY <1>1, SizeValues
<1>4. CASE l = q /\ p = q + n
  BY <1>1, <1>2, <1>3, <1>4
<1>5. CASE l = p /\ q = p + n
  <2>1. PICK k, b : k = LowOfPair(q, o) /\ b = buddy_get(q, o)
    OBVIOUS
  <2>2. /\ b \in Nat /\ k \in Nat /\ Aligned(k, o + 1)
        /\ ((k = q /\ b = q + n) \/ (k = b /\ q = b + n))
    BY <1>1, <1>2, <2>1, BuddyArith, Zenon
  <2>3. p % (2 * n) = 0 /\ k % (2 * n) = 0
    BY <1>2, <1>3, <1>5, <2>2 DEF Aligned
  <2>4. k # p + n
    <3>1. CASE n = 1 BY <2>3, <3>1
    <3>2. CASE n = 2 BY <2>3, <3>2
    <3>3. CASE n = 4 BY <2>3, <3>3
    <3>4. CASE n = 8 BY <2>3, <3>4
    <3>5. CASE n = 16 BY <2>3, <3>5
    <3>6. CASE n = 32 BY <2>3, <3>6
    <3>7. QED BY <1>3, <3>1, <3>2, <3>3, <3>4, <3>5, <3>6
  <2>5. b = p
    BY <1>3, <1>5, <2>2, <2>4
  <2>6. QED BY <1>1, <1>3, <1>5, <2>1, <2>5
<1>6. QED BY <1>2, <1>4, <1>5

LEMMA SizeOrder ==
  ASSUME NEW i \in 0 .. 6, NEW j \in 0 .. 6
  PROVE  /\ Size(i) \in {1, 2, 4, 8, 16, 32, 64}
         /\ i <= j => Size(i) <= Size(j)
         /\ i < j => 2 * Size(i) <= Size(j)
BY SizeValues

\* A block that meets a larger one lies inside it
LEMMA NestedBlocks ==
  ASSUME NEW x \in Nat, NEW o \in 0 .. 6, Aligned(x, o),
         NEW p \in Nat, NEW r \in 0 .. 6, Aligned(p, r), o <= r,
         NEW z, z \in Pages(x, o), z \in Pages(p, r)
  PROVE  Pages(x, o) \subseteq Pages(p, r)
<1>1. PICK n, m : n = Size(o) /\ m = Size(r)
  OBVIOUS
<1>2. n \in {1, 2, 4, 8, 16, 32, 64} /\ m \in {1, 2, 4, 8, 16, 32, 64} /\ n <= m
  BY <1>1, SizeOrder
<1>3. x % n = 0 /\ p % m = 0
  BY <1>1 DEF Aligned
<1>4. z \in Nat /\ x <= z /\ z < x + n /\ p <= z /\ z < p + m
  BY <1>1, PagesOf, Zenon
<1>5. p <= x /\ x + n <= p + m
  <2>1. CASE n = 1 BY <1>2, <1>3, <1>4, <2>1
  <2>2. CASE n = 2 BY <1>2, <1>3, <1>4, <2>2
  <2>3. CASE n = 4 BY <1>2, <1>3, <1>4, <2>3
  <2>4. CASE n = 8 BY <1>2, <1>3, <1>4, <2>4
  <2>5. CASE n = 16 BY <1>2, <1>3, <1>4, <2>5
  <2>6. CASE n = 32 BY <1>2, <1>3, <1>4, <2>6
  <2>7. CASE n = 64 BY <1>2, <1>3, <1>4, <2>7
  <2>8. QED BY <1>2, <2>1, <2>2, <2>3, <2>4, <2>5, <2>6, <2>7
<1>6. \A y \in Pages(x, o) : y \in Nat /\ x <= y /\ y < x + n
  BY <1>1, PagesOf, Zenon
<1>7. \A y \in Nat : x <= y /\ y < x + n => p <= y /\ y < p + m
  BY <1>2, <1>5
<1>8. QED BY <1>1, <1>6, <1>7, PagesOf, Zenon

LEMMA LeastOrder ==
  ASSUME NEW S \in SUBSET (0 .. 6), S # {}
  PROVE  \E m \in S : \A n \in S : m <= n
<1>1. CASE 0 \in S BY <1>1
<1>2. CASE 0 \notin S /\ 1 \in S BY <1>2
<1>3. CASE 0 \notin S /\ 1 \notin S /\ 2 \in S BY <1>3
<1>4. CASE S \subseteq 3 .. 6 /\ 3 \in S BY <1>4
<1>5. CASE S \subseteq 4 .. 6 /\ 4 \in S BY <1>5
<1>6. CASE S \subseteq 5 .. 6 /\ 5 \in S BY <1>6
<1>7. CASE \A n \in S : n = 6
  <2>1. 6 \in S
    BY <1>7, Zenon
  <2>2. QED BY <1>7, <2>1
<1>8. QED BY <1>1, <1>2, <1>3, <1>4, <1>5, <1>6, <1>7

-----------------------------------------------------------------------------
(* The invariant *)

\* What a step preserves that neither moves a block nor concerns a search
LEMMA SameLists ==
  ASSUME PairsInv, SearchInv, free_pages' = free_pages,
         \A d \in Ctx : pc[d] \in {"split", "take"} \/ pc'[d] \in {"split", "take"} =>
           pc'[d] = pc[d] /\ lvl'[d] = lvl[d] /\ req'[d] = req[d]
  PROVE  PairsInv' /\ SearchInv'
<1>1. \A p, o : JustSplit(p, o) => JustSplit(p, o)'
  BY DEF JustSplit
<1>2. PairsInv'
  BY <1>1 DEF PairsInv
<1>3. SearchInv'
  BY DEF SearchInv
<1>4. QED BY <1>2, <1>3

\* With no search under way there is no pair
LEMMA NoneSplit ==
  ASSUME PairsInv, \A c \in Ctx : pc[c] \notin {"split", "take"}
  PROVE  NoPairs
BY DEF PairsInv, NoPairs, JustSplit

\* ... and taking a block away does not make one
LEMMA FewerPairs ==
  ASSUME NoPairs, \A o \in 0 .. ORDER_MAX - 1 : free_pages'[o] \subseteq free_pages[o]
  PROVE  NoPairs'
BY DEF NoPairs

LEMMA QuietPairs ==
  ASSUME NoPairs', \A c \in Ctx : pc'[c] # "split"
  PROVE  PairsInv' /\ SearchInv'
BY DEF NoPairs, PairsInv, SearchInv

\* The holder of the lock is the only context in a critical section
LEMMA Alone ==
  ASSUME LockInv, NEW c \in Ctx, pc[c] \in {"split", "take", "merge"}
  PROVE  \A d \in Ctx \ {c} : pc[d] \notin {"split", "take", "merge"}
BY DEF LockInv

LEMMA NoneInside ==
  ASSUME LockInv, lock = NoCtx
  PROVE  \A d \in Ctx : pc[d] \notin {"split", "take", "merge"}
BY PageAllocConstants DEF LockInv

LEMMA Co_page_alloc_lock ==
  ASSUME CoInv, NEW c \in Ctx, page_alloc_lock(c)
  PROVE  PairsInv' /\ SearchInv'
<1>1. TypeOK /\ LockInv /\ FreeCountsAgree /\ PairsInv /\ SearchInv
  BY DEF CoInv, IInv
<1>2. /\ lock = NoCtx /\ free_pages' = free_pages /\ req' = req
      /\ \A d \in Ctx \ {c} : pc'[d] = pc[d]
  BY <1>1 DEF page_alloc_lock, listVars, TypeOK
<1>3. \A d \in Ctx : pc[d] \notin {"split", "take", "merge"}
  BY <1>1, <1>2, NoneInside
<1>4. NoPairs'
  BY <1>1, <1>2, <1>3, NoneSplit DEF NoPairs
<1>5. SearchInv'
  <2>1. req[c] \in Order /\ Order \subseteq Int
    BY <1>1, OrderFacts DEF TypeOK, Order
  <2>2. pc'[c] = "split" => free_count[req[c]] = 0 /\ lvl'[c] = req[c] + 1
    BY <1>1, Zenon DEF page_alloc_lock, TypeOK
  <2>3. free_count[req[c]] = 0 => free_pages[req[c]] = {}
    BY <1>1, <2>1, FreeListsFinite, FS_EmptySet, Zenon DEF FreeCountsAgree
  <2>4. ASSUME pc'[c] = "split", NEW o \in Order, req[c] <= o, o < req[c] + 1
        PROVE  free_pages[o] = {}
    <3>1. o = req[c]
      BY <2>1, <2>4
    <3>2. QED BY <2>2, <2>3, <2>4, <3>1
  <2>5. QED BY <1>2, <1>3, <2>2, <2>4 DEF SearchInv
<1>6. QED BY <1>4, <1>5 DEF NoPairs, PairsInv

LEMMA Co_buddy_split_recurse ==
  ASSUME CoInv, NEW c \in Ctx, buddy_split_recurse(c)
  PROVE  PairsInv' /\ SearchInv'
<1>1. TypeOK /\ LockInv /\ FreeCountsAgree /\ PairsInv /\ SearchInv
  BY DEF CoInv, IInv
<1>2. PICK k : k = lvl[c]
  OBVIOUS
<1>3. /\ pc[c] = "split" /\ k <= ORDER_MAX /\ free_count[k] = 0 /\ lvl'[c] = k + 1
      /\ free_pages' = free_pages /\ req' = req /\ pc' = pc
  BY <1>1, <1>2 DEF buddy_split_recurse, listVars, TypeOK
<1>4. \A d \in Ctx \ {c} : pc[d] \notin {"split", "take", "merge"}
  BY <1>1, <1>3, Alone
<1>5. k \in Order /\ req[c] \in Order /\ Order \subseteq Int
  BY <1>1, <1>2, <1>3, OrderFacts DEF TypeOK, Order
<1>6. free_pages[k] = {}
  BY <1>1, <1>3, <1>5, FreeListsFinite, FS_EmptySet DEF FreeCountsAgree
<1>7. NoPairs
  BY <1>1, <1>2, <1>3, <1>4, <1>6 DEF PairsInv, JustSplit, NoPairs
<1>8. SearchInv'
  <2>1. ASSUME NEW o \in Order, req[c] <= o, o < k + 1 PROVE free_pages[o] = {}
    <3>1. o = k \/ o < k
      BY <1>5, <2>1
    <3>2. QED BY <1>1, <1>2, <1>3, <1>6, <2>1, <3>1 DEF SearchInv
  <2>2. QED BY <1>3, <1>4, <2>1 DEF SearchInv
<1>9. QED BY <1>3, <1>7, <1>8 DEF NoPairs, PairsInv

LEMMA Co_buddy_split_fail ==
  ASSUME CoInv, NEW c \in Ctx, buddy_split_fail(c)
  PROVE  PairsInv' /\ SearchInv'
<1>1. TypeOK /\ LockInv /\ PairsInv /\ SearchInv
  BY DEF CoInv, IInv
<1>2. /\ pc[c] = "split" /\ lvl[c] > ORDER_MAX /\ free_pages' = free_pages
      /\ pc'[c] = "idle" /\ \A d \in Ctx \ {c} : pc'[d] = pc[d]
  BY <1>1 DEF buddy_split_fail, Return, listVars, TypeOK
<1>3. \A d \in Ctx \ {c} : pc[d] \notin {"split", "take", "merge"}
  BY <1>1, <1>2, Alone
<1>4. \A o \in 0 .. ORDER_MAX - 1 : lvl[c] # o
  BY <1>2, OrderFacts
<1>5. NoPairs
  BY <1>1, <1>2, <1>3, <1>4 DEF PairsInv, JustSplit, NoPairs
<1>6. NoPairs'
  BY <1>2, <1>5 DEF NoPairs
<1>7. \A d \in Ctx : pc'[d] # "split"
  BY <1>2, <1>3
<1>8. QED BY <1>6, <1>7, QuietPairs

\* A pair that is left after one block has gone was there before with a third
LEMMA PairBroken ==
  ASSUME PairsInv, NEW o \in 0 .. ORDER_MAX - 1, NEW t \in free_pages[o],
         free_pages'[o] = free_pages[o] \ {t}, NEW p \in free_pages'[o]
  PROVE  buddy_get(p, o) \notin free_pages'[o]
BY DEF PairsInv, JustSplit

LEMMA Co_buddy_split_block ==
  ASSUME CoInv, NEW c \in Ctx, buddy_split_block(c)
  PROVE  PairsInv' /\ SearchInv'
<1>1. TypeOK /\ LockInv /\ LevelInv /\ NoOverlap /\ PairsInv /\ SearchInv
  BY DEF CoInv, IInv
<1>2. PICK k, r : k = lvl[c] /\ r = req[c]
  OBVIOUS
<1>3. PICK t \in free_pages[k] :
         free_pages' = [free_pages EXCEPT ![k] = @ \ {t},
                                          ![k - 1] = @ \cup {t, buddy_get(t, k - 1)}]
  BY <1>2, Zenon DEF buddy_split_block
<1>4. /\ pc[c] = "split" /\ k <= ORDER_MAX /\ lvl'[c] = k - 1 /\ req' = req
      /\ pc'[c] = (IF k - 1 = r THEN "take" ELSE "split")
      /\ \A d \in Ctx \ {c} : pc'[d] = pc[d]
  BY <1>1, <1>2 DEF buddy_split_block, TypeOK
<1>5. \A d \in Ctx \ {c} : pc[d] \notin {"split", "take", "merge"}
  BY <1>1, <1>4, Alone
<1>6. r \in Order /\ k \in Order /\ r < k /\ Order = 0 .. ORDER_MAX /\ ORDER_MAX \in 0 .. 6
  BY <1>1, <1>2, <1>4, OrderFacts DEF TypeOK, LevelInv, Order
<1>7. k - 1 \in Order /\ k - 1 # k /\ r <= k - 1 /\ k - 1 < k /\ k - 1 \in 0 .. 5 /\ k = (k - 1) + 1
  BY <1>6
<1>8. free_pages[k - 1] = {}
  BY <1>1, <1>2, <1>4, <1>7, Zenon DEF SearchInv
<1>9. PICK b : b = buddy_get(t, k - 1)
  OBVIOUS
<1>10. /\ free_pages'[k] = free_pages[k] \ {t} /\ free_pages'[k - 1] = {t, b}
       /\ \A o \in Order \ {k, k - 1} : free_pages'[o] = free_pages[o]
  BY <1>1, <1>3, <1>6, <1>7, <1>8, <1>9, Zenon DEF TypeOK
<1>11. buddy_get(b, k - 1) = t
  <2>1. t \in Nat /\ <<t, k>> \in FreeBlocks
    <3>1. t \in Pfn /\ <<t, k>> \in FreeBlocks
      BY <1>1, <1>3, <1>6, FreeBlocksAre, Zenon DEF TypeOK
    <3>2. QED BY <3>1, OrderFacts DEF Pfn
  <2>2. Aligned(t, k)
    BY <1>1, <2>1 DEF NoOverlap, Placed, AllBlocks
  <2>3. Aligned(t, k - 1)
    BY <1>7, <2>1, <2>2, SplitArith
  <2>4. QED BY <1>7, <1>9, <2>1, <2>3, BuddyBack
<1>12. PairsInv'
  <2>1. ASSUME NEW o \in 0 .. ORDER_MAX - 1, NEW p \in free_pages'[o],
               buddy_get(p, o) \in free_pages'[o]
        PROVE  o = k - 1 /\ free_pages'[o] = {p, buddy_get(p, o)}
    <3>1. o \in Order
      BY <1>6
    <3>2. o # k
      BY <1>1, <1>10, <2>1, PairBroken, Zenon
    <3>3. CASE o # k - 1
      <4>1. free_pages'[o] = free_pages[o]
        BY <1>10, <3>1, <3>2, <3>3
      <4>2. JustSplit(p, o)
        BY <1>1, <2>1, <4>1, Zenon DEF PairsInv
      <4>3. QED BY <1>2, <1>4, <1>5, <3>2, <4>2, Zenon DEF JustSplit
    <3>4. CASE o = k - 1
      BY <1>9, <1>10, <1>11, <2>1, <3>4
    <3>5. QED BY <3>3, <3>4, Zenon
  <2>2. \/ pc'[c] = "split" /\ lvl'[c] = k - 1
        \/ pc'[c] = "take" /\ req'[c] = k - 1
    BY <1>2, <1>4
  <2>3. QED BY <2>1, <2>2 DEF PairsInv, JustSplit
<1>13. SearchInv'
  <2>1. ASSUME NEW o \in Order, r <= o, o < k - 1 PROVE free_pages'[o] = {}
    <3>1. o # k /\ o # k - 1 /\ o < k
      BY <1>6, <2>1
    <3>2. free_pages[o] = {}
      BY <1>1, <1>2, <1>4, <2>1, <3>1, Zenon DEF SearchInv
    <3>3. QED BY <1>10, <3>1, <3>2, Zenon
  <2>2. QED BY <1>2, <1>4, <1>5, <2>1 DEF SearchInv
<1>14. QED BY <1>12, <1>13

LEMMA Co_page_alloc_take ==
  ASSUME CoInv, NEW c \in Ctx, page_alloc_take(c)
  PROVE  PairsInv' /\ SearchInv'
<1>1. TypeOK /\ LockInv /\ HeadOrder /\ PairsInv /\ SearchInv
  BY DEF CoInv, IInv
<1>2. PICK r : r = req[c] /\ r \in Order
  BY <1>1 DEF TypeOK
<1>3. PICK t \in free_pages[r] : free_pages' = [free_pages EXCEPT ![order[t]] = @ \ {t}]
  BY <1>2, Zenon DEF page_alloc_take, buddy_remove_block
<1>4. /\ pc[c] = "take" /\ pc'[c] = "idle" /\ \A d \in Ctx \ {c} : pc'[d] = pc[d]
  BY <1>1 DEF page_alloc_take, Return, TypeOK
<1>5. \A d \in Ctx \ {c} : pc[d] \notin {"split", "take", "merge"}
  BY <1>1, <1>4, Alone, Zenon
<1>6. free_pages'[r] = free_pages[r] \ {t} /\ \A o \in Order \ {r} : free_pages'[o] = free_pages[o]
  BY <1>1, <1>2, <1>3 DEF HeadOrder, TypeOK
<1>7. NoPairs'
  <2>1. ASSUME NEW o \in 0 .. ORDER_MAX - 1, NEW p \in free_pages'[o],
               buddy_get(p, o) \in free_pages'[o]
        PROVE  FALSE
    <3>1. o \in Order
      BY OrderFacts DEF Order
    <3>2. CASE o = r
      BY <1>1, <1>3, <1>6, <2>1, <3>2, PairBroken, Zenon
    <3>3. CASE o # r
      <4>1. JustSplit(p, o)
        BY <1>1, <1>6, <2>1, <3>1, <3>3 DEF PairsInv
      <4>2. QED BY <1>2, <1>4, <1>5, <3>3, <4>1, Zenon DEF JustSplit
    <3>4. QED BY <3>2, <3>3
  <2>2. QED BY <2>1, Zenon DEF NoPairs
<1>8. \A d \in Ctx : pc'[d] # "split"
  BY <1>4, <1>5
<1>9. QED BY <1>7, <1>8, QuietPairs

LEMMA Co_buddy_merge_step ==
  ASSUME CoInv, NEW c \in Ctx, buddy_merge_step(c)
  PROVE  PairsInv' /\ SearchInv'
<1>1. TypeOK /\ LockInv /\ PairsInv
  BY DEF CoInv, IInv
<1>2. /\ pc[c] = "merge" /\ pc' = pc
      /\ free_pages' = [free_pages EXCEPT ![lvl[c]] = @ \ {buddy_get(blk[c], lvl[c])}]
  BY DEF buddy_merge_step
<1>3. \A d \in Ctx : pc[d] \notin {"split", "take"}
  BY <1>1, <1>2, Alone
<1>4. \A o \in 0 .. ORDER_MAX - 1 : free_pages'[o] \subseteq free_pages[o]
  <2>1. \A o \in 0 .. ORDER_MAX - 1 : o \in Order
    BY OrderFacts DEF Order
  <2>2. \A o \in Order : free_pages'[o] \subseteq free_pages[o]
    BY <1>1, <1>2 DEF TypeOK
  <2>3. QED BY <2>1, <2>2
<1>5. NoPairs'
  BY <1>1, <1>3, <1>4, NoneSplit, FewerPairs
<1>6. QED BY <1>2, <1>3, <1>5, QuietPairs

\* A block goes on a list only when its buddy is not there
LEMMA Co_buddy_merge_done ==
  ASSUME CoInv, NEW c \in Ctx, buddy_merge_done(c)
  PROVE  PairsInv' /\ SearchInv'
<1>1. TypeOK /\ LockInv /\ LevelInv /\ NoOverlap /\ NoFrameLost /\ HeadOrder /\ PairsInv
  BY DEF CoInv, IInv
<1>2. PICK p, k : p = blk[c] /\ k = lvl[c]
  OBVIOUS
<1>3. /\ pc[c] = "merge" /\ pc'[c] = "idle" /\ \A d \in Ctx \ {c} : pc'[d] = pc[d]
      /\ free_pages' = [free_pages EXCEPT ![k] = @ \cup {p}]
      /\ \E g \in Stray : ~Mergeable(p, k, g)
  BY <1>1, <1>2, Zenon DEF buddy_merge_done, buddy_add_block, Return, TypeOK
<1>4. \A d \in Ctx : pc[d] \notin {"split", "take"} /\ pc'[d] # "split"
  BY <1>1, <1>3, Alone
<1>5. NoPairs
  BY <1>1, <1>4, NoneSplit
<1>6. p \in Pfn /\ k \in Order /\ <<p, k>> \in AllBlocks /\ Pfn \subseteq Nat /\ Order = 0 .. ORDER_MAX
  BY <1>1, <1>2, <1>3, FlightOf, OrderFacts DEF TypeOK, LevelInv, Order, AllBlocks, Pfn
<1>7. free_pages'[k] = free_pages[k] \cup {p} /\ \A o \in Order \ {k} : free_pages'[o] = free_pages[o]
  BY <1>1, <1>3, <1>6 DEF TypeOK
<1>8. ASSUME k < ORDER_MAX, buddy_get(p, k) \in free_pages[k] PROVE FALSE
  <2>1. PICK q : q = buddy_get(p, k)
    OBVIOUS
  <2>2. q \in Pfn /\ order[q] = k /\ <<q, k>> \in FreeBlocks
    BY <1>1, <1>6, <1>8, <2>1, FreeBlocksAre, Zenon DEF TypeOK, HeadOrder
  <2>3. ~invalid[q]
    <3>1. <<q, k>> \in AllBlocks /\ AllBlocks \subseteq Blocks
      BY <1>1, <2>2, AllAreBlocks DEF AllBlocks
    <3>2. q \in FramesOf(AllBlocks)
      <4>1. <<q, k>> \in Blocks /\ <<q, k>>[1] = q
        BY <3>1
      <4>2. q \in Pages(<<q, k>>[1], <<q, k>>[2])
        BY <4>1, HeadIn
      <4>3. QED BY <3>1, <4>2, FramesIn
    <3>3. QED BY <1>1, <3>2, Zenon DEF NoFrameLost
  <2>4. QED BY <1>3, <1>8, <2>1, <2>2, <2>3 DEF Mergeable
<1>9. NoPairs'
  <2>1. ASSUME NEW o \in 0 .. ORDER_MAX - 1, NEW x \in free_pages'[o],
               buddy_get(x, o) \in free_pages'[o]
        PROVE  FALSE
    <3>1. o \in Order /\ o \in 0 .. 5 /\ o < ORDER_MAX
      BY OrderFacts DEF Order
    <3>2. CASE o # k
      BY <1>5, <1>7, <2>1, <3>1, <3>2 DEF NoPairs
    <3>3. CASE o = k
      <4>1. Aligned(p, k) /\ p \in Nat
        BY <1>1, <1>6 DEF NoOverlap, Placed
      <4>2. buddy_get(buddy_get(p, k), k) = p /\ buddy_get(p, k) # p
        BY <3>1, <3>3, <4>1, BuddyBack
      <4>3. CASE x = p
        BY <1>7, <1>8, <2>1, <3>1, <3>3, <4>2, <4>3
      <4>4. CASE x # p /\ buddy_get(x, k) = p
        <5>1. x \in free_pages[k]
          BY <1>7, <2>1, <3>3, <4>4
        <5>2. x \in Nat /\ <<x, k>> \in AllBlocks
          BY <1>1, <1>6, <5>1, FreeBlocksAre, Zenon DEF AllBlocks, TypeOK
        <5>3. Aligned(x, k)
          BY <1>1, <5>2, Zenon DEF NoOverlap, Placed
        <5>4. buddy_get(p, k) = x
          BY <3>1, <3>3, <4>4, <5>2, <5>3, BuddyBack
        <5>5. QED BY <1>8, <3>1, <3>3, <5>1, <5>4, Zenon
      <4>5. CASE x # p /\ buddy_get(x, k) # p
        BY <1>5, <1>7, <2>1, <3>3, <4>5, Zenon DEF NoPairs
      <4>6. QED BY <4>3, <4>4, <4>5
    <3>4. QED BY <3>2, <3>3
  <2>2. QED BY <2>1 DEF NoPairs
<1>10. QED BY <1>4, <1>9, QuietPairs

LEMMA CoStep ==
  ASSUME Confined, CoInv, [Next]_vars
  PROVE  CoInv'
<1>1. IInv' /\ TypeOK /\ PairsInv /\ SearchInv
  BY NextInv, StutterInv, Zenon DEF CoInv, IInv
<1>2. ASSUME NEW c \in Ctx, Step(c) PROVE PairsInv' /\ SearchInv'
  <2>1. CASE page_free_shared(c)
    <3>1. /\ free_pages' = free_pages /\ pc[c] = "dec" /\ pc'[c] = "idle"
          /\ \A d \in Ctx \ {c} : pc'[d] = pc[d] /\ lvl'[d] = lvl[d] /\ req'[d] = req[d]
      BY <1>1, <2>1 DEF page_free_shared, Return, listVars, TypeOK
    <3>2. QED BY <1>1, <3>1, SameLists
  <2>2. CASE page_free_lock(c)
    <3>1. /\ free_pages' = free_pages /\ pc[c] = "free" /\ pc'[c] = "merge"
          /\ \A d \in Ctx \ {c} : pc'[d] = pc[d] /\ lvl'[d] = lvl[d] /\ req'[d] = req[d]
      BY <1>1, <2>2 DEF page_free_lock, listVars, TypeOK
    <3>2. QED BY <1>1, <3>1, SameLists
  <2>3. QED
    BY <1>2, <2>1, <2>2, Co_page_alloc_lock, Co_buddy_split_recurse, Co_buddy_split_fail,
       Co_buddy_split_block, Co_page_alloc_take, Co_buddy_merge_step, Co_buddy_merge_done,
       Zenon DEF Step
<1>3. ASSUME NEW c \in Ctx, Call(c) PROVE PairsInv' /\ SearchInv'
  <2>1. /\ free_pages' = free_pages /\ pc[c] \notin {"split", "take"}
        /\ pc'[c] \notin {"split", "take"}
        /\ \A d \in Ctx \ {c} : pc'[d] = pc[d] /\ lvl'[d] = lvl[d] /\ req'[d] = req[d]
    <3>1. CASE \E o \in Order : page_alloc_enter(c, o)
      BY <1>1, <3>1 DEF page_alloc_enter, listVars, TypeOK
    <3>2. CASE \E p \in Pfn : page_free_enter(c, p)
      BY <1>1, <3>2 DEF page_free_enter, listVars, TypeOK
    <3>3. CASE \E p \in Pfn : page_initial_free(c, p)
      BY <1>1, <3>3 DEF page_initial_free, listVars, TypeOK
    <3>4. QED BY <1>3, <3>1, <3>2, <3>3, Zenon DEF Call
  <2>2. QED BY <1>1, <2>1, SameLists, Zenon
<1>4. ASSUME NEW p \in Pfn, share_page(p) PROVE PairsInv' /\ SearchInv'
  <2>1. free_pages' = free_pages /\ pc' = pc /\ lvl' = lvl /\ req' = req
    BY <1>4, Zenon DEF share_page, listVars, localVars
  <2>2. QED BY <1>1, <2>1, SameLists, Zenon
<1>5. ASSUME UNCHANGED vars PROVE PairsInv' /\ SearchInv'
  <2>1. free_pages' = free_pages /\ pc' = pc /\ lvl' = lvl /\ req' = req
    BY <1>5 DEF vars, listVars, localVars
  <2>2. QED BY <1>1, <2>1, SameLists
<1>6. QED BY <1>1, <1>2, <1>3, <1>4, <1>5 DEF Next, CoInv

LEMMA CoInvariance == Confined => (Spec => []CoInv)
<1> SUFFICES ASSUME Confined PROVE Spec => []CoInv
  OBVIOUS
<1>1. Init => CoInv
  <2> SUFFICES ASSUME Init PROVE CoInv
    OBVIOUS
  <2>1. \A o \in 0 .. ORDER_MAX - 1 : free_pages[o] = {}
    BY OrderFacts DEF Init, Order
  <2>2. PairsInv
    BY <2>1 DEF PairsInv
  <2>3. SearchInv
    BY DEF Init, SearchInv
  <2>4. QED BY <2>2, <2>3, InitInv DEF CoInv
<1>2. CoInv /\ [Next]_vars => CoInv'
  BY CoStep
<1>3. QED BY <1>1, <1>2, PTL DEF Spec

\* buddy_merge_block() merges all the way: whenever the lock is free no block
\* below ORDER_MAX is on a free list together with its buddy, whatever
\* sequence of splits and merges made the lists.
THEOREM MergedAllTheWay == Confined => (Spec => []Coalesced)
<1>1. CoInv => Coalesced
  BY NoneInside, NoneSplit DEF CoInv, IInv, Coalesced, NoPairs
<1>2. QED BY <1>1, CoInvariance, PTL

\* When the search for a block of order r has failed, the free frames hold no
\* aligned run of its size: the smallest free block in such a run would have
\* its buddy in the run too, and that buddy could only be free as a whole.
LEMMA NoRunLeft ==
  ASSUME CoInv, NEW c \in Ctx, pc[c] = "split", lvl[c] > ORDER_MAX,
         NEW p \in Pfn, Aligned(p, req[c]), Pages(p, req[c]) \subseteq FramesOf(FreeBlocks)
  PROVE  FALSE
<1>1. TypeOK /\ LockInv /\ LevelInv /\ NoOverlap /\ PairsInv /\ SearchInv
  BY DEF CoInv, IInv
<1>2. PICK r : r = req[c]
  OBVIOUS
<1>3. r \in Order /\ r \in 0 .. 6 /\ p \in Nat /\ Order = 0 .. ORDER_MAX /\ ORDER_MAX \in 0 .. 6
  <2>1. r \in Order
    BY <1>1, <1>2, Zenon DEF TypeOK
  <2>2. QED BY <2>1, OrderFacts DEF Order, Pfn
<1>4. Aligned(p, r) /\ Pages(p, r) \subseteq FramesOf(FreeBlocks)
  BY <1>2
<1>5. NoPairs
  <2>1. \A d \in Ctx \ {c} : pc[d] \notin {"split", "take", "merge"}
    BY <1>1, Alone
  <2>2. \A o \in 0 .. ORDER_MAX - 1 : lvl[c] # o
    BY OrderFacts
  <2>3. QED BY <1>1, <2>1, <2>2 DEF PairsInv, JustSplit, NoPairs
<1>6. \A b \in FreeBlocks :
         /\ b \in Blocks /\ b = <<b[1], b[2]>> /\ b[1] \in Nat /\ b[2] \in Order
         /\ b[2] \in 0 .. 6 /\ b[1] \in free_pages[b[2]] /\ Aligned(b[1], b[2])
         /\ b[1] \in Pages(b[1], b[2]) /\ b[2] < r
  <2>1. ASSUME NEW b \in FreeBlocks
        PROVE  /\ b \in Blocks /\ b = <<b[1], b[2]>> /\ b[1] \in Nat /\ b[2] \in 0 .. 6
               /\ b[2] \in Order /\ b[1] \in free_pages[b[2]] /\ b[1] \in Pages(b[1], b[2])
    BY <1>1, FreeBlocksAre, HeadIn, Zenon
  <2>2. ASSUME NEW b \in FreeBlocks PROVE Aligned(b[1], b[2])
    BY <1>1, Zenon DEF NoOverlap, Placed, AllBlocks
  <2>3. ASSUME NEW b \in FreeBlocks PROVE b[2] < r
    <3>1. free_pages[b[2]] # {} /\ b[2] \in Order
      BY <2>1
    <3>2. b[2] < lvl[c]
      <4>1. lvl[c] \in 0 .. ORDER_MAX + 1
        BY <1>1, Zenon DEF TypeOK
      <4>2. QED BY <1>3, <3>1, <4>1
    <3>3. ~(r <= b[2])
      BY <1>1, <1>2, <3>1, <3>2 DEF SearchInv
    <3>4. QED BY <1>3, <3>1, <3>3
  <2>4. QED BY <2>1, <2>2, <2>3
<1>7. \A z \in Pages(p, r) : \E b \in FreeBlocks : z \in Pages(b[1], b[2])
  BY <1>4, FramesIn
<1>8. Disjoint(FreeBlocks)
  BY <1>1, Zenon DEF NoOverlap, Disjoint, AllBlocks
<1> DEFINE S == {o \in 0 .. 6 : \E b \in FreeBlocks :
                   b[2] = o /\ \E z \in Pages(p, r) : z \in Pages(b[1], b[2])}
<1>9. S # {}
  <2>1. p \in Pages(p, r)
    BY <1>3, PagesOf, Zenon
  <2>2. PICK b \in FreeBlocks : p \in Pages(b[1], b[2])
    BY <1>7, <2>1
  <2>3. QED BY <1>6, <2>1, <2>2, Zenon
<1>10. PICK o \in S : \A n \in S : o <= n
  BY <1>9, LeastOrder, Zenon
<1>11. PICK a \in FreeBlocks : a[2] = o /\ \E z \in Pages(p, r) : z \in Pages(a[1], a[2])
  BY <1>10
<1>12. PICK x, q, l : x = a[1] /\ q = buddy_get(x, o) /\ l = LowOfPair(x, o)
  OBVIOUS
<1>13. /\ x \in Nat /\ o \in 0 .. 5 /\ o < r /\ o + 1 \in 0 .. 6 /\ o + 1 <= r /\ o \in 0 .. ORDER_MAX - 1
       /\ Aligned(x, o) /\ x \in free_pages[o] /\ a = <<x, o>>
  <2>1. /\ x \in Nat /\ o \in Order /\ o < r /\ Aligned(x, o) /\ x \in free_pages[o] /\ a = <<x, o>>
    BY <1>6, <1>11, <1>12, Zenon
  <2>2. QED BY <1>3, <2>1
<1>14. /\ q \in Nat /\ l \in Nat /\ Aligned(q, o) /\ Aligned(l, o + 1)
       /\ buddy_get(q, o) = x /\ q # x
  BY <1>12, <1>13, BuddyArith, BuddyBack, Zenon
<1>15. /\ Pages(l, o + 1) = Pages(x, o) \cup Pages(q, o)
       /\ Pages(x, o) \cap Pages(q, o) = {}
  BY <1>12, <1>13, PairFrames
<1>16. q \in Pages(q, o)
  BY <1>13, <1>14, PagesOf, Zenon
<1>17. q \in Pages(p, r)
  <2>1. PICK z \in Pages(p, r) : z \in Pages(x, o)
    BY <1>11, <1>12, Zenon
  <2>2. z \in Pages(l, o + 1) /\ r \in 0 .. 6 /\ p \in Nat /\ Aligned(p, r)
    BY <1>3, <1>4, <1>15, <2>1, Zenon
  <2>3. Pages(l, o + 1) \subseteq Pages(p, r)
    BY <1>13, <1>14, <2>2, NestedBlocks, Zenon
  <2>4. QED BY <1>15, <1>16, <2>3, Zenon
<1>18. PICK b \in FreeBlocks : q \in Pages(b[1], b[2])
  BY <1>7, <1>17, Zenon
<1>19. PICK y, j : y = b[1] /\ j = b[2]
  OBVIOUS
<1>20. y \in Nat /\ j \in 0 .. 6 /\ Aligned(y, j) /\ y \in free_pages[j] /\ b = <<y, j>>
  BY <1>6, <1>19, Zenon
<1>21. o <= j
  BY <1>10, <1>17, <1>18, <1>19, <1>20, Zenon
<1>22. x \notin Pages(y, j)
  <2> SUFFICES ASSUME x \in Pages(y, j) PROVE FALSE
    OBVIOUS
  <2>1. a = b
    BY <1>6, <1>8, <1>12, <1>19, HeadsDiffer
  <2>2. q \in Pages(x, o)
    BY <1>13, <1>18, <1>19, <1>20, <2>1
  <2>3. QED BY <1>15, <1>16, <2>2, Zenon
<1>23. CASE q # y
  BY <1>12, <1>13, <1>18, <1>19, <1>20, <1>22, <1>23, BuddyInside, Zenon
<1>24. CASE q = y /\ j = o
  BY <1>5, <1>12, <1>13, <1>20, <1>24, Zenon DEF NoPairs
<1>25. CASE q = y /\ o < j
  <2>1. Pages(l, o + 1) \subseteq Pages(y, j)
    <3>1. o + 1 <= j
      BY <1>13, <1>20, <1>25
    <3>2. q \in Pages(l, o + 1) /\ q \in Pages(y, j)
      BY <1>15, <1>16, <1>18, <1>19, Zenon
    <3>3. QED BY <1>13, <1>14, <1>20, <3>1, <3>2, NestedBlocks, Zenon
  <2>2. x \in Pages(x, o)
    BY <1>13, PagesOf, Zenon
  <2>3. QED BY <1>15, <1>22, <2>1, <2>2, Zenon
<1>26. j = o \/ o < j
  BY <1>13, <1>20, <1>21
<1>27. QED BY <1>23, <1>24, <1>25, <1>26

\* page_alloc() returns NULL only when memory holds no free aligned run of the
\* size asked for: no sequence of allocations and releases leaves free frames
\* that a complete merge would have joined.
THEOREM NullOnlyWhenFull == Confined => (Spec => []FailsOnlyWhenFull)
<1>1. CoInv => FailsOnlyWhenFull
  BY NoRunLeft DEF FailsOnlyWhenFull
<1>2. QED BY <1>1, CoInvariance, PTL

=============================================================================
