------------------------------ MODULE PageAlloc ------------------------------
(***************************************************************************)
(* The buddy page allocator of kernel/mm/palloc.c.                         *)
(*                                                                         *)
(* Several execution contexts (kernel tasks, interrupt handlers) call      *)
(* page_alloc() and page_free().  Everything between lock() and unlock()   *)
(* runs under buddy_allocator.lock, but the recursion of                   *)
(* buddy_split_block() and the loop of buddy_merge_block() are kept as     *)
(* separate steps, and the test of use_count that page_free() makes before *)
(* it takes the lock is a step of its own.                                 *)
(*                                                                         *)
(* A block is a pair <<pfn, order>>.  A free list is modelled by the set   *)
(* of its members: page_get_last() may then return any of them, a          *)
(* superset of what the circular list (list.h) does.                       *)
(***************************************************************************)
EXTENDS Integers, FiniteSets

CONSTANTS
  PageCount,  \* page_count: number of page structs, one per page frame
  ORDER_MAX,  \* the largest block order (6 in palloc.h)
  Usable,     \* the frames that bootmem_mark_free() releases to the allocator
  Critical,   \* the frames of the kernel image, see page_is_critical()
  Stray,      \* what an `order' read beyond the page area may find there
  Ctx,        \* the execution contexts that call the allocator
  MaxRefs,    \* bound: how many users may share one block
  NoCtx       \* value of the lock when no context holds it

Pfn    == 0 .. PageCount - 1
Order  == 0 .. ORDER_MAX
Blocks == Pfn \X Order

ORDER_USED == -1

ASSUME PageAllocConstants ==
  /\ PageCount \in Nat \ {0}
  /\ ORDER_MAX \in 0 .. 6
  /\ Usable \subseteq Pfn
  /\ Critical \subseteq Pfn
  /\ Usable \cap Critical = {}     \* bootmem trims the kernel out of its regions
  /\ Stray \subseteq Int
  /\ Stray # {}
  /\ IsFiniteSet(Ctx)
  /\ MaxRefs \in Nat \ {0}
  /\ NoCtx \notin Ctx

VARIABLES
  order,       \* page->order
  invalid,     \* PF_INVALID in page->flags
  use_count,   \* page->use_count
  free_pages,  \* blocks[order].free_pages, as a set of page frame numbers
  free_count,  \* blocks[order].free_count
  lock,        \* buddy_allocator.lock: the context that holds it, or NoCtx
  pc,          \* where each context is
  req,         \* its argument `order'
  page,        \* its argument `current_page' (a pfn)
  blk,         \* block_page, the block buddy_merge_block() works on
  lvl,         \* the order reached by buddy_split_block/buddy_merge_block
  boot,        \* frames bootmem_mark_free() has still to release
  live,        \* callers: the blocks handed out and not yet taken back
  refs,        \* callers: references to a block not yet given to page_free()
  size         \* callers: the order a block was asked for

pageVars   == <<order, invalid, use_count>>
listVars   == <<free_pages, free_count>>
localVars  == <<req, page, blk, lvl>>
callerVars == <<boot, live, refs, size>>
vars == <<order, invalid, use_count, free_pages, free_count, lock, pc,
          req, page, blk, lvl, boot, live, refs, size>>

-----------------------------------------------------------------------------
(* Block arithmetic *)

\* 1 << o, for the orders palloc.h allows
Size(o) ==
  CASE o = 0 -> 1 [] o = 1 -> 2 [] o = 2 -> 4 [] o = 3 -> 8
    [] o = 4 -> 16 [] o = 5 -> 32 [] o = 6 -> 64

\* the frames of the block of order o that starts at p
Pages(p, o) == p .. (p + Size(o) - 1)

Aligned(p, o) == p % Size(o) = 0

BitSet(p, o) == (p \div Size(o)) % 2 = 1

\* pfn ^ (1 << order)
buddy_get(p, o) == IF BitSet(p, o) THEN p - Size(o) ELSE p + Size(o)

\* Mutant: the bit is subtracted without looking at it
LowBySubtraction(p, o) == p - Size(o)

\* pfn & ~(1 << order)
LowOfPair(p, o) == IF BitSet(p, o) THEN p - Size(o) ELSE p

-----------------------------------------------------------------------------
(* buddy_init(): every frame INVALID and of order 0, every list empty *)

Init ==
  /\ order = [p \in Pfn |-> 0]
  /\ invalid = [p \in Pfn |-> TRUE]
  /\ use_count = [p \in Pfn |-> 0]
  /\ free_pages = [o \in Order |-> {}]
  /\ free_count = [o \in Order |-> 0]
  /\ lock = NoCtx
  /\ pc = [c \in Ctx |-> "idle"]
  /\ req = [c \in Ctx |-> 0]
  /\ page = [c \in Ctx |-> 0]
  /\ blk = [c \in Ctx |-> 0]
  /\ lvl = [c \in Ctx |-> 0]
  /\ boot = Usable
  /\ live = {}
  /\ refs = [p \in Pfn |-> 0]
  /\ size = [p \in Pfn |-> 0]

\* A call returns: its local variables are gone
Return(c) ==
  /\ pc' = [pc EXCEPT ![c] = "idle"]
  /\ req' = [req EXCEPT ![c] = 0]
  /\ page' = [page EXCEPT ![c] = 0]
  /\ blk' = [blk EXCEPT ![c] = 0]
  /\ lvl' = [lvl EXCEPT ![c] = 0]

PAGE_INC_USES(p) == [use_count EXCEPT ![p] = @ + 1]

\* Mutant: the use count is never dropped
NoDecrement(p) == use_count

PAGE_DEC_USES(p) == [use_count EXCEPT ![p] = @ - 1]

\* order of the page, its list, and the count of that list
buddy_add_block(p, o) ==
  /\ order' = [order EXCEPT ![p] = o]
  /\ free_pages' = [free_pages EXCEPT ![o] = @ \cup {p}]
  /\ free_count' = [free_count EXCEPT ![o] = @ + 1]

\* Mutant: the block leaves its list but its page still claims to be free
RemoveKeepsOrder(p) ==
  /\ free_pages' = [free_pages EXCEPT ![order[p]] = @ \ {p}]
  /\ free_count' = [free_count EXCEPT ![order[p]] = @ - 1]
  /\ UNCHANGED order

\* the list is found through the order that the page struct records
buddy_remove_block(p) ==
  /\ free_pages' = [free_pages EXCEPT ![order[p]] = @ \ {p}]
  /\ free_count' = [free_count EXCEPT ![order[p]] = @ - 1]
  /\ order' = [order EXCEPT ![p] = ORDER_USED]

-----------------------------------------------------------------------------
(* page_alloc() *)

\* An order above ORDER_MAX returns NULL at once and changes nothing.
page_alloc_enter(c, o) ==
  /\ boot = {}
  /\ pc[c] = "idle"
  /\ pc' = [pc EXCEPT ![c] = "alloc"]
  /\ req' = [req EXCEPT ![c] = o]
  /\ UNCHANGED <<order, invalid, use_count, listVars, lock, page, blk, lvl,
                 callerVars>>

\* lock(); is there a block of this order, or must a larger one be split?
page_alloc_lock(c) ==
  /\ pc[c] = "alloc"
  /\ lock = NoCtx
  /\ lock' = c
  /\ IF free_count[req[c]] # 0
       THEN pc' = [pc EXCEPT ![c] = "take"] /\ UNCHANGED lvl
       ELSE /\ pc' = [pc EXCEPT ![c] = "split"]
            /\ lvl' = [lvl EXCEPT ![c] = req[c] + 1]
  /\ UNCHANGED <<pageVars, listVars, req, page, blk, callerVars>>

\* Mutant: the recursion skips a level
SplitSkipsLevel(c) ==
  /\ pc[c] = "split"
  /\ lvl[c] <= ORDER_MAX
  /\ free_count[lvl[c]] = 0
  /\ lvl' = [lvl EXCEPT ![c] = IF @ < ORDER_MAX THEN @ + 2 ELSE @ + 1]
  /\ UNCHANGED <<pageVars, listVars, lock, pc, req, page, blk, callerVars>>

\* No block at this level either: the recursive call buddy_split_block(order + 1)
buddy_split_recurse(c) ==
  /\ pc[c] = "split"
  /\ lvl[c] <= ORDER_MAX
  /\ free_count[lvl[c]] = 0
  /\ lvl' = [lvl EXCEPT ![c] = @ + 1]
  /\ UNCHANGED <<pageVars, listVars, lock, pc, req, page, blk, callerVars>>

\* Mutant: the failing path forgets unlock()
FailKeepsLock(c) ==
  /\ pc[c] = "split"
  /\ lvl[c] > ORDER_MAX
  /\ Return(c)
  /\ UNCHANGED <<pageVars, listVars, lock, callerVars>>

\* Above ORDER_MAX the recursion fails; every caller still sees a free_count of
\* 0, so that page_alloc() unlocks and returns NULL.
buddy_split_fail(c) ==
  /\ pc[c] = "split"
  /\ lvl[c] > ORDER_MAX
  /\ Return(c)
  /\ lock' = NoCtx
  /\ UNCHANGED <<pageVars, listVars, callerVars>>

\* Mutant: the second buddy_add_block() of the split is missing
SplitDropsBuddy(c) ==
  LET k == lvl[c] IN
  /\ pc[c] = "split"
  /\ k <= ORDER_MAX
  /\ free_count[k] # 0
  /\ \E target \in free_pages[k] :
       /\ order' = [order EXCEPT ![target] = k - 1]
       /\ free_pages' = [free_pages EXCEPT ![k] = @ \ {target},
                                           ![k - 1] = @ \cup {target}]
       /\ free_count' = [free_count EXCEPT ![k] = @ - 1, ![k - 1] = @ + 1]
  /\ lvl' = [lvl EXCEPT ![c] = k - 1]
  /\ pc' = [pc EXCEPT ![c] = IF k - 1 = req[c] THEN "take" ELSE "split"]
  /\ UNCHANGED <<invalid, use_count, lock, req, page, blk, callerVars>>

\* Split the last block of the level in two and return to the level below,
\* which finds a non-zero free_count: it splits in turn, or it is page_alloc().
buddy_split_block(c) ==
  LET k == lvl[c] IN
  /\ pc[c] = "split"
  /\ k <= ORDER_MAX
  /\ free_count[k] # 0
  /\ \E target \in free_pages[k] :
       LET buddy == buddy_get(target, k - 1) IN
       /\ order' = [order EXCEPT ![target] = k - 1, ![buddy] = k - 1]
       /\ free_pages' = [free_pages EXCEPT ![k] = @ \ {target},
                                           ![k - 1] = @ \cup {target, buddy}]
       /\ free_count' = [free_count EXCEPT ![k] = @ - 1, ![k - 1] = @ + 2]
  /\ lvl' = [lvl EXCEPT ![c] = k - 1]
  /\ pc' = [pc EXCEPT ![c] = IF k - 1 = req[c] THEN "take" ELSE "split"]
  /\ UNCHANGED <<invalid, use_count, lock, req, page, blk, callerVars>>

\* page_get_last(), buddy_remove_block(), PAGE_INC_USES(), unlock()
page_alloc_take(c) ==
  LET o == req[c] IN
  /\ pc[c] = "take"
  /\ \E p \in free_pages[o] :
       /\ buddy_remove_block(p)
       /\ use_count' = PAGE_INC_USES(p)
       /\ live' = live \cup {<<p, o>>}
       /\ refs' = [refs EXCEPT ![p] = @ + 1]
       /\ size' = [size EXCEPT ![p] = o]
  /\ Return(c)
  /\ lock' = NoCtx
  /\ UNCHANGED <<invalid, boot>>

-----------------------------------------------------------------------------
(* page_free() *)

\* Mutant: the use count is not looked at
NeverShared(p) == FALSE

\* If the block is in use by multiple users, don't free
SeveralUsers(p) == use_count[p] > 1

\* A caller gives up one of its references.  use_count is tested before the
\* lock is taken; NULL and critical pages are refused without any change.
page_free_enter(c, p) ==
  /\ pc[c] = "idle"
  /\ refs[p] > 0
  /\ p \notin Critical
  /\ refs' = [refs EXCEPT ![p] = @ - 1]
  /\ page' = [page EXCEPT ![c] = p]
  /\ req' = [req EXCEPT ![c] = size[p]]
  /\ pc' = [pc EXCEPT ![c] = IF SeveralUsers(p) THEN "dec" ELSE "free"]
  /\ size' = [size EXCEPT ![p] = IF refs[p] = 1 THEN 0 ELSE @]
  /\ UNCHANGED <<pageVars, listVars, lock, blk, lvl, boot, live>>

\* The block has other users: lock(), PAGE_DEC_USES(), unlock()
page_free_shared(c) ==
  /\ pc[c] = "dec"
  /\ lock = NoCtx
  /\ use_count' = PAGE_DEC_USES(page[c])
  /\ Return(c)
  /\ UNCHANGED <<order, invalid, listVars, lock, callerVars>>

\* The last user: lock(), set the order, enter buddy_merge_block()
page_free_lock(c) ==
  /\ pc[c] = "free"
  /\ lock = NoCtx
  /\ lock' = c
  /\ order' = [order EXCEPT ![page[c]] = req[c]]
  /\ blk' = [blk EXCEPT ![c] = page[c]]
  /\ lvl' = [lvl EXCEPT ![c] = req[c]]
  /\ pc' = [pc EXCEPT ![c] = "merge"]
  /\ live' = live \ {<<page[c], req[c]>>}
  /\ UNCHANGED <<invalid, use_count, listVars, req, page, boot, refs, size>>

\* bootmem_mark_free() clears PF_INVALID and calls page_initial_free(), which
\* merges the frame as a block of order 0.  Each region is released upwards; the
\* boot context runs alone.
page_initial_free(c, p) ==
  /\ p \in boot
  /\ p - 1 \notin boot
  /\ \A d \in Ctx : pc[d] = "idle"
  /\ lock = NoCtx
  /\ lock' = c
  /\ invalid' = [invalid EXCEPT ![p] = FALSE]
  /\ page' = [page EXCEPT ![c] = p]
  /\ blk' = [blk EXCEPT ![c] = p]
  /\ lvl' = [lvl EXCEPT ![c] = 0]
  /\ pc' = [pc EXCEPT ![c] = "merge"]
  /\ UNCHANGED <<order, use_count, listVars, req, callerVars>>

\* Mutant: the loop stops one order early
MergeStopsEarly(p, o, g) ==
  LET buddy == buddy_get(p, o) IN
  /\ o < ORDER_MAX - 1
  /\ IF buddy \in Pfn THEN order[buddy] = o /\ ~invalid[buddy] ELSE g = o

\* The test of the loop of buddy_merge_block(): below ORDER_MAX, and the buddy's
\* page struct says `free, of this order'.  The struct of a buddy beyond the
\* page area is whatever memory holds there, g.
Mergeable(p, o, g) ==
  LET buddy == buddy_get(p, o) IN
  /\ o < ORDER_MAX
  /\ IF buddy \in Pfn THEN order[buddy] = o /\ ~invalid[buddy] ELSE g = o

\* Mutant: the buddy leaves its list, the list's count stays
MergeKeepsCount(c) ==
  LET o   == lvl[c]
      low == LowOfPair(blk[c], o)
  IN
  /\ pc[c] = "merge"
  /\ \E g \in Stray : Mergeable(blk[c], o, g)
  /\ free_pages' = [free_pages EXCEPT ![o] = @ \ {buddy_get(blk[c], o)}]
  /\ order' = [q \in Pfn |-> IF q = buddy_get(low, o) THEN o ELSE order[q]]
  /\ blk' = [blk EXCEPT ![c] = low]
  /\ lvl' = [lvl EXCEPT ![c] = o + 1]
  /\ UNCHANGED <<invalid, use_count, free_count, lock, pc, req, page, callerVars>>

\* One round of the loop: unlink the buddy, go on with the lower of the pair
buddy_merge_step(c) ==
  LET o   == lvl[c]
      low == LowOfPair(blk[c], o)
  IN
  /\ pc[c] = "merge"
  /\ \E g \in Stray : Mergeable(blk[c], o, g)
  /\ free_pages' = [free_pages EXCEPT ![o] = @ \ {buddy_get(blk[c], o)}]
  /\ free_count' = [free_count EXCEPT ![o] = @ - 1]
  /\ order' = [q \in Pfn |-> IF q = buddy_get(low, o) THEN o ELSE order[q]]
  /\ blk' = [blk EXCEPT ![c] = low]
  /\ lvl' = [lvl EXCEPT ![c] = o + 1]
  /\ UNCHANGED <<invalid, use_count, lock, pc, req, page, callerVars>>

\* The loop ends: buddy_add_block(), then page_free() drops the use count
\* (page_initial_free() leaves it alone), and unlock().
buddy_merge_done(c) ==
  /\ pc[c] = "merge"
  /\ \E g \in Stray : ~Mergeable(blk[c], lvl[c], g)
  /\ buddy_add_block(blk[c], lvl[c])
  /\ use_count' = IF page[c] \in boot THEN use_count
                  ELSE PAGE_DEC_USES(page[c])
  /\ boot' = boot \ {page[c]}
  /\ Return(c)
  /\ lock' = NoCtx
  /\ UNCHANGED <<invalid, live, refs, size>>

-----------------------------------------------------------------------------
(* A second user of an order-0 page: PTC_SHARE in ptable_copy_range() *)

share_page(p) ==
  /\ refs[p] \in 1 .. MaxRefs - 1
  /\ size[p] = 0
  /\ use_count' = PAGE_INC_USES(p)
  /\ refs' = [refs EXCEPT ![p] = @ + 1]
  /\ UNCHANGED <<order, invalid, listVars, lock, pc, localVars, boot, live, size>>

Step(c) ==
  \/ page_alloc_lock(c)
  \/ buddy_split_recurse(c)
  \/ buddy_split_fail(c)
  \/ buddy_split_block(c)
  \/ page_alloc_take(c)
  \/ page_free_shared(c)
  \/ page_free_lock(c)
  \/ buddy_merge_step(c)
  \/ buddy_merge_done(c)

Call(c) ==
  \/ \E o \in Order : page_alloc_enter(c, o)
  \/ \E p \in Pfn : page_free_enter(c, p) \/ page_initial_free(c, p)

Next ==
  \/ \E c \in Ctx : Step(c) \/ Call(c)
  \/ \E p \in Pfn : share_page(p)

Spec == Init /\ [][Next]_vars

\* A context that holds the lock keeps running: the timer interrupt preempts it
\* but task_schedule() comes back to it.  Nothing is assumed of a context that
\* spins on the lock, which is a plain test-and-set.
Fairness == \A c \in Ctx : WF_vars(lock = c /\ Step(c))

FairSpec == Spec /\ Fairness

-----------------------------------------------------------------------------
(* Properties *)

FreeBlocks == {b \in Blocks : b[1] \in free_pages[b[2]]}

\* the block a context has taken off the lists, or is about to put on one
InFlight == {<<blk[c], lvl[c]>> : c \in {d \in Ctx : pc[d] = "merge"}}

AllBlocks == FreeBlocks \cup live \cup InFlight

\* the frames of a set of blocks
FramesOf(B) == UNION {Pages(b[1], b[2]) : b \in B}

\* every block of B is aligned and inside memory
Placed(B) ==
  \A b \in B : Aligned(b[1], b[2]) /\ Pages(b[1], b[2]) \subseteq Pfn

\* no two blocks of B overlap
Disjoint(B) ==
  \A a, b \in B : a # b => Pages(a[1], a[2]) \cap Pages(b[1], b[2]) = {}

\* calls of page_free() that still have to drop the use count of page p
Pending(p) ==
  {c \in Ctx : /\ page[c] = p
               /\ \/ pc[c] \in {"dec", "free"}
                  \/ pc[c] = "merge" /\ p \notin boot}

\* Every variable has the type of the C object it stands for.
TypeOK ==
  /\ order \in [Pfn -> Order \cup {ORDER_USED}]
  /\ invalid \in [Pfn -> BOOLEAN]
  /\ use_count \in [Pfn -> Nat]
  /\ free_pages \in [Order -> SUBSET Pfn]
  /\ free_count \in [Order -> Nat]
  /\ lock \in Ctx \cup {NoCtx}
  /\ pc \in [Ctx -> {"idle", "alloc", "split", "take", "dec", "free", "merge"}]
  /\ req \in [Ctx -> Order]
  /\ page \in [Ctx -> Pfn]
  /\ blk \in [Ctx -> Pfn]
  /\ lvl \in [Ctx -> 0 .. ORDER_MAX + 1]
  /\ boot \subseteq Usable
  /\ live \subseteq Blocks
  /\ refs \in [Pfn -> Nat]
  /\ size \in [Pfn -> Order]

\* No frame is in two places: the blocks on the free lists, the blocks callers
\* hold and the block being merged are aligned, lie inside memory and do not
\* overlap.  buddy_merge_block() trusts page->order alone, which is stale for
\* every page that is not the head of a block.
NoOverlap ==
  /\ FreeBlocks \cap live = {}
  /\ InFlight \cap (FreeBlocks \cup live) = {}
  /\ Placed(AllBlocks)
  /\ Disjoint(AllBlocks)

\* No frame is lost and no INVALID frame is used: the frames of all blocks are
\* exactly the frames that are not PF_INVALID.
NoFrameLost ==
  {p \in Pfn : ~invalid[p]} = FramesOf(AllBlocks)

\* free_count is the length of its list.  page_alloc() relies on it alone:
\* page_get_last() of an empty list returns the list head as if it were a page.
FreeCountsAgree ==
  \A o \in Order : free_count[o] = Cardinality(free_pages[o])

\* buddy_merge_block() merges all the way: with the lock free, no block below
\* ORDER_MAX sits on a free list together with its buddy.
Coalesced ==
  lock = NoCtx =>
    \A o \in 0 .. ORDER_MAX - 1 : \A p \in free_pages[o] :
      buddy_get(p, o) \notin free_pages[o]

\* page_alloc() returns NULL only when memory holds no free aligned run of
\* 2^order frames.
FailsOnlyWhenFull ==
  \A c \in Ctx : pc[c] = "split" /\ lvl[c] > ORDER_MAX =>
    ~\E p \in Pfn :
       /\ Aligned(p, req[c])
       /\ Pages(p, req[c]) \subseteq FramesOf(FreeBlocks)

\* use_count is the number of users of a page: references still held plus
\* page_free() calls that have yet to drop theirs.
UseCountsAgree ==
  \A p \in Pfn : use_count[p] = refs[p] + Cardinality(Pending(p))

\* A block somebody allocated is given back when the last user frees it: it is
\* either still referenced or some page_free() is about to release it.
NoBlockLeaked ==
  \A b \in live : refs[b[1]] > 0 \/ \E c \in Pending(b[1]) : pc[c] = "free"

\* A buddy is never looked up beyond the page area, or what is found there is
\* never taken for a free page: buddy_get() does not check page_count.
Confined ==
  \/ PageCount % Size(ORDER_MAX) = 0
  \/ \A g \in Stray : g \notin Order

(* The inductive invariant: the properties above and what keeps them true. *)

\* Whoever is between lock() and unlock() holds the lock
LockInv == \A c \in Ctx : pc[c] \in {"split", "take", "merge"} <=> lock = c

LevelInv ==
  \A c \in Ctx : /\ pc[c] = "split" => req[c] < lvl[c]
                 /\ pc[c] = "merge" => lvl[c] <= ORDER_MAX

\* page->order tells the truth about the head of a block
HeadOrder ==
  /\ \A o \in Order : \A p \in free_pages[o] : order[p] = o
  /\ \A b \in live : order[b[1]] = ORDER_USED

\* A reference is to a block that is out, and whoever is about to release a
\* block is its only user
CallerInv ==
  /\ \A p \in Pfn : refs[p] > 0 => <<p, size[p]>> \in live
  /\ \A c \in Ctx : pc[c] = "free" =>
       /\ <<page[c], req[c]>> \in live
       /\ refs[page[c]] = 0
       /\ Pending(page[c]) = {c}

\* A frame bootmem has yet to release is INVALID, or being released
BootInv ==
  \A p \in boot : invalid[p] \/ \E c \in Ctx : pc[c] = "merge" /\ page[c] = p

IInv ==
  /\ TypeOK
  /\ LockInv
  /\ LevelInv
  /\ NoOverlap
  /\ NoFrameLost
  /\ HeadOrder
  /\ FreeCountsAgree
  /\ UseCountsAgree
  /\ CallerInv
  /\ BootInv

\* The critical sections end: the recursion of buddy_split_block() and the loop
\* of buddy_merge_block() terminate and unlock() follows on every path.
LockReleased == \A c \in Ctx : lock = c ~> lock # c

-----------------------------------------------------------------------------
(* What the allocator promises its callers: PageOwnership *)

Ownership == INSTANCE PageOwnership WITH
  Runs <- {Pages(b[1], b[2]) : b \in {x \in Blocks :
             Aligned(x[1], x[2]) /\ Pages(x[1], x[2]) \subseteq Usable}},
  Frames <- Usable,
  pool <- FramesOf(FreeBlocks \cup InFlight),
  held <- {Pages(b[1], b[2]) : b \in live}

\* Seen from outside, page_alloc(), page_free() and the release of frames at
\* boot only move runs of frames between a pool and their holders.
RefinesOwnership == Ownership!Spec

=============================================================================
