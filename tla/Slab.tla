-------------------------------- MODULE Slab --------------------------------
(***************************************************************************)
(* kmalloc() and the slab allocator: kernel/mm/kmalloc.c, kernel/mm/slab.c.*)
(*                                                                         *)
(* A slab is a block of pages: a header, then objects of one size.  A free *)
(* object holds the address of the next free one in its first word, and    *)
(* the free list is kept sorted by address.  Addresses are numbers; block  *)
(* k of the page allocator spans the addresses k * BlockSize up to         *)
(* (k + 1) * BlockSize - 1.  Nothing here takes a lock, so every store to  *)
(* shared memory is a step of its own.                                     *)
(***************************************************************************)
EXTENDS Integers, Sequences, FiniteSetsExt

CONSTANTS
  Ctx,        \* the execution contexts that call kmalloc() and kfree()
  Block,      \* the page blocks that page_alloc() may hand out, as numbers >= 1
  BlockSize,  \* PAGE_SIZE << SLAB_DEFAULT_ORDER
  HeaderSize, \* sizeof(slab_header_t)
  ObjectSize  \* slab_caches[i].object_size, an increasing sequence

NULL == 0

Cache == DOMAIN ObjectSize

ASSUME SlabConstants ==
  /\ Block \subseteq Nat \ {0} /\ IsFiniteSet(Block)
  /\ HeaderSize \in Nat \ {0} /\ BlockSize \in Nat \ {0}
  /\ ObjectSize \in Seq(Nat) /\ ObjectSize # <<>>
  /\ \A i \in Cache : ObjectSize[i] \in 1 .. BlockSize - HeaderSize
  /\ \A i, j \in Cache : i < j => ObjectSize[i] < ObjectSize[j]

start_addr(k) == k * BlockSize + HeaderSize
end_addr(k) == (k + 1) * BlockSize

\* Mutant: one object too many
CountRoundsUp(i) == (BlockSize - HeaderSize) \div ObjectSize[i] + 1

object_count(i) == (BlockSize - HeaderSize) \div ObjectSize[i]

\* The addresses of the objects of cache i in block k
Objects(i, k) == {start_addr(k) + n * ObjectSize[i] : n \in 0 .. object_count(i) - 1}

Addr == UNION {k * BlockSize .. (k + 1) * BlockSize - 1 : k \in Block}

VARIABLES
  slabs,       \* per cache: first_slab and the slabs linked behind it
  free_list,   \* per slab
  free_count,  \* per slab
  next,        \* the first word of each object: slab_object_empty.next
  held,        \* callers: how often each address is handed out
  pc,          \* where each context is
  cache,       \* its cache
  slab,        \* its slab (header, curr_slab), or 0
  obj,         \* its object (new_obj, object), or NULL
  at           \* slab_free(): the object whose next field curr_obj points to, or
               \* NULL when curr_obj points to the header's free_list

locals == <<cache, slab, obj, at>>
vars == <<slabs, free_list, free_count, next, held, pc, cache, slab, obj, at>>

Init ==
  /\ slabs = [i \in Cache |-> <<>>]
  /\ free_list = [k \in Block |-> NULL]
  /\ free_count = [k \in Block |-> 0]
  /\ next = [a \in Addr |-> NULL]
  /\ held = [a \in Addr |-> 0]
  /\ pc = [c \in Ctx |-> "idle"]
  /\ cache = [c \in Ctx |-> 1]
  /\ slab = [c \in Ctx |-> 0]
  /\ obj = [c \in Ctx |-> NULL]
  /\ at = [c \in Ctx |-> NULL]

Goto(c, l) == pc' = [pc EXCEPT ![c] = l]

Return(c) ==
  /\ Goto(c, "idle")
  /\ cache' = [cache EXCEPT ![c] = 1]
  /\ slab' = [slab EXCEPT ![c] = 0]
  /\ obj' = [obj EXCEPT ![c] = NULL]
  /\ at' = [at EXCEPT ![c] = NULL]

\* The blocks that no cache uses yet
Unused == Block \ UNION {Range(slabs[i]) : i \in Cache}

\* The first slab of a cache that satisfies a test, or 0
FirstSlab(i, Test(_)) ==
  LET J == {j \in DOMAIN slabs[i] : Test(slabs[i][j])}
  IN IF J = {} THEN 0 ELSE slabs[i][Min(J)]

-----------------------------------------------------------------------------
(* kmalloc() *)

Fits(i, size) == size <= ObjectSize[i]

\* The first cache whose objects are large enough; none: NULL at once
kmalloc(c, size) ==
  /\ pc[c] = "idle"
  /\ \E i \in Cache : /\ Fits(i, size) /\ \A j \in 1 .. i - 1 : ~Fits(j, size)
                      /\ cache' = [cache EXCEPT ![c] = i]
  /\ Goto(c, "search")
  /\ UNCHANGED <<slabs, free_list, free_count, next, held, slab, obj, at>>

\* Mutant: a slab with one free object counts as full
HasTwoFree(k) == free_count[k] > 1

HasFree(k) == free_count[k] > 0

\* slab_alloc_from_cache(), first from the slabs there are and then once more
\* after slab_add_cache_frame()
slab_alloc_from_cache(c) ==
  LET k == FirstSlab(cache[c], HasFree) IN
  /\ pc[c] \in {"search", "again"}
  /\ \/ /\ k # 0
        /\ slab' = [slab EXCEPT ![c] = k]
        /\ Goto(c, "first")
        /\ UNCHANGED <<cache, obj, at>>
     \/ k = 0 /\ pc[c] = "search" /\ Goto(c, "grow") /\ UNCHANGED locals
     \/ k = 0 /\ pc[c] = "again" /\ Return(c)
  /\ UNCHANGED <<slabs, free_list, free_count, next, held>>

\* slab_alloc_from_slab(): the first object of the free list ...
slab_alloc_first(c) ==
  /\ pc[c] = "first"
  /\ IF free_count[slab[c]] = 0 \/ free_list[slab[c]] = NULL
       THEN Return(c)
       ELSE /\ obj' = [obj EXCEPT ![c] = free_list[slab[c]]]
            /\ Goto(c, "pop")
            /\ UNCHANGED <<cache, slab, at>>
  /\ UNCHANGED <<slabs, free_list, free_count, next, held>>

\* Mutant: the object handed out stays at the front of the free list
PopKeepsFirst(c) ==
  /\ pc[c] = "pop"
  /\ Goto(c, "uncount")
  /\ UNCHANGED <<slabs, free_list, free_count, next, held, locals>>

\* ... is taken off the list ...
slab_alloc_pop(c) ==
  /\ pc[c] = "pop"
  /\ free_list' = [free_list EXCEPT ![slab[c]] = next[obj[c]]]
  /\ Goto(c, "uncount")
  /\ UNCHANGED <<slabs, free_count, next, held, locals>>

\* ... and goes to the caller, who overwrites it: NULL stands for whatever the
\* first word of an object in use holds.
slab_alloc_return(c) ==
  /\ pc[c] = "uncount"
  /\ free_count' = [free_count EXCEPT ![slab[c]] = @ - 1]
  /\ held' = [held EXCEPT ![obj[c]] = @ + 1]
  /\ next' = [next EXCEPT ![obj[c]] = NULL]
  /\ Return(c)
  /\ UNCHANGED <<slabs, free_list>>

\* page_alloc() returns NULL
slab_add_cache_frame_fail(c) ==
  /\ pc[c] = "grow"
  /\ Goto(c, "again")
  /\ UNCHANGED <<slabs, free_list, free_count, next, held, locals>>

\* Lay out a new slab, all its objects on its free list, and append it.
\* Interleaved with another context's, the stores to the cache's list could
\* also be lost; they are one step here.
slab_add_cache_frame(c) ==
  LET i == cache[c] IN
  /\ pc[c] = "grow"
  /\ \E k \in Unused :
       /\ slabs' = [slabs EXCEPT ![i] = Append(@, k)]
       /\ free_count' = [free_count EXCEPT ![k] = object_count(i)]
       /\ free_list' = [free_list EXCEPT ![k] = start_addr(k)]
       /\ next' = [a \in Addr |->
                     IF a \notin Objects(i, k) THEN next[a]
                     ELSE IF a + ObjectSize[i] \in Objects(i, k)
                          THEN a + ObjectSize[i] ELSE NULL]
  /\ Goto(c, "again")
  /\ UNCHANGED <<held, locals>>

-----------------------------------------------------------------------------
(* kfree() *)

\* slab_cache_has_addr()
slab_cache_has_addr(i, a) ==
  \E j \in DOMAIN slabs[i] : a >= start_addr(slabs[i][j]) /\ a < end_addr(slabs[i][j])

\* Mutant: the end of the range belongs to it
ClosedRange(k, a) == a >= start_addr(k) /\ a <= start_addr(k) + BlockSize

\* The range test of slab_free(), which ends one header beyond the slab
InSlab(k, a) == a >= start_addr(k) /\ a < start_addr(k) + BlockSize

\* kfree() looks for the cache, slab_free() for the slab; either may fail
kfree(c, a) ==
  LET I == {j \in Cache : slab_cache_has_addr(j, a)}
      i == Min(I)
      k == IF I = {} THEN 0 ELSE FirstSlab(i, LAMBDA s : InSlab(s, a))
  IN
  /\ pc[c] = "idle"
  /\ held[a] > 0
  /\ held' = [held EXCEPT ![a] = @ - 1]
  /\ IF k = 0 THEN UNCHANGED <<pc, locals>>
     ELSE /\ cache' = [cache EXCEPT ![c] = i]
          /\ slab' = [slab EXCEPT ![c] = k]
          /\ obj' = [obj EXCEPT ![c] = a]
          /\ Goto(c, "walk")
          /\ UNCHANGED at
  /\ UNCHANGED <<slabs, free_list, free_count, next>>

\* *curr_obj
Deref(c) == IF at[c] = NULL THEN free_list[slab[c]] ELSE next[at[c]]

\* The object lies behind this free object: go on to the next one
slab_free_walk(c) ==
  /\ pc[c] = "walk"
  /\ Deref(c) # NULL
  /\ obj[c] >= Deref(c)
  /\ at' = [at EXCEPT ![c] = Deref(c)]
  /\ UNCHANGED <<slabs, free_list, free_count, next, held, pc, cache, slab, obj>>

\* Mutant: *curr_obj is read after it was overwritten with the object itself
LinkAfterSplice(c) ==
  /\ pc[c] = "walk"
  /\ Deref(c) = NULL \/ obj[c] < Deref(c)
  /\ next' = [next EXCEPT ![obj[c]] = obj[c]]
  /\ Goto(c, "splice")
  /\ UNCHANGED <<slabs, free_list, free_count, held, locals>>

\* The place is found, or the list ends: new_free_obj->next = *curr_obj
slab_free_link(c) ==
  /\ pc[c] = "walk"
  /\ Deref(c) = NULL \/ obj[c] < Deref(c)
  /\ next' = [next EXCEPT ![obj[c]] = Deref(c)]
  /\ Goto(c, "splice")
  /\ UNCHANGED <<slabs, free_list, free_count, held, locals>>

\* *curr_obj = new_free_obj
slab_free_splice(c) ==
  /\ pc[c] = "splice"
  /\ IF at[c] = NULL
       THEN free_list' = [free_list EXCEPT ![slab[c]] = obj[c]] /\ UNCHANGED next
       ELSE next' = [next EXCEPT ![at[c]] = obj[c]] /\ UNCHANGED free_list
  /\ Goto(c, "count")
  /\ UNCHANGED <<slabs, free_count, held, locals>>

slab_free_count(c) ==
  /\ pc[c] = "count"
  /\ free_count' = [free_count EXCEPT ![slab[c]] = @ + 1]
  /\ Return(c)
  /\ UNCHANGED <<slabs, free_list, next, held>>

-----------------------------------------------------------------------------

Step(c) ==
  \/ slab_alloc_from_cache(c)
  \/ slab_alloc_first(c)
  \/ slab_alloc_pop(c)
  \/ slab_alloc_return(c)
  \/ slab_add_cache_frame_fail(c)
  \/ slab_add_cache_frame(c)
  \/ slab_free_walk(c)
  \/ slab_free_link(c)
  \/ slab_free_splice(c)
  \/ slab_free_count(c)

Call(c) ==
  \/ \E i \in Cache : kmalloc(c, ObjectSize[i])
  \/ \E a \in Addr : kfree(c, a)

Next == \E c \in Ctx : Step(c) \/ Call(c)

Spec == Init /\ [][Next]_vars

\* A call that has begun is carried on
FairSpec == Spec /\ \A c \in Ctx : WF_vars(Step(c))

-----------------------------------------------------------------------------
(* Properties *)

\* The pointer in each object; NULL leads nowhere
Pointers == [a \in Addr \cup {NULL} |-> IF a = NULL THEN NULL ELSE next[a]]

\* The objects met from the head of the free list of slab k
Free(k) ==
  LET walk[m \in 1 .. BlockSize] ==
        IF m = 1 THEN free_list[k] ELSE Pointers[walk[m - 1]]
  IN {walk[m] : m \in 1 .. BlockSize} \ {NULL}

\* Every variable has the type of the C object it stands for.
TypeOK ==
  /\ \A i \in Cache : slabs[i] \in Seq(Block)
  /\ free_list \in [Block -> Addr \cup {NULL}]
  /\ free_count \in [Block -> Nat]
  /\ next \in [Addr -> Addr \cup {NULL}]
  /\ held \in [Addr -> Nat]
  /\ pc \in [Ctx -> {"idle", "search", "again", "grow", "first", "pop", "uncount",
                     "walk", "splice", "count"}]
  /\ cache \in [Ctx -> Cache]
  /\ slab \in [Ctx -> Block \cup {0}]
  /\ obj \in [Ctx -> Addr \cup {NULL}]
  /\ at \in [Ctx -> Addr \cup {NULL}]

Quiet == \A c \in Ctx : pc[c] = "idle"

\* No byte is handed to two callers: an object has one holder at a time, it lies in
\* its slab behind the header, and objects do not overlap, whatever caches they come
\* from.
HandedOutOnce ==
  /\ \A a \in Addr : held[a] <= 1
  /\ \A i, j \in Cache : \A k \in Range(slabs[i]), m \in Range(slabs[j]) :
       \A a \in Objects(i, k), b \in Objects(j, m) :
         /\ a >= start_addr(k) /\ a + ObjectSize[i] <= end_addr(k)
         /\ a # b \/ i # j => a + ObjectSize[i] <= b \/ b + ObjectSize[j] <= a

\* Between calls the objects of a slab are either with a caller or on the slab's
\* own free list, which is sorted and as long as free_count says: kfree() finds the
\* slab an object came from although its address ranges reach one header into the
\* next block, and a slab that is said to have a free object has one.
NothingLost ==
  Quiet =>
    /\ \A i \in Cache : \A k \in Range(slabs[i]) :
         /\ {a \in Objects(i, k) : held[a] = 0} = Free(k)
         /\ \A a \in Free(k) : next[a] = NULL \/ next[a] > a
    /\ \A k \in Block : free_count[k] = Cardinality(Free(k))

\* kmalloc() fails only when no slab of the cache has a free object and the
\* page allocator refuses a block.
NullOnlyWhenFull ==
  [][\A c \in Ctx :
       pc[c] # "idle" /\ pc'[c] = "idle" /\ held' = held /\ free_count' = free_count
         => pc[c] = "again" /\ \A k \in Range(slabs[cache[c]]) : Free(k) = {}]_vars

\* kmalloc() and kfree() return: no free list runs in a circle.
CallsReturn == \A c \in Ctx : pc[c] # "idle" ~> pc[c] = "idle"

=============================================================================
