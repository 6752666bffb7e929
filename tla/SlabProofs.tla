----------------------------- MODULE SlabProofs -----------------------------
(***************************************************************************)
(* kmalloc() and kfree() on the slab allocator, called by one context:     *)
(* every object is with a caller or on the free list of its slab, for      *)
(* every block size, header size and choice of object sizes.               *)
(***************************************************************************)
EXTENDS Slab, FiniteSetTheorems, WellFoundedInduction, TLAPS

-----------------------------------------------------------------------------
(* Following pointers.  A walk goes from each node to the one its pointer *)
(* names; the nodes it meets before the node that ends it are the smallest *)
(* set that the pointers do not lead out of.  With that, what kmalloc()    *)
(* and kfree() do to a free list is a question about sets.                 *)

\* w holds the first n nodes met from h on, g[x] being the pointer in x
IsWalk(w, g, h, n) == w = [k \in 1 .. n |-> IF k = 1 THEN h ELSE g[w[k - 1]]]

\* The same, place by place
Follows(w, g, h, n) == /\ n >= 1 => w[1] = h
                       /\ \A k \in 1 .. n - 1 : w[k + 1] = g[w[k]]

\* The nodes of the walk before the first z
Reached(w, n, z) == {w[k] : k \in {i \in 1 .. n : \A j \in 1 .. i : w[j] # z}}

\* From h and from within S the pointers lead to S, or to the end z
Encloses(S, g, h, z) == h \in S \cup {z} /\ \A x \in S : g[x] \in S \cup {z}

\* A set of numbers that is not empty has a least member.
LEMMA LeastMember ==
  ASSUME NEW S, S \subseteq Nat, S # {}
  PROVE  \E m \in S : \A k \in S : m <= k
<1>1. PICK x \in S : \A y \in S : ~ (<<y, x>> \in OpToRel(<, Nat))
  BY WFMin, NatLessThanWellFounded, Zenon
<1>2. \A y \in S : ~ (y < x)
  BY <1>1, Zenon DEF OpToRel
<1>3. \A y \in S : x <= y
  BY <1>2
<1>4. QED BY <1>3

\* There is a walk of every length.
LEMMA WalkExists ==
  ASSUME NEW g, NEW h, NEW n \in Nat
  PROVE  \E w : IsWalk(w, g, h, n)
<1> DEFINE Bad == {m \in Nat : ~ \E w : IsWalk(w, g, h, m)}
<1>1. SUFFICES ASSUME Bad # {} PROVE FALSE
  OBVIOUS
<1>2. PICK m \in Bad : \A k \in Bad : m <= k
  <2>1. Bad \subseteq Nat
    OBVIOUS
  <2>2. QED BY <2>1, <1>1, LeastMember, Zenon
<1>3. m \in Nat /\ ~ \E w : IsWalk(w, g, h, m)
  BY <1>2
<1>4. CASE m = 0
  <2>1. IsWalk([k \in 1 .. 0 |-> h], g, h, 0)
    BY DEF IsWalk
  <2>2. QED BY <2>1, <1>3, <1>4
<1>5. CASE m # 0
  <2>1. m - 1 \in Nat /\ m - 1 \notin Bad
    BY <1>2, <1>3, <1>5
  <2>2. PICK w : IsWalk(w, g, h, m - 1)
    BY <2>1
  <2>3. \A k \in 1 .. m - 1 : w[k] = IF k = 1 THEN h ELSE g[w[k - 1]]
    BY <2>2, <1>3 DEF IsWalk
  <2> DEFINE e == [k \in 1 .. m |-> IF k = 1 THEN h ELSE g[w[k - 1]]]
  <2>4. \A k \in 1 .. m : k # 1 => k - 1 \in 1 .. m - 1 /\ k - 1 \in 1 .. m
    BY <1>3
  <2>5. \A k \in 1 .. m : k # 1 => e[k - 1] = w[k - 1]
    BY <2>3, <2>4
  <2>6. e = [k \in 1 .. m |-> IF k = 1 THEN h ELSE g[e[k - 1]]]
    BY <2>5, Zenon
  <2>7. IsWalk(e, g, h, m)
    BY <2>6, Zenon DEF IsWalk
  <2>8. QED BY <2>7, <1>3
<1>6. QED BY <1>4, <1>5

\* A walk, place by place.
LEMMA WalkSteps ==
  ASSUME NEW g, NEW h, NEW n \in Nat, NEW w, IsWalk(w, g, h, n)
  PROVE  Follows(w, g, h, n)
<1>1. \A k \in 1 .. n : w[k] = IF k = 1 THEN h ELSE g[w[k - 1]]
  BY DEF IsWalk
<1>2. \A k \in 1 .. n - 1 : k + 1 \in 1 .. n /\ k + 1 # 1 /\ (k + 1) - 1 = k
  OBVIOUS
<1>3. QED BY <1>1, <1>2 DEF Follows

\* The nodes reached lie in every set the pointers do not lead out of.
LEMMA ReachedLeast ==
  ASSUME NEW g, NEW h, NEW z, NEW n \in Nat, NEW w, IsWalk(w, g, h, n),
         NEW S, Encloses(S, g, h, z)
  PROVE  Reached(w, n, z) \subseteq S
<1>0. Follows(w, g, h, n)
  BY WalkSteps
<1> DEFINE Bad == {k \in 1 .. n : (\A j \in 1 .. k : w[j] # z) /\ w[k] \notin S}
<1>1. SUFFICES ASSUME Bad # {} PROVE FALSE
  BY DEF Reached
<1>2. PICK m \in Bad : \A k \in Bad : m <= k
  <2>1. Bad \subseteq Nat
    OBVIOUS
  <2>2. QED BY <2>1, <1>1, LeastMember, Zenon
<1>3. /\ m \in 1 .. n /\ w[m] \notin S
      /\ \A j \in 1 .. m : w[j] # z
  BY <1>2
<1>4. w[m] # z
  BY <1>3
<1>5. CASE m = 1
  <2>1. w[1] = h
    BY <1>0, <1>3 DEF Follows
  <2>2. QED BY <2>1, <1>3, <1>4, <1>5 DEF Encloses
<1>6. CASE m # 1
  <2>1. m - 1 \in 1 .. n - 1 /\ m - 1 \in 1 .. n /\ (m - 1) + 1 = m
    BY <1>3, <1>6
  <2>2. \A j \in 1 .. m - 1 : w[j] # z
    BY <1>3
  <2>3. w[m - 1] \in S
    BY <2>1, <2>2, <1>2
  <2>4. w[m] = g[w[m - 1]]
    BY <2>1, <1>0 DEF Follows
  <2>5. QED BY <2>3, <2>4, <1>3, <1>4 DEF Encloses
<1>7. QED BY <1>5, <1>6

\* Where a walk meets a node again it goes on as before.
LEMMA WalkRepeats ==
  ASSUME NEW g, NEW h, NEW n \in Nat, NEW w, IsWalk(w, g, h, n),
         NEW i \in 1 .. n, NEW j \in 1 .. n, i < j, w[i] = w[j]
  PROVE  \A d \in 0 .. n - j : w[i + d] = w[j + d]
<1>0. Follows(w, g, h, n)
  BY WalkSteps
<1> DEFINE Bad == {e \in 0 .. n - j : w[i + e] # w[j + e]}
<1>1. SUFFICES ASSUME Bad # {} PROVE FALSE
  OBVIOUS
<1>2. PICK m \in Bad : \A k \in Bad : m <= k
  <2>1. Bad \subseteq Nat
    OBVIOUS
  <2>2. QED BY <2>1, <1>1, LeastMember, Zenon
<1>3. m \in 0 .. n - j /\ w[i + m] # w[j + m]
  BY <1>2
<1>4. m # 0
  BY <1>3
<1>5. m - 1 \in 0 .. n - j /\ w[i + (m - 1)] = w[j + (m - 1)]
  BY <1>2, <1>3, <1>4
<1>6. /\ i + (m - 1) \in 1 .. n - 1 /\ (i + (m - 1)) + 1 = i + m
      /\ j + (m - 1) \in 1 .. n - 1 /\ (j + (m - 1)) + 1 = j + m
  BY <1>3, <1>4
<1>7. w[i + m] = g[w[i + (m - 1)]] /\ w[j + m] = g[w[j + (m - 1)]]
  BY <1>6, <1>0 DEF Follows
<1>8. QED BY <1>3, <1>5, <1>7

\* The pointers do not lead out of the nodes reached, if the walk is as long as
\* the set of nodes it can meet is large.
LEMMA ReachedEncloses ==
  ASSUME NEW g, NEW h, NEW z, NEW n \in Nat, NEW w, IsWalk(w, g, h, n),
         NEW T, IsFiniteSet(T), Cardinality(T) < n, Encloses(T, g, h, z)
  PROVE  Encloses(Reached(w, n, z), g, h, z)
<1>0. Follows(w, g, h, n)
  BY WalkSteps
<1> DEFINE R == Reached(w, n, z)
<1>1. Cardinality(T) \in Nat /\ 1 \in 1 .. n
  BY FS_CardinalityType
<1>2. h \in R \cup {z}
  <2>1. w[1] = h /\ \A j \in 1 .. 1 : j = 1
    BY <1>0, <1>1 DEF Follows
  <2>2. w[1] # z => w[1] \in R
    BY <1>1, <2>1 DEF Reached
  <2>3. QED BY <2>1, <2>2
<1>3. ASSUME NEW x \in R
      PROVE  g[x] \in R \cup {z}
  <2>1. PICK k \in 1 .. n : x = w[k] /\ \A j \in 1 .. k : w[j] # z
    BY DEF Reached
  <2>2. ASSUME NEW i \in 1 .. n - 1, x = w[i], \A j \in 1 .. i : w[j] # z
        PROVE  g[x] \in R \cup {z}
    <3>1. w[i + 1] = g[x] /\ i + 1 \in 1 .. n
      BY <2>2, <1>0 DEF Follows
    <3>2. w[i + 1] # z => \A j \in 1 .. i + 1 : w[j] # z
      BY <2>2
    <3>3. QED BY <3>1, <3>2 DEF Reached
  <2>3. CASE k < n
    BY <2>1, <2>2, <2>3
  <2>4. CASE k = n
    <3>1. \A j \in 1 .. n : w[j] \in T
      <4>1. \A j \in 1 .. n : w[j] \in R
        <5>1. \A j \in 1 .. n : \A i \in 1 .. j : w[i] # z
          BY <2>1, <2>4
        <5>2. QED BY <5>1 DEF Reached
      <4>2. QED BY <4>1, ReachedLeast
    <3>3. IsFiniteSet(1 .. n) /\ Cardinality(1 .. n) = n
      BY FS_Interval, <1>1
    <3>4. \E i, j \in 1 .. n : i # j /\ w[i] = w[j]
      <4> DEFINE f == [j \in 1 .. n |-> w[j]]
      <4>1. \A i \in 1 .. n : f[i] = w[i]
        OBVIOUS
      <4>2. f \in [1 .. n -> T]
        BY <3>1
      <4> HIDE DEF f
      <4>3. \E i, j \in 1 .. n : i # j /\ f[i] = f[j]
        BY <4>2, <3>3, FS_PigeonHole
      <4>4. QED BY <4>1, <4>3
    <3>5. PICK i \in 1 .. n, j \in 1 .. n : i < j /\ w[i] = w[j]
      BY <3>4
    <3>6. n - j \in 0 .. n - j /\ j + (n - j) = n /\ i + (n - j) \in 1 .. n - 1
      BY <3>5
    <3>7. w[i + (n - j)] = w[n]
      <4>1. \A d \in 0 .. n - j : w[i + d] = w[j + d]
        BY <3>5, WalkRepeats
      <4>2. QED BY <4>1, <3>6
    <3>8. \A e \in 1 .. i + (n - j) : w[e] # z
      BY <2>1, <2>4, <3>6
    <3>9. QED BY <3>6, <3>7, <3>8, <2>1, <2>2, <2>4
  <2>5. QED BY <2>1, <2>3, <2>4
<1>4. QED BY <1>2, <1>3 DEF Encloses

\* If the end leads to itself, the nodes reached are all that are met except it.
LEMMA ReachedAll ==
  ASSUME NEW g, NEW h, NEW z, NEW n \in Nat, NEW w, IsWalk(w, g, h, n), g[z] = z
  PROVE  {w[k] : k \in 1 .. n} \ {z} = Reached(w, n, z)
<1>0. Follows(w, g, h, n)
  BY WalkSteps
<1>1. ASSUME NEW k \in 1 .. n, w[k] # z, NEW j \in 1 .. k, w[j] = z
      PROVE  FALSE
  <2> DEFINE Bad == {d \in 0 .. k - j : w[j + d] # z}
  <2>1. Bad \subseteq Nat /\ Bad # {}
    <3>1. k - j \in 0 .. k - j /\ j + (k - j) = k
      OBVIOUS
    <3>2. QED BY <1>1, <3>1
  <2>2. PICK m \in Bad : \A d \in Bad : m <= d
    BY <2>1, LeastMember, Zenon
  <2>3. m \in 0 .. k - j /\ w[j + m] # z /\ m # 0
    BY <1>1, <2>2
  <2>4. m - 1 \in 0 .. k - j /\ w[j + (m - 1)] = z
    BY <2>2, <2>3
  <2>5. j + (m - 1) \in 1 .. n - 1 /\ (j + (m - 1)) + 1 = j + m
    BY <2>3
  <2>6. w[j + m] = g[w[j + (m - 1)]]
    BY <1>0, <2>5 DEF Follows
  <2>7. QED BY <2>3, <2>4, <2>6
<1>2. \A k \in 1 .. n : w[k] # z => \A j \in 1 .. k : w[j] # z
  BY <1>1
<1>3. QED BY <1>2 DEF Reached

-----------------------------------------------------------------------------
(* Where objects lie *)

\* The part of block k behind the header
Span(k) == start_addr(k) .. end_addr(k) - 1

\* A count that goes up or down changes, and one of which nothing is ahead is exact.
LEMMA CountMoves ==
  /\ \A n \in Nat : n - 1 # n /\ n + 1 # n
  /\ \A n \in Nat : 0 = n + 0 => n = 0
OBVIOUS

\* A product grows by the factor.
LEMMA ProductStep ==
  ASSUME NEW m \in Nat, NEW n \in Nat, NEW s \in Nat, m < n
  PROVE  m * s \in Nat /\ n * s \in Nat /\ m * s + s <= n * s
<1>1. PICK d \in Nat : n = m + 1 + d
  <2>1. n - m - 1 \in Nat /\ n = m + 1 + (n - m - 1)
    OBVIOUS
  <2>2. QED BY <2>1
<1>2. n * s = m * s + s + d * s
  BY <1>1
<1>3. d * s \in Nat /\ m * s \in Nat
  OBVIOUS
<1>4. QED BY <1>2, <1>3

\* The quotient times the divisor fits.
LEMMA QuotientFits ==
  ASSUME NEW n \in Nat, NEW s \in 1 .. n
  PROVE  n \div s \in Nat /\ n \div s >= 1 /\ (n \div s) * s <= n
OBVIOUS

\* Each cache has at least one object per slab, and they fit.
LEMMA CountFits ==
  ASSUME NEW i \in Cache
  PROVE  /\ ObjectSize[i] \in Nat /\ ObjectSize[i] >= 1
         /\ object_count(i) \in Nat /\ object_count(i) >= 1
         /\ object_count(i) * ObjectSize[i] <= BlockSize - HeaderSize
<1>1. /\ ObjectSize[i] \in 1 .. BlockSize - HeaderSize
      /\ HeaderSize \in Nat /\ BlockSize \in Nat
  BY SlabConstants
<1>2. BlockSize - HeaderSize \in Nat
  BY <1>1
<1>3. QED BY <1>1, <1>2, QuotientFits DEF object_count

\* Where a block begins and ends.
LEMMA BlockBounds ==
  ASSUME NEW k \in Block
  PROVE  /\ k \in Nat /\ k >= 1 /\ k * BlockSize \in Nat
         /\ (k + 1) * BlockSize = k * BlockSize + BlockSize
         /\ start_addr(k) \in Nat /\ end_addr(k) \in Nat /\ start_addr(k) > 0
         /\ start_addr(k) = k * BlockSize + HeaderSize
         /\ end_addr(k) = k * BlockSize + BlockSize
         /\ k * BlockSize .. (k + 1) * BlockSize - 1 \subseteq Addr
         /\ Span(k) \subseteq Addr
<1>1. k \in Nat /\ k >= 1 /\ HeaderSize \in Nat \ {0} /\ BlockSize \in Nat \ {0}
  BY SlabConstants
<1>2. /\ (k + 1) * BlockSize = k * BlockSize + BlockSize /\ k * BlockSize \in Nat
      /\ (k + 1) * BlockSize \in Nat
  BY <1>1
<1>3. k * BlockSize .. (k + 1) * BlockSize - 1 \subseteq Addr
  BY DEF Addr
<1>4. QED BY <1>1, <1>2, <1>3 DEF start_addr, end_addr, Span

\* Blocks do not overlap.
LEMMA BlocksApart ==
  ASSUME NEW k \in Block, NEW m \in Block, k < m
  PROVE  end_addr(k) <= m * BlockSize /\ end_addr(k) < start_addr(m)
<1>1. k \in Nat /\ m \in Nat /\ BlockSize \in Nat /\ HeaderSize \in Nat \ {0}
  BY SlabConstants
<1>2. k * BlockSize + BlockSize <= m * BlockSize /\ m * BlockSize \in Nat
  BY <1>1, ProductStep
<1>3. QED BY <1>1, <1>2, BlockBounds

\* No address of a slab is NULL or in another slab.
LEMMA SpansApart ==
  ASSUME NEW k \in Block, NEW m \in Block, k # m
  PROVE  Span(k) \cap Span(m) = {}
<1>1. k \in Nat /\ m \in Nat
  BY SlabConstants
<1>2. CASE k < m
  BY <1>2, BlocksApart, BlockBounds DEF Span
<1>3. CASE m < k
  BY <1>3, BlocksApart, BlockBounds DEF Span
<1>4. QED BY <1>1, <1>2, <1>3

\* NULL is not the address of anything.
LEMMA AddrFacts ==
  /\ Addr \subseteq Nat /\ NULL \notin Addr /\ 0 \notin Block
<1>1. ASSUME NEW a \in Addr PROVE a \in Nat /\ a # NULL
  <2>1. PICK k \in Block : a \in k * BlockSize .. (k + 1) * BlockSize - 1
    BY DEF Addr
  <2>2. k * BlockSize \in Nat /\ k * BlockSize > 0
    <3>1. k \in Nat /\ k >= 1 /\ BlockSize \in Nat /\ BlockSize >= 1
      BY SlabConstants
    <3>2. 0 * BlockSize + BlockSize <= k * BlockSize /\ k * BlockSize \in Nat
      BY <3>1, ProductStep
    <3>3. QED BY <3>1, <3>2
  <2>3. QED BY <2>1, <2>2, BlockBounds DEF NULL
<1>2. 0 \notin Block
  BY SlabConstants
<1>3. QED BY <1>1, <1>2

\* An object lies behind the header and ends within its block.
LEMMA ObjectInSpan ==
  ASSUME NEW i \in Cache, NEW k \in Block, NEW a \in Objects(i, k)
  PROVE  /\ a \in Span(k) /\ a \in Addr /\ a \in Nat /\ a # NULL
         /\ a >= start_addr(k) /\ a + ObjectSize[i] <= end_addr(k)
<1>1. PICK n \in 0 .. object_count(i) - 1 : a = start_addr(k) + n * ObjectSize[i]
  BY DEF Objects
<1>2. /\ ObjectSize[i] \in Nat /\ ObjectSize[i] >= 1
      /\ object_count(i) \in Nat
      /\ object_count(i) * ObjectSize[i] <= BlockSize - HeaderSize
  BY CountFits
<1>3. /\ n * ObjectSize[i] \in Nat
      /\ n * ObjectSize[i] + ObjectSize[i] <= object_count(i) * ObjectSize[i]
      /\ object_count(i) * ObjectSize[i] \in Nat
  <2>1. n \in Nat /\ n < object_count(i)
    BY <1>2
  <2>2. QED BY <1>2, <2>1, ProductStep
<1>4. HeaderSize \in Nat /\ BlockSize \in Nat
  BY SlabConstants
<1>5. /\ start_addr(k) \in Nat /\ end_addr(k) \in Nat /\ k * BlockSize \in Nat
      /\ start_addr(k) = k * BlockSize + HeaderSize
      /\ end_addr(k) = k * BlockSize + BlockSize
      /\ Span(k) \subseteq Addr
  BY BlockBounds
<1>6. a \in Nat /\ a >= start_addr(k) /\ a + ObjectSize[i] <= end_addr(k)
  BY <1>1, <1>2, <1>3, <1>4, <1>5
<1>7. a \in Span(k)
  BY <1>2, <1>5, <1>6 DEF Span
<1>8. QED BY <1>5, <1>6, <1>7, AddrFacts

\* Objects of one slab do not overlap.
LEMMA ObjectsApart ==
  ASSUME NEW i \in Cache, NEW k \in Block, NEW a \in Objects(i, k), NEW b \in Objects(i, k),
         a # b
  PROVE  a + ObjectSize[i] <= b \/ b + ObjectSize[i] <= a
<1>1. PICK m \in 0 .. object_count(i) - 1 : a = start_addr(k) + m * ObjectSize[i]
  BY DEF Objects
<1>2. PICK n \in 0 .. object_count(i) - 1 : b = start_addr(k) + n * ObjectSize[i]
  BY DEF Objects
<1>3. ObjectSize[i] \in Nat /\ m \in Nat /\ n \in Nat /\ m # n /\ start_addr(k) \in Nat
  BY <1>1, <1>2, CountFits, BlockBounds
<1>4. CASE m < n
  <2>1. /\ m * ObjectSize[i] \in Nat /\ n * ObjectSize[i] \in Nat
        /\ m * ObjectSize[i] + ObjectSize[i] <= n * ObjectSize[i]
    BY <1>3, <1>4, ProductStep
  <2>2. QED BY <1>1, <1>2, <1>3, <2>1
<1>5. CASE n < m
  <2>1. /\ m * ObjectSize[i] \in Nat /\ n * ObjectSize[i] \in Nat
        /\ n * ObjectSize[i] + ObjectSize[i] <= m * ObjectSize[i]
    BY <1>3, <1>5, ProductStep
  <2>2. QED BY <1>1, <1>2, <1>3, <2>1
<1>6. QED BY <1>3, <1>4, <1>5

\* A slab has fewer addresses than its block.
LEMMA SpanSmall ==
  ASSUME NEW k \in Block, NEW F, F \subseteq Span(k)
  PROVE  IsFiniteSet(F) /\ Cardinality(F) \in Nat /\ Cardinality(F) < BlockSize
<1>1. /\ start_addr(k) \in Nat /\ end_addr(k) \in Nat /\ k * BlockSize \in Nat
      /\ start_addr(k) = k * BlockSize + HeaderSize
      /\ end_addr(k) = k * BlockSize + BlockSize
      /\ HeaderSize \in Nat \ {0} /\ BlockSize \in Nat \ {0}
  BY BlockBounds, SlabConstants
<1>2. /\ IsFiniteSet(Span(k))
      /\ Cardinality(Span(k)) = IF start_addr(k) > end_addr(k) - 1 THEN 0
                                ELSE (end_addr(k) - 1) - start_addr(k) + 1
  <2>1. start_addr(k) \in Int /\ end_addr(k) - 1 \in Int
    BY <1>1
  <2> DEFINE b == end_addr(k) - 1
  <2>2. b \in Int /\ Span(k) = start_addr(k) .. b
    BY <2>1 DEF Span
  <2> HIDE DEF b
  <2>3. /\ IsFiniteSet(start_addr(k) .. b)
        /\ Cardinality(start_addr(k) .. b) = IF start_addr(k) > b THEN 0
                                            ELSE b - start_addr(k) + 1
    BY <2>1, <2>2, FS_Interval
  <2>4. QED BY <2>2, <2>3 DEF b
<1>3. Cardinality(Span(k)) < BlockSize
  BY <1>1, <1>2
<1>4. F \in SUBSET Span(k)
  OBVIOUS
<1>5. /\ IsFiniteSet(F) /\ Cardinality(F) <= Cardinality(Span(k))
      /\ Cardinality(F) \in Nat /\ Cardinality(Span(k)) \in Nat
  BY <1>2, <1>4, FS_Subset, FS_CardinalityType
<1>6. QED BY <1>1, <1>3, <1>5

\* A new slab holds as many objects as its free_count says.
LEMMA ObjectsCounted ==
  ASSUME NEW i \in Cache, NEW k \in Block
  PROVE  Cardinality(Objects(i, k)) = object_count(i)
<1> DEFINE N == object_count(i)
           f == [n \in 1 .. N |-> start_addr(k) + (n - 1) * ObjectSize[i]]
<1>1. N \in Nat /\ ObjectSize[i] \in Nat /\ ObjectSize[i] >= 1 /\ start_addr(k) \in Nat
  BY CountFits, BlockBounds
<1>2. f \in [1 .. N -> Objects(i, k)]
  <2>1. ASSUME NEW n \in 1 .. N PROVE f[n] \in Objects(i, k)
    <3>1. n - 1 \in 0 .. N - 1
      BY <1>1
    <3>2. QED BY <3>1 DEF Objects
  <2>2. QED BY <2>1
<1>3. ASSUME NEW m \in 1 .. N, NEW n \in 1 .. N, f[m] = f[n], m < n PROVE FALSE
  <2>1. m - 1 \in Nat /\ n - 1 \in Nat /\ m - 1 < n - 1
    BY <1>1, <1>3
  <2>2. /\ (m - 1) * ObjectSize[i] \in Nat /\ (n - 1) * ObjectSize[i] \in Nat
        /\ (m - 1) * ObjectSize[i] + ObjectSize[i] <= (n - 1) * ObjectSize[i]
    BY <1>1, <2>1, ProductStep
  <2>3. f[m] = start_addr(k) + (m - 1) * ObjectSize[i] /\ f[n] = start_addr(k) + (n - 1) * ObjectSize[i]
    OBVIOUS
  <2>4. QED BY <1>1, <1>3, <2>2, <2>3
<1>4. \A a \in Objects(i, k) : \E n \in 1 .. N : f[n] = a
  <2>1. ASSUME NEW a \in Objects(i, k) PROVE \E n \in 1 .. N : f[n] = a
    <3>1. PICK n \in 0 .. N - 1 : a = start_addr(k) + n * ObjectSize[i]
      BY DEF Objects
    <3>2. n + 1 \in 1 .. N /\ (n + 1) - 1 = n
      BY <1>1
    <3>3. f[n + 1] = a
      BY <3>1, <3>2
    <3>4. QED BY <3>2, <3>3
  <2>2. QED BY <2>1
<1>5. \A m, n \in 1 .. N : f[m] = f[n] => m = n
  <2>1. \A m, n \in 1 .. N : m < n \/ n < m \/ m = n
    BY <1>1
  <2> HIDE DEF f
  <2>2. QED BY <1>3, <2>1
<1> HIDE DEF f, N
<1>6. f \in Bijection(1 .. N, Objects(i, k))
  <2>1. DOMAIN f = 1 .. N
    BY <1>2
  <2>2. QED BY <1>2, <1>4, <1>5, <2>1 DEF Bijection, Injection, Surjection, IsInjective
<1>7. ExistsBijection(1 .. N, Objects(i, k))
  BY <1>6 DEF ExistsBijection
<1>8. Cardinality(Objects(i, k)) = N
  BY <1>1, <1>7, FS_CountingElements
<1>9. QED BY <1>8 DEF N

-----------------------------------------------------------------------------
(* The free list as a set *)

\* F is what the list from h on holds: the smallest set that its pointers nx do
\* not lead out of, except to NULL.
IsFree(F, nx, h) ==
  /\ F \subseteq Addr /\ Encloses(F, nx, h, NULL)
  /\ \A S \in SUBSET Addr : Encloses(S, nx, h, NULL) => F \subseteq S

\* The list is sorted by address.
Ordered(F, nx) == \A a \in F : nx[a] = NULL \/ nx[a] > a

\* Free, as a function of the pointers
PointersOf(nx) == [a \in Addr \cup {NULL} |-> IF a = NULL THEN NULL ELSE nx[a]]

FreeWalk(nx, h) ==
  CHOOSE walk : walk = [m \in 1 .. BlockSize |->
                          IF m = 1 THEN h ELSE PointersOf(nx)[walk[m - 1]]]

FreeBy(nx, h) == {FreeWalk(nx, h)[m] : m \in 1 .. BlockSize} \ {NULL}

\* Free is determined by the pointers.
LEMMA FreeByNext ==
  ASSUME NEW k
  PROVE  Free(k) = FreeBy(next, free_list[k])
BY DEF Free, FreeBy, FreeWalk, Pointers, PointersOf

\* What is met from the head on is the smallest enclosing set, if that is smaller
\* than a block.
LEMMA FreeIs ==
  ASSUME NEW nx, NEW h, NEW F, IsFree(F, nx, h),
         IsFiniteSet(F), Cardinality(F) < BlockSize
  PROVE  FreeBy(nx, h) = F
<1> DEFINE g == PointersOf(nx)
           w == FreeWalk(nx, h)
           R == Reached(w, BlockSize, NULL)
<1>0. BlockSize \in Nat
  BY SlabConstants
<1>1. IsWalk(w, g, h, BlockSize)
  <2>1. \E v : IsWalk(v, g, h, BlockSize)
    <3> HIDE DEF g
    <3>1. QED BY <1>0, WalkExists
  <2>2. \E v : v = [m \in 1 .. BlockSize |-> IF m = 1 THEN h ELSE PointersOf(nx)[v[m - 1]]]
    BY <2>1, Zenon DEF IsWalk
  <2>3. QED BY <2>2, Zenon DEF FreeWalk, IsWalk
<1>2. g[NULL] = NULL /\ \A a \in Addr : g[a] = nx[a]
  BY AddrFacts DEF PointersOf
<1>3. \A S \in SUBSET Addr : Encloses(S, g, h, NULL) <=> Encloses(S, nx, h, NULL)
  <2> HIDE DEF g
  <2>1. QED BY <1>2 DEF Encloses
<1>4. FreeBy(nx, h) = R
  <2>1. FreeBy(nx, h) = {w[m] : m \in 1 .. BlockSize} \ {NULL}
    BY DEF FreeBy
  <2> HIDE DEF g, w
  <2>2. {w[m] : m \in 1 .. BlockSize} \ {NULL} = Reached(w, BlockSize, NULL)
    BY <1>0, <1>1, <1>2, ReachedAll
  <2>3. QED BY <2>1, <2>2
<1> HIDE DEF g, w
<1>5. Encloses(F, g, h, NULL) /\ F \subseteq Addr
  BY <1>3 DEF IsFree
<1>6. Reached(w, BlockSize, NULL) \subseteq F
  BY <1>0, <1>1, <1>5, ReachedLeast
<1>7. Encloses(Reached(w, BlockSize, NULL), g, h, NULL)
  BY <1>0, <1>1, <1>5, ReachedEncloses
<1>8. F \subseteq Reached(w, BlockSize, NULL)
  <2>1. Reached(w, BlockSize, NULL) \in SUBSET Addr
    BY <1>5, <1>6
  <2>2. Encloses(Reached(w, BlockSize, NULL), nx, h, NULL)
    BY <1>3, <1>7, <2>1
  <2>3. QED BY <2>1, <2>2 DEF IsFree
<1>9. QED BY <1>4, <1>6, <1>8

\* A store elsewhere does not change the list.
LEMMA SameFree ==
  ASSUME NEW F, NEW nx, NEW mx, NEW h, IsFree(F, nx, h), Ordered(F, nx),
         \A a \in F : mx[a] = nx[a]
  PROVE  IsFree(F, mx, h) /\ Ordered(F, mx)
<1>1. Encloses(F, mx, h, NULL) /\ Ordered(F, mx) /\ F \subseteq Addr
  BY DEF IsFree, Encloses, Ordered
<1>2. ASSUME NEW S \in SUBSET Addr, Encloses(S, mx, h, NULL)
      PROVE  F \subseteq S
  <2>1. Encloses(S \cap F, nx, h, NULL)
    BY <1>2 DEF IsFree, Encloses
  <2>2. S \cap F \in SUBSET Addr
    OBVIOUS
  <2>3. F \subseteq S \cap F
    BY <2>1, <2>2 DEF IsFree
  <2>4. QED BY <2>3
<1>3. QED BY <1>1, <1>2 DEF IsFree

\* The list is empty if its head is NULL, and only then.
LEMMA EmptyFree ==
  ASSUME NEW F, NEW nx, NEW h, IsFree(F, nx, h)
  PROVE  /\ F = {} <=> h = NULL
         /\ h # NULL => h \in F
<1>1. h = NULL => F = {}
  <2>1. Encloses({}, nx, NULL, NULL) /\ {} \in SUBSET Addr
    BY DEF Encloses
  <2>2. QED BY <2>1 DEF IsFree
<1>2. h # NULL => h \in F
  BY DEF IsFree, Encloses
<1>3. QED BY <1>1, <1>2

\* The head of a sorted list is its first object.
LEMMA HeadLeast ==
  ASSUME NEW F, NEW nx, NEW h \in Addr, IsFree(F, nx, h), Ordered(F, nx)
  PROVE  \A a \in F : h <= a
<1> DEFINE S == {a \in F : h <= a}
<1>1. h \in Nat /\ h # NULL /\ h \in F /\ F \subseteq Nat /\ F \subseteq Addr
  BY AddrFacts, EmptyFree, Zenon DEF IsFree
<1>2. Encloses(S, nx, h, NULL)
  <2>1. h \in S
    BY <1>1
  <2>2. ASSUME NEW a \in S PROVE nx[a] \in S \cup {NULL}
    <3>1. nx[a] \in F \cup {NULL} /\ (nx[a] = NULL \/ nx[a] > a)
      BY DEF IsFree, Encloses, Ordered
    <3>2. a \in Nat /\ h <= a /\ (nx[a] # NULL => nx[a] \in F /\ nx[a] \in Nat)
      BY <1>1, <3>1, Zenon
    <3>3. nx[a] # NULL => h <= nx[a]
      BY <1>1, <3>1, <3>2
    <3>4. QED BY <3>2, <3>3
  <2> HIDE DEF S
  <2>3. QED BY <2>1, <2>2 DEF Encloses
<1>3. F \subseteq S
  <2>1. S \in SUBSET Addr
    BY <1>1, Zenon
  <2> HIDE DEF S
  <2>2. QED BY <1>2, <2>1 DEF IsFree
<1>4. QED BY <1>3

\* Taking the first object off the list.
LEMMA PopFree ==
  ASSUME NEW F, NEW nx, NEW h \in Addr, IsFree(F, nx, h), Ordered(F, nx)
  PROVE  IsFree(F \ {h}, nx, nx[h]) /\ Ordered(F \ {h}, nx)
<1>1. /\ \A a \in F : h <= a
      /\ h \in Nat /\ h # NULL /\ h \in F /\ F \subseteq Nat /\ F \subseteq Addr
  BY HeadLeast, AddrFacts, EmptyFree, Zenon DEF IsFree
<1>2. \A a \in F : nx[a] \in (F \ {h}) \cup {NULL}
  <2>1. ASSUME NEW a \in F PROVE nx[a] \in (F \ {h}) \cup {NULL}
    <3>1. nx[a] \in F \cup {NULL} /\ (nx[a] = NULL \/ nx[a] > a)
      BY DEF IsFree, Encloses, Ordered
    <3>2. QED BY <1>1, <3>1
  <2>2. QED BY <2>1
<1>3. Encloses(F \ {h}, nx, nx[h], NULL) /\ Ordered(F \ {h}, nx)
  BY <1>1, <1>2 DEF Encloses, Ordered
<1>4. ASSUME NEW S \in SUBSET Addr, Encloses(S, nx, nx[h], NULL)
      PROVE  F \ {h} \subseteq S
  <2>1. Encloses(S \cup {h}, nx, h, NULL) /\ S \cup {h} \in SUBSET Addr
    BY <1>4 DEF Encloses
  <2>2. F \subseteq S \cup {h}
    BY <2>1 DEF IsFree
  <2>3. QED BY <2>2
<1>5. QED BY <1>1, <1>3, <1>4 DEF IsFree

\* Putting an object before the first.
LEMMA InsertHead ==
  ASSUME NEW F, NEW nx, NEW h, NEW a \in Addr, IsFree(F, nx, h), Ordered(F, nx),
         nx[a] = h, h = NULL \/ a < h
  PROVE  IsFree(F \cup {a}, nx, a) /\ Ordered(F \cup {a}, nx)
<1>1. Encloses(F \cup {a}, nx, a, NULL)
  BY DEF IsFree, Encloses
<1>2. Ordered(F \cup {a}, nx)
  <2>1. a \in Nat /\ (h = NULL \/ h \in Nat)
    <3>1. h \in F \cup {NULL} /\ F \subseteq Addr
      BY DEF IsFree, Encloses
    <3>2. QED BY <3>1, AddrFacts
  <2>2. QED BY <2>1 DEF Ordered
<1>3. ASSUME NEW S \in SUBSET Addr, Encloses(S, nx, a, NULL)
      PROVE  F \cup {a} \subseteq S
  <2>1. a \in S
    BY <1>3, AddrFacts DEF Encloses
  <2>2. Encloses(S, nx, h, NULL)
    BY <1>3, <2>1 DEF Encloses
  <2>3. QED BY <2>1, <2>2 DEF IsFree
<1>4. QED BY <1>1, <1>2, <1>3 DEF IsFree

\* Putting an object behind another.
LEMMA InsertAfter ==
  ASSUME NEW F, NEW nx \in [Addr -> Addr \cup {NULL}], NEW h, NEW a \in Addr, NEW b \in F,
         IsFree(F, nx, h), Ordered(F, nx), a \notin F,
         nx[a] = nx[b], b < a, nx[b] = NULL \/ a < nx[b]
  PROVE  LET mx == [nx EXCEPT ![b] = a]
         IN IsFree(F \cup {a}, mx, h) /\ Ordered(F \cup {a}, mx)
<1> DEFINE mx == [nx EXCEPT ![b] = a]
<1>1. F \subseteq Addr /\ F \subseteq Nat /\ a \in Nat /\ a # b /\ b \in Addr /\ a # NULL
  BY AddrFacts DEF IsFree
<1>2. mx[b] = a /\ \A x \in Addr \ {b} : mx[x] = nx[x]
  BY <1>1
<1> HIDE DEF mx
<1>3. Encloses(F \cup {a}, mx, h, NULL)
  BY <1>1, <1>2 DEF IsFree, Encloses
<1>4. Ordered(F \cup {a}, mx)
  <2>1. nx[b] = NULL \/ nx[b] \in Nat
    BY <1>1, Zenon DEF IsFree, Encloses
  <2>2. QED BY <1>1, <1>2, <2>1 DEF Ordered
<1>5. ASSUME NEW S \in SUBSET Addr, Encloses(S, mx, h, NULL)
      PROVE  F \cup {a} \subseteq S
  <2>1. Encloses(S, nx, h, NULL)
    <3>1. ASSUME NEW x \in S PROVE nx[x] \in S \cup {NULL}
      <4>1. CASE x = b
        <5>1. a \in S
          BY <1>1, <1>2, <1>5, <4>1 DEF Encloses
        <5>2. mx[a] = nx[b]
          BY <1>1, <1>2
        <5>3. QED BY <1>5, <4>1, <5>1, <5>2 DEF Encloses
      <4>2. CASE x # b
        BY <1>2, <1>5, <4>2 DEF Encloses
      <4>3. QED BY <4>1, <4>2
    <3>2. QED BY <1>5, <3>1 DEF Encloses
  <2>2. F \subseteq S
    BY <2>1 DEF IsFree
  <2>3. a \in S
    BY <1>1, <1>2, <1>5, <2>2 DEF Encloses
  <2>4. QED BY <2>2, <2>3
<1>6. QED BY <1>1, <1>3, <1>4, <1>5, Zenon DEF IsFree, mx

\* The list that slab_add_cache_frame() lays out holds every object of the slab.
LEMMA NewFree ==
  ASSUME NEW i \in Cache, NEW k \in Block, NEW nx,
         \A a \in Objects(i, k) :
           nx[a] = IF a + ObjectSize[i] \in Objects(i, k) THEN a + ObjectSize[i] ELSE NULL
  PROVE  IsFree(Objects(i, k), nx, start_addr(k)) /\ Ordered(Objects(i, k), nx)
<1> DEFINE s == ObjectSize[i]
           N == object_count(i)
<1>1. s \in Nat /\ s >= 1 /\ N \in Nat /\ N >= 1 /\ start_addr(k) \in Nat
  BY CountFits, BlockBounds
<1>2. start_addr(k) \in Objects(i, k)
  <2>1. 0 \in 0 .. N - 1 /\ start_addr(k) + 0 * s = start_addr(k)
    BY <1>1
  <2>2. QED BY <2>1 DEF Objects
<1>3. /\ Objects(i, k) \subseteq Addr
      /\ \A a \in Objects(i, k) : a \in Nat /\ a # NULL
  BY ObjectInSpan
<1>4. Encloses(Objects(i, k), nx, start_addr(k), NULL)
  BY <1>2 DEF Encloses
<1>5. Ordered(Objects(i, k), nx)
  BY <1>1, <1>3 DEF Ordered
<1>6. ASSUME NEW S \in SUBSET Addr, Encloses(S, nx, start_addr(k), NULL)
      PROVE  Objects(i, k) \subseteq S
  <2> DEFINE Bad == {n \in 0 .. N - 1 : start_addr(k) + n * s \notin S}
  <2>1. SUFFICES ASSUME Bad # {} PROVE FALSE
    BY DEF Objects
  <2>2. PICK m \in Bad : \A n \in Bad : m <= n
    <3>1. Bad \subseteq Nat
      OBVIOUS
    <3> HIDE DEF Bad
    <3>2. QED BY <2>1, <3>1, LeastMember, Zenon
  <2>3. m \in 0 .. N - 1 /\ start_addr(k) + m * s \notin S
    BY <2>2
  <2>4. start_addr(k) + m * s \in Objects(i, k)
    BY <2>3 DEF Objects
  <2>5. m # 0
    <3>1. start_addr(k) \in S
      BY <1>2, <1>3, <1>6 DEF Encloses
    <3>2. start_addr(k) + 0 * s = start_addr(k)
      BY <1>1
    <3>3. QED BY <2>3, <3>1, <3>2
  <2>6. m - 1 \in 0 .. N - 1 /\ m - 1 \notin Bad
    <3>1. m - 1 \in 0 .. N - 1
      BY <2>3, <2>5, <1>1
    <3>2. ~ (m <= m - 1)
      BY <2>3
    <3>3. QED BY <3>1, <3>2, <2>2
  <2> DEFINE a == start_addr(k) + (m - 1) * s
  <2>7. a \in S /\ a \in Objects(i, k)
    BY <2>6 DEF Objects
  <2>8. a + s = start_addr(k) + m * s
    <3>1. (m - 1) * s + s = m * s /\ m * s \in Nat /\ (m - 1) * s \in Nat
      BY <1>1, <2>3, <2>6
    <3>2. QED BY <1>1, <3>1
  <2> HIDE DEF a, s, N, Bad
  <2>9. nx[a] = a + s
    BY <2>4, <2>7, <2>8 DEF s
  <2>10. nx[a] \in S \cup {NULL}
    BY <1>6, <2>7 DEF Encloses
  <2>11. a + s # NULL
    BY <1>3, <2>4, <2>8
  <2>12. QED BY <2>3, <2>8, <2>9, <2>10, <2>11
<1>7. QED BY <1>3, <1>4, <1>5, <1>6 DEF IsFree

-----------------------------------------------------------------------------
(* The inductive invariant *)

\* Nothing here takes a lock: with a second context Slab_race loses objects.
OneContext == \A c, d \in Ctx : c = d

\* Objects on their way from the free list to the caller or back
Moving == {"uncount", "walk", "splice"}

Transit == {obj[c] : c \in {d \in Ctx : pc[d] \in Moving}}

\* The objects of a slab that are neither with a caller nor on their way
Avail(i, k) == {a \in Objects(i, k) : held[a] = 0} \ Transit

\* By how much free_count is ahead of the free list
Ahead(k) == IF \E c \in Ctx : pc[c] = "uncount" /\ slab[c] = k THEN 1
            ELSE IF \E c \in Ctx : pc[c] = "count" /\ slab[c] = k THEN -1
            ELSE 0

SlabInv(i, k) ==
  /\ IsFree(Avail(i, k), next, free_list[k])
  /\ Ordered(Avail(i, k), next)
  /\ free_count[k] = Cardinality(Avail(i, k)) + Ahead(k)

TypeInv == TypeOK /\ slabs \in [Cache -> Seq(Block)]

SlabsInv ==
  /\ \A i, j \in Cache : Range(slabs[i]) \cap Range(slabs[j]) # {} => i = j
  /\ \A i \in Cache : \A k \in Range(slabs[i]) : SlabInv(i, k)
  /\ \A k \in Unused : free_list[k] = NULL /\ free_count[k] = 0

HeldInv ==
  \A a \in Addr :
    /\ held[a] \in {0, 1}
    /\ held[a] = 1 => \E i \in Cache : \E k \in Range(slabs[i]) : a \in Objects(i, k)

CtxInv ==
  \A c \in Ctx :
    /\ pc[c] \in {"first", "pop", "uncount", "walk", "splice", "count"} =>
         slab[c] \in Range(slabs[cache[c]])
    /\ pc[c] \in {"idle", "search", "again", "grow", "first", "pop", "uncount"} =>
         at[c] = NULL
    /\ pc[c] = "first" => free_count[slab[c]] > 0
    /\ pc[c] = "pop" => obj[c] = free_list[slab[c]] /\ obj[c] # NULL
    /\ pc[c] \in Moving => obj[c] \in Objects(cache[c], slab[c]) /\ held[obj[c]] = 0
    /\ pc[c] \in {"walk", "splice"} =>
         at[c] = NULL \/ (at[c] \in Avail(cache[c], slab[c]) /\ at[c] < obj[c])
    /\ pc[c] = "splice" =>
         next[obj[c]] = Deref(c) /\ (Deref(c) = NULL \/ obj[c] < Deref(c))

IInv == TypeInv /\ SlabsInv /\ HeldInv /\ CtxInv

\* With one context, what is on its way is what that context moves.
LEMMA TheContext ==
  ASSUME OneContext, NEW c \in Ctx
  PROVE  /\ Transit = IF pc[c] \in Moving THEN {obj[c]} ELSE {}
         /\ Transit' = IF pc'[c] \in Moving THEN {obj'[c]} ELSE {}
         /\ \A k : Ahead(k) = IF pc[c] = "uncount" /\ slab[c] = k THEN 1
                              ELSE IF pc[c] = "count" /\ slab[c] = k THEN -1 ELSE 0
         /\ \A k : Ahead(k)' = IF pc'[c] = "uncount" /\ slab'[c] = k THEN 1
                               ELSE IF pc'[c] = "count" /\ slab'[c] = k THEN -1 ELSE 0
<1>1. \A d \in Ctx : d = c
  BY DEF OneContext
<1>2. Transit = IF pc[c] \in Moving THEN {obj[c]} ELSE {}
  BY <1>1 DEF Transit
<1>3. Transit' = IF pc'[c] \in Moving THEN {obj'[c]} ELSE {}
  BY <1>1 DEF Transit
<1>4. \A k : Ahead(k) = IF pc[c] = "uncount" /\ slab[c] = k THEN 1
                       ELSE IF pc[c] = "count" /\ slab[c] = k THEN -1 ELSE 0
  BY <1>1 DEF Ahead
<1>5. \A k : Ahead(k)' = IF pc'[c] = "uncount" /\ slab'[c] = k THEN 1
                        ELSE IF pc'[c] = "count" /\ slab'[c] = k THEN -1 ELSE 0
  BY <1>1 DEF Ahead
<1>6. QED BY <1>2, <1>3, <1>4, <1>5

\* A slab is a block, and its available objects lie in it.
LEMMA AvailFacts ==
  ASSUME TypeInv, NEW i \in Cache, NEW k \in Range(slabs[i])
  PROVE  /\ k \in Block /\ k \in Nat /\ k # 0
         /\ Avail(i, k) \subseteq Objects(i, k)
         /\ Avail(i, k) \subseteq Span(k)
         /\ IsFiniteSet(Avail(i, k)) /\ Cardinality(Avail(i, k)) \in Nat
         /\ Cardinality(Avail(i, k)) < BlockSize
<1>1. k \in Block /\ k \in Nat /\ k # 0
  <2>1. slabs[i] \in Seq(Block)
    BY DEF TypeInv
  <2>2. PICK j \in DOMAIN slabs[i] : k = slabs[i][j]
    BY DEF Range
  <2>3. k \in Block
    BY <2>1, <2>2
  <2>4. QED BY <2>3, SlabConstants
<1>2. Avail(i, k) \subseteq Objects(i, k)
  BY DEF Avail
<1>3. Avail(i, k) \subseteq Span(k)
  BY <1>1, <1>2, ObjectInSpan
<1>4. QED BY <1>1, <1>2, <1>3, SpanSmall

\* Free() is what is available.
LEMMA FreeIsAvail ==
  ASSUME IInv, NEW i \in Cache, NEW k \in Range(slabs[i])
  PROVE  Free(k) = Avail(i, k)
<1>1. IsFree(Avail(i, k), next, free_list[k]) /\ TypeInv
  BY DEF IInv, SlabsInv, SlabInv
<1>2. IsFiniteSet(Avail(i, k)) /\ Cardinality(Avail(i, k)) < BlockSize
  BY <1>1, AvailFacts
<1>3. FreeBy(next, free_list[k]) = Avail(i, k)
  BY <1>1, <1>2, FreeIs
<1>4. QED BY <1>3, FreeByNext

\* A step that leaves a slab, its objects and its free_count alone.
LEMMA SlabFrame ==
  ASSUME NEW i, NEW k, SlabInv(i, k), Avail(i, k)' = Avail(i, k),
         \A a \in Avail(i, k) : next'[a] = next[a],
         free_list'[k] = free_list[k], free_count'[k] = free_count[k],
         Ahead(k)' = Ahead(k)
  PROVE  SlabInv(i, k)'
<1>1. IsFree(Avail(i, k), next', free_list[k]) /\ Ordered(Avail(i, k), next')
  BY SameFree DEF SlabInv
<1>2. QED BY <1>1 DEF SlabInv

\* Nothing happened.
LEMMA StutterInv ==
  ASSUME IInv, UNCHANGED vars
  PROVE  IInv'
<1>1. /\ UNCHANGED <<slabs, free_list, free_count, next, held, pc, cache, slab, obj, at>>
      /\ UNCHANGED <<Transit, Unused>>
  BY DEF vars, Transit, Unused
<1>2. \A i, k : Avail(i, k)' = Avail(i, k) /\ Ahead(k)' = Ahead(k)
  BY <1>1 DEF Avail, Ahead
<1>3. TypeInv'
  BY <1>1 DEF IInv, TypeInv, TypeOK
<1>4. SlabsInv'
  BY <1>1, <1>2 DEF IInv, SlabsInv, SlabInv
<1>5. HeldInv'
  BY <1>1 DEF IInv, HeldInv
<1>6. CtxInv'
  BY <1>1, <1>2 DEF IInv, CtxInv, Deref
<1>7. QED BY <1>3, <1>4, <1>5, <1>6 DEF IInv

\* The first states.
LEMMA InitInv ==
  ASSUME Init PROVE IInv
<1>1. 1 \in Cache
  <2>1. Len(ObjectSize) \in Nat /\ Len(ObjectSize) # 0 /\ Cache = 1 .. Len(ObjectSize)
    BY SlabConstants DEF Cache
  <2>2. QED BY <2>1
<1>2. TypeInv
  BY <1>1 DEF Init, TypeInv, TypeOK
<1>3. \A i \in Cache : Range(slabs[i]) = {}
  BY DEF Init, Range
<1>4. SlabsInv
  BY <1>3 DEF SlabsInv, Init, Unused
<1>5. HeldInv
  BY DEF HeldInv, Init
<1>6. CtxInv
  BY DEF CtxInv, Init, Moving
<1>7. QED BY <1>2, <1>4, <1>5, <1>6 DEF IInv

-----------------------------------------------------------------------------
(* What the steps have in common *)

\* The slab a context works on.
LEMMA AtSlab ==
  ASSUME IInv, NEW c \in Ctx,
         pc[c] \in {"first", "pop", "uncount", "walk", "splice", "count"}
  PROVE  /\ cache[c] \in Cache /\ slab[c] \in Range(slabs[cache[c]])
         /\ slab[c] \in Block /\ SlabInv(cache[c], slab[c])
         /\ Avail(cache[c], slab[c]) \subseteq Objects(cache[c], slab[c])
         /\ Objects(cache[c], slab[c]) \subseteq Addr
<1>1. cache[c] \in Cache /\ TypeInv
  BY DEF IInv, TypeInv, TypeOK
<1>2. slab[c] \in Range(slabs[cache[c]])
  BY DEF IInv, CtxInv
<1>3. slab[c] \in Block /\ Avail(cache[c], slab[c]) \subseteq Objects(cache[c], slab[c])
  BY <1>1, <1>2, AvailFacts
<1>4. SlabInv(cache[c], slab[c])
  BY <1>1, <1>2 DEF IInv, SlabsInv
<1>5. Objects(cache[c], slab[c]) \subseteq Addr
  BY <1>1, <1>3, ObjectInSpan
<1>6. QED BY <1>1, <1>2, <1>3, <1>4, <1>5

\* An object of one slab is in no other.
LEMMA Elsewhere ==
  ASSUME IInv, NEW i \in Cache, NEW k \in Range(slabs[i]),
         NEW j \in Cache, NEW m \in Range(slabs[j])
  PROVE  /\ m = k => j = i
         /\ m # k => Objects(i, k) \cap Objects(j, m) = {}
<1>1. k \in Block /\ m \in Block
  BY AvailFacts DEF IInv
<1>2. m = k => j = i
  BY DEF IInv, SlabsInv
<1>3. ASSUME m # k PROVE Objects(i, k) \cap Objects(j, m) = {}
  <2>1. Span(k) \cap Span(m) = {}
    BY <1>1, <1>3, SpansApart
  <2>2. Objects(i, k) \subseteq Span(k) /\ Objects(j, m) \subseteq Span(m)
    BY <1>1, ObjectInSpan
  <2>3. QED BY <2>1, <2>2
<1>4. QED BY <1>2, <1>3

\* A step that only changes a context's own variables.
LEMMA LocalInv ==
  ASSUME IInv, UNCHANGED <<slabs, free_list, free_count, next, held>>,
         Transit' = Transit, \A k : Ahead(k)' = Ahead(k), TypeOK', CtxInv'
  PROVE  IInv'
<1>1. \A i, k : Avail(i, k)' = Avail(i, k)
  BY DEF Avail
<1>2. Unused' = Unused
  BY DEF Unused
<1>3. TypeInv' /\ HeldInv'
  BY DEF IInv, TypeInv, HeldInv
<1>4. SlabsInv'
  BY <1>1, <1>2 DEF IInv, SlabsInv, SlabInv
<1>5. QED BY <1>3, <1>4 DEF IInv

\* A step that changes one slab: the others keep their objects and their lists.
LEMMA OneSlabInv ==
  ASSUME IInv, NEW i \in Cache, NEW k \in Range(slabs[i]), UNCHANGED slabs,
         \A m \in Block \ {k} : free_list'[m] = free_list[m] /\ free_count'[m] = free_count[m],
         \A a \in Addr \ Objects(i, k) : next'[a] = next[a] /\ held'[a] = held[a],
         Transit \subseteq Objects(i, k), Transit' \subseteq Objects(i, k),
         \A m \in Block \ {k} : Ahead(m)' = Ahead(m),
         SlabInv(i, k)'
  PROVE  SlabsInv'
<1>1. k \in Block /\ Unused' = Unused /\ k \notin Unused /\ Unused \subseteq Block
  <2>1. k \in Block
    BY AvailFacts DEF IInv
  <2>2. QED BY <2>1 DEF Unused
<1>2. ASSUME NEW j \in Cache, NEW m \in Range(slabs[j]) PROVE SlabInv(j, m)'
  <2>1. CASE m = k
    BY <2>1, Elsewhere
  <2>2. CASE m # k
    <3>1. m \in Block /\ Objects(j, m) \cap Objects(i, k) = {}
      BY <2>2, Elsewhere, AvailFacts DEF IInv
    <3>2. Objects(j, m) \subseteq Addr
      BY <3>1, ObjectInSpan
    <3>3. \A a \in Objects(j, m) : next'[a] = next[a] /\ held'[a] = held[a]
      BY <3>1, <3>2
    <3>4. Avail(j, m)' = Avail(j, m) /\ Avail(j, m) \subseteq Objects(j, m)
      BY <3>1, <3>3 DEF Avail
    <3>5. SlabInv(j, m)
      BY DEF IInv, SlabsInv
    <3>6. /\ \A a \in Avail(j, m) : next'[a] = next[a]
          /\ free_list'[m] = free_list[m] /\ free_count'[m] = free_count[m]
          /\ Ahead(m)' = Ahead(m)
      BY <2>2, <3>1, <3>3, <3>4
    <3>7. QED BY <3>4, <3>5, <3>6, SlabFrame
  <2>3. QED BY <2>1, <2>2
<1>3. \A m \in Unused' : free_list'[m] = NULL /\ free_count'[m] = 0
  <2>1. \A m \in Unused : m \in Block \ {k} /\ free_list[m] = NULL /\ free_count[m] = 0
    BY <1>1 DEF IInv, SlabsInv
  <2>2. QED BY <1>1, <2>1
<1>4. QED BY <1>2, <1>3 DEF IInv, SlabsInv

-----------------------------------------------------------------------------
(* kmalloc() *)

\* A set of indices has a least one.
LEMMA LeastIndex ==
  ASSUME NEW I, I \subseteq Nat, I # {}
  PROVE  Min(I) \in I /\ \A j \in I : Min(I) <= j
<1>1. \E m \in I : \A j \in I : m <= j
  BY LeastMember, Zenon
<1>2. QED BY <1>1, Zenon DEF Min

\* The search finds a slab with a free object if there is one.
LEMMA FirstFree ==
  ASSUME TypeInv, NEW i \in Cache
  PROVE  LET k == FirstSlab(i, HasFree) IN
         /\ k = 0 => \A m \in Range(slabs[i]) : free_count[m] = 0
         /\ k # 0 => k \in Range(slabs[i]) /\ free_count[k] > 0
<1> DEFINE I == {j \in DOMAIN slabs[i] : free_count[slabs[i][j]] > 0}
           k == FirstSlab(i, HasFree)
<1>1. slabs[i] \in Seq(Block) /\ DOMAIN slabs[i] = 1 .. Len(slabs[i])
  BY DEF TypeInv
<1>2. k = IF I = {} THEN 0 ELSE slabs[i][Min(I)]
  BY DEF FirstSlab, HasFree
<1>3. I \subseteq Nat
  BY <1>1
<1>4. ASSUME I # {} PROVE k \in Range(slabs[i]) /\ free_count[k] > 0 /\ k # 0
  <2>1. Min(I) \in I
    <3> HIDE DEF I
    <3>1. QED BY <1>3, <1>4, LeastIndex, Zenon
  <2>2. Min(I) \in DOMAIN slabs[i] /\ free_count[slabs[i][Min(I)]] > 0
    BY <2>1, Zenon
  <2> HIDE DEF I
  <2>3. k = slabs[i][Min(I)]
    BY <1>2, <1>4, <2>2
  <2>4. k \in Range(slabs[i])
    BY <2>2, <2>3 DEF Range
  <2>5. QED BY <2>2, <2>3, <2>4, AvailFacts, Zenon
<1>5. ASSUME I = {} PROVE k = 0 /\ \A m \in Range(slabs[i]) : free_count[m] = 0
  <2>1. k = 0
    <3> HIDE DEF I
    <3>1. QED BY <1>2, <1>5
  <2>2. ASSUME NEW m \in Range(slabs[i]) PROVE free_count[m] = 0
    <3>1. PICK j \in DOMAIN slabs[i] : m = slabs[i][j]
      BY DEF Range
    <3>2. m \in Block /\ free_count[m] \in Nat
      BY AvailFacts, Zenon DEF TypeInv, TypeOK
    <3>3. ~(free_count[m] > 0)
      BY <1>5, <3>1
    <3>4. QED BY <3>2, <3>3
  <2>3. QED BY <2>1, <2>2
<1> HIDE DEF I
<1>6. QED BY <1>4, <1>5

\* kmalloc(), and a page_alloc() that fails.
LEMMA CallInv ==
  ASSUME OneContext, IInv, NEW c \in Ctx,
         (\E size : kmalloc(c, size)) \/ slab_add_cache_frame_fail(c)
  PROVE  IInv'
<1>1. \A d \in Ctx : d = c
  BY DEF OneContext
<1>2. /\ TypeOK /\ pc[c] \in {"idle", "grow"} /\ at[c] = NULL
      /\ pc \in [Ctx -> {"idle", "search", "again", "grow", "first", "pop", "uncount",
                         "walk", "splice", "count"}]
  BY Zenon DEF IInv, TypeInv, TypeOK, CtxInv, kmalloc, slab_add_cache_frame_fail
<1>3. /\ UNCHANGED <<slabs, free_list, free_count, next, held, slab, obj, at>>
      /\ pc'[c] \in {"search", "again"}
      /\ TypeOK'
  <2>1. CASE \E size : kmalloc(c, size)
    BY <1>2, <2>1 DEF TypeOK, kmalloc, Goto
  <2>2. CASE slab_add_cache_frame_fail(c)
    BY <1>2, <2>2 DEF TypeOK, slab_add_cache_frame_fail, Goto, locals
  <2>3. QED BY <2>1, <2>2
<1>4. Transit' = Transit /\ \A k : Ahead(k)' = Ahead(k)
  BY <1>2, <1>3, TheContext DEF Moving
<1>5. CtxInv'
  BY <1>1, <1>2, <1>3 DEF CtxInv, Moving
<1>6. QED BY <1>3, <1>4, <1>5, LocalInv

\* A context that returns has nothing on its way.
LEMMA ReturnCtx ==
  ASSUME OneContext, TypeOK, NEW c \in Ctx, Return(c)
  PROVE  /\ pc'[c] = "idle" /\ Transit' = {} /\ \A k : Ahead(k)' = 0
         /\ CtxInv'
         /\ pc' \in [Ctx -> {"idle", "search", "again", "grow", "first", "pop", "uncount",
                            "walk", "splice", "count"}]
         /\ cache' \in [Ctx -> Cache] /\ slab' \in [Ctx -> Block \cup {0}]
         /\ obj' \in [Ctx -> Addr \cup {NULL}] /\ at' \in [Ctx -> Addr \cup {NULL}]
<1>1. \A d \in Ctx : d = c
  BY DEF OneContext
<1>2. 1 \in Cache
  <2>1. Len(ObjectSize) \in Nat /\ Len(ObjectSize) # 0 /\ Cache = 1 .. Len(ObjectSize)
    BY SlabConstants DEF Cache
  <2>2. QED BY <2>1
<1>3. pc'[c] = "idle" /\ at'[c] = NULL
  BY DEF TypeOK, Return, Goto
<1>4. Transit' = {} /\ \A k : Ahead(k)' = 0
  BY <1>3, TheContext DEF Moving
<1>5. CtxInv'
  BY <1>1, <1>3 DEF CtxInv, Moving
<1>6. QED BY <1>2, <1>3, <1>4, <1>5, Zenon DEF TypeOK, Return, Goto

\* slab_alloc_from_cache().
LEMMA FromCacheInv ==
  ASSUME OneContext, IInv, NEW c \in Ctx, slab_alloc_from_cache(c)
  PROVE  IInv'
<1> DEFINE k == FirstSlab(cache[c], HasFree)
<1>1. \A d \in Ctx : d = c
  BY DEF OneContext
<1>2. /\ TypeOK /\ TypeInv /\ cache[c] \in Cache /\ at[c] = NULL
      /\ pc[c] \in {"search", "again"}
      /\ UNCHANGED <<slabs, free_list, free_count, next, held>>
  BY Zenon DEF IInv, TypeInv, TypeOK, CtxInv, slab_alloc_from_cache
<1>3. k # 0 => k \in Range(slabs[cache[c]]) /\ free_count[k] > 0
  BY <1>2, FirstFree
<1>4. Transit = {} /\ \A m : Ahead(m) = 0
  BY <1>2, TheContext DEF Moving
<1>5. CASE /\ k # 0
           /\ slab' = [slab EXCEPT ![c] = k]
           /\ Goto(c, "first")
           /\ UNCHANGED <<cache, obj, at>>
  <2> HIDE DEF k
  <2>1. k \in Block
    BY <1>2, <1>3, <1>5, AvailFacts
  <2>2. TypeOK' /\ pc'[c] = "first" /\ slab'[c] = k
    BY <1>2, <1>5, <2>1, Zenon DEF TypeOK, Goto
  <2>3. Transit' = {} /\ \A m : Ahead(m)' = 0
    BY <2>2, TheContext DEF Moving
  <2>4. CtxInv'
    BY <1>1, <1>2, <1>3, <1>5, <2>2, Zenon DEF CtxInv, Moving
  <2>5. QED BY <1>2, <1>4, <2>2, <2>3, <2>4, LocalInv
<1>6. CASE k = 0 /\ pc[c] = "search" /\ Goto(c, "grow") /\ UNCHANGED locals
  <2>1. TypeOK' /\ pc'[c] = "grow" /\ UNCHANGED <<cache, slab, obj, at>>
    BY <1>2, <1>6, Zenon DEF TypeOK, Goto, locals
  <2>3. Transit' = {} /\ \A m : Ahead(m)' = 0
    BY <2>1, TheContext DEF Moving
  <2>4. CtxInv'
    BY <1>1, <1>2, <2>1, Zenon DEF CtxInv, Moving
  <2>5. QED BY <1>2, <1>4, <2>1, <2>3, <2>4, LocalInv, Zenon
<1>7. CASE Return(c)
  <2>1. Transit' = {} /\ (\A m : Ahead(m)' = 0) /\ CtxInv'
    BY <1>2, <1>7, ReturnCtx
  <2>2. TypeOK'
    BY <1>2, <1>7, ReturnCtx, Zenon DEF TypeOK
  <2>3. QED BY <1>2, <1>4, <2>1, <2>2, LocalInv
<1>8. QED BY <1>5, <1>6, <1>7, Zenon DEF slab_alloc_from_cache

\* A slab that is said to have a free object has one at the head of its list.
LEMMA HasFirst ==
  ASSUME OneContext, IInv, NEW c \in Ctx, pc[c] = "first"
  PROVE  free_count[slab[c]] # 0 /\ free_list[slab[c]] # NULL
<1> DEFINE F == Avail(cache[c], slab[c])
<1>1. /\ cache[c] \in Cache /\ slab[c] \in Range(slabs[cache[c]])
      /\ slab[c] \in Block /\ SlabInv(cache[c], slab[c])
  BY AtSlab
<1>2. Ahead(slab[c]) = 0
  BY TheContext
<1>3. free_count[slab[c]] > 0 /\ TypeInv /\ free_count[slab[c]] \in Nat
  BY <1>1, Zenon DEF IInv, CtxInv, TypeInv, TypeOK
<1>4. IsFree(F, next, free_list[slab[c]]) /\ free_count[slab[c]] = Cardinality(F) + 0
  BY <1>1, <1>2 DEF SlabInv
<1>5. Cardinality(F) \in Nat /\ Cardinality(F) # 0
  BY <1>1, <1>3, <1>4, AvailFacts
<1>6. F # {}
  BY <1>5, FS_EmptySet
<1> HIDE DEF F
<1>7. QED BY <1>3, <1>4, <1>6, EmptyFree

\* slab_alloc_from_slab() finds the first free object.
LEMMA FirstInv ==
  ASSUME OneContext, IInv, NEW c \in Ctx, slab_alloc_first(c)
  PROVE  IInv'
<1>1. \A d \in Ctx : d = c
  BY DEF OneContext
<1>2. /\ TypeOK /\ at[c] = NULL /\ pc[c] = "first"
      /\ UNCHANGED <<slabs, free_list, free_count, next, held>>
  BY Zenon DEF IInv, TypeInv, CtxInv, slab_alloc_first
<1>3. slab[c] \in Block /\ slab[c] \in Range(slabs[cache[c]])
  BY <1>2, AtSlab
<1>4. /\ obj' = [obj EXCEPT ![c] = free_list[slab[c]]]
      /\ pc' = [pc EXCEPT ![c] = "pop"]
      /\ UNCHANGED <<cache, slab, at>>
      /\ free_list[slab[c]] # NULL
  BY <1>2, HasFirst DEF slab_alloc_first, Goto
<1>5. TypeOK' /\ pc'[c] = "pop" /\ obj'[c] = free_list[slab[c]]
  BY <1>2, <1>3, <1>4 DEF TypeOK
<1>6. Transit' = Transit /\ \A m : Ahead(m)' = Ahead(m)
  BY <1>2, <1>5, TheContext DEF Moving
<1>7. CtxInv'
  BY <1>1, <1>2, <1>3, <1>4, <1>5, Zenon DEF CtxInv, Moving
<1>8. QED BY <1>2, <1>5, <1>6, <1>7, LocalInv

\* The first free object is taken off the list.
LEMMA PopInv ==
  ASSUME OneContext, IInv, NEW c \in Ctx, slab_alloc_pop(c)
  PROVE  IInv'
<1>0. PICK i, k, a : i = cache[c] /\ k = slab[c] /\ a = obj[c]
  OBVIOUS
<1> DEFINE F == Avail(i, k)
<1>1. \A d \in Ctx : d = c
  BY DEF OneContext
<1>2. /\ TypeInv /\ TypeOK /\ HeldInv /\ at[c] = NULL /\ pc[c] = "pop"
      /\ a = free_list[k] /\ a # NULL
      /\ free_list' = [free_list EXCEPT ![k] = next[a]]
      /\ pc' = [pc EXCEPT ![c] = "uncount"]
      /\ UNCHANGED <<slabs, free_count, next, held, cache, slab, obj, at>>
  BY <1>0, Zenon DEF IInv, TypeInv, CtxInv, slab_alloc_pop, Goto, locals
<1>3. /\ i \in Cache /\ k \in Range(slabs[i]) /\ k \in Block /\ SlabInv(i, k)
      /\ F \subseteq Objects(i, k) /\ Objects(i, k) \subseteq Addr
  BY <1>0, <1>2, AtSlab, Zenon
<1>4. IsFree(F, next, a) /\ Ordered(F, next) /\ a \in F /\ a \in Addr
  <2>1. IsFree(F, next, a) /\ Ordered(F, next)
    BY <1>2, <1>3 DEF SlabInv
  <2> HIDE DEF F
  <2>2. QED BY <1>2, <1>3, <2>1, EmptyFree
<1>5. pc'[c] = "uncount" /\ TypeOK' /\ TypeInv'
  <2>1. next[a] \in Addr \cup {NULL}
    BY <1>2, <1>4, Zenon DEF TypeOK
  <2>2. QED BY <1>2, <1>3, <2>1, Zenon DEF TypeOK, TypeInv
<1>6. /\ Transit = {} /\ Transit' = {a}
      /\ \A m : Ahead(m) = 0 /\ Ahead(m)' = IF k = m THEN 1 ELSE 0
  BY <1>0, <1>2, <1>5, TheContext, Zenon DEF Moving
<1>7. Avail(i, k)' = F \ {a}
  BY <1>2, <1>6 DEF Avail
<1>8. SlabInv(i, k)'
  <2>1. IsFiniteSet(F) /\ Cardinality(F) \in Nat
    BY <1>2, <1>3, AvailFacts, Zenon
  <2>2. free_count[k] = Cardinality(F) + 0
    BY <1>3, <1>6, Zenon DEF SlabInv
  <2>3. free_list'[k] = next[a]
    BY <1>2, <1>3, Zenon DEF TypeOK
  <2> HIDE DEF F
  <2>4. IsFree(F \ {a}, next, next[a]) /\ Ordered(F \ {a}, next)
    BY <1>4, PopFree, Zenon
  <2>5. Cardinality(F \ {a}) = Cardinality(F) - 1
    BY <1>4, <2>1, FS_RemoveElement, Zenon
  <2>6. free_count'[k] = Cardinality(F \ {a}) + Ahead(k)'
    BY <1>2, <1>6, <2>1, <2>2, <2>5
  <2>7. QED BY <1>2, <1>7, <2>3, <2>4, <2>6, Zenon DEF SlabInv
<1>9. SlabsInv'
  <2>1. \A m \in Block \ {k} : free_list'[m] = free_list[m] /\ free_count'[m] = free_count[m]
    BY <1>2 DEF TypeOK
  <2>2. \A m \in Block \ {k} : Ahead(m)' = Ahead(m)
    BY <1>6
  <2>3. Transit \subseteq Objects(i, k) /\ Transit' \subseteq Objects(i, k)
    BY <1>3, <1>4, <1>6
  <2> HIDE DEF F
  <2>4. QED BY <1>2, <1>3, <1>8, <2>1, <2>2, <2>3, OneSlabInv, Zenon
<1>10. HeldInv'
  BY <1>2 DEF HeldInv
<1>11. CtxInv'
  <2>1. held[a] = 0
    BY <1>4 DEF Avail
  <2>2. QED BY <1>0, <1>1, <1>2, <1>3, <1>4, <1>5, <2>1, Zenon DEF CtxInv, Moving
<1>12. QED BY <1>5, <1>9, <1>10, <1>11 DEF IInv

\* The object goes to the caller.
LEMMA HandOutInv ==
  ASSUME OneContext, IInv, NEW c \in Ctx, slab_alloc_return(c)
  PROVE  IInv'
<1>0. PICK i, k, a : i = cache[c] /\ k = slab[c] /\ a = obj[c]
  OBVIOUS
<1> DEFINE F == Avail(i, k)
<1>1. /\ TypeInv /\ TypeOK /\ HeldInv /\ pc[c] = "uncount"
      /\ a \in Objects(i, k) /\ held[a] = 0
      /\ free_count' = [free_count EXCEPT ![k] = @ - 1]
      /\ held' = [held EXCEPT ![a] = @ + 1]
      /\ next' = [next EXCEPT ![a] = NULL]
      /\ Return(c)
      /\ UNCHANGED <<slabs, free_list>>
  BY <1>0, Zenon DEF IInv, TypeInv, CtxInv, slab_alloc_return, Moving
<1>2. /\ i \in Cache /\ k \in Range(slabs[i]) /\ k \in Block /\ SlabInv(i, k)
      /\ F \subseteq Objects(i, k) /\ Objects(i, k) \subseteq Addr
  BY <1>0, <1>1, AtSlab, Zenon
<1>3. /\ Transit = {a} /\ Transit' = {}
      /\ \A m : Ahead(m) = (IF k = m THEN 1 ELSE 0) /\ Ahead(m)' = 0
  <2>1. Transit = {a} /\ \A m : Ahead(m) = (IF k = m THEN 1 ELSE 0)
    BY <1>0, <1>1, TheContext DEF Moving
  <2>2. Transit' = {} /\ \A m : Ahead(m)' = 0
    BY <1>1, ReturnCtx
  <2>3. QED BY <2>1, <2>2
<1>4. free_count[k] = Cardinality(F) + 1 /\ Cardinality(F) \in Nat
  BY <1>1, <1>2, <1>3, AvailFacts, Zenon DEF SlabInv
<1>5. /\ free_count'[k] = Cardinality(F) /\ held'[a] = 1
      /\ \A m \in Block \ {k} : free_count'[m] = free_count[m]
      /\ \A b \in Addr \ {a} : next'[b] = next[b] /\ held'[b] = held[b]
  <2>1. k \in DOMAIN free_count /\ a \in DOMAIN held /\ DOMAIN held = Addr /\ DOMAIN next = Addr
        /\ DOMAIN free_count = Block
    BY <1>1, <1>2, Zenon DEF TypeOK
  <2> HIDE DEF F
  <2>2. QED BY <1>1, <1>4, <2>1
<1>6. TypeOK' /\ TypeInv'
  <2>1. free_count' \in [Block -> Nat]
    <3>1. free_count'[k] \in Nat
      BY <1>4, <1>5
    <3>2. QED BY <1>1, <1>5, <3>1, Zenon DEF TypeOK
  <2>2. held' \in [Addr -> Nat] /\ next' \in [Addr -> Addr \cup {NULL}]
    <3>1. held \in [Addr -> Nat] /\ next \in [Addr -> Addr \cup {NULL}] /\ a \in Addr
      BY <1>1, <1>2, Zenon DEF TypeOK
    <3>2. held' \in [Addr -> Nat]
      BY <1>1, <3>1
    <3>3. next' \in [Addr -> Addr \cup {NULL}]
      BY <1>1, <3>1
    <3>4. QED BY <3>2, <3>3
  <2>3. QED BY <1>1, <2>1, <2>2, ReturnCtx, Zenon DEF TypeOK, TypeInv
<1>7. Avail(i, k)' = F /\ a \notin F
  BY <1>1, <1>2, <1>3, <1>5 DEF Avail
<1>8. SlabInv(i, k)'
  <2>1. IsFree(F, next, free_list[k]) /\ Ordered(F, next) /\ \A b \in F : next'[b] = next[b]
    BY <1>2, <1>5, <1>7, Zenon DEF SlabInv
  <2> HIDE DEF F
  <2>2. IsFree(F, next', free_list[k]) /\ Ordered(F, next')
    BY <2>1, SameFree
  <2>3. free_count'[k] = Cardinality(F) + 0
    BY <1>4, <1>5
  <2>4. QED BY <1>1, <1>3, <1>7, <2>2, <2>3 DEF SlabInv
<1>9. SlabsInv'
  <2>1. \A m \in Block \ {k} : free_list'[m] = free_list[m] /\ free_count'[m] = free_count[m]
    BY <1>1, <1>5
  <2>2. \A m \in Block \ {k} : Ahead(m)' = Ahead(m)
    BY <1>3
  <2>3. Transit \subseteq Objects(i, k) /\ Transit' \subseteq Objects(i, k)
    BY <1>1, <1>3
  <2>4. \A b \in Addr \ Objects(i, k) : next'[b] = next[b] /\ held'[b] = held[b]
    BY <1>1, <1>5
  <2> HIDE DEF F
  <2>5. QED BY <1>1, <1>2, <1>8, <2>1, <2>2, <2>3, <2>4, OneSlabInv, Zenon
<1>10. HeldInv'
  <2>1. ASSUME NEW b \in Addr
        PROVE  /\ held'[b] \in {0, 1}
               /\ held'[b] = 1 => \E j \in Cache : \E m \in Range(slabs[j]) : b \in Objects(j, m)
    <3>1. CASE b = a
      BY <1>1, <1>2, <1>5, <3>1, Zenon
    <3>2. CASE b # a
      BY <1>1, <1>5, <3>2, Zenon DEF HeldInv
    <3>3. QED BY <3>1, <3>2
  <2>2. QED BY <1>1, <2>1 DEF HeldInv
<1>11. CtxInv'
  BY <1>1, ReturnCtx
<1>12. QED BY <1>6, <1>9, <1>10, <1>11 DEF IInv

\* A new slab.
LEMMA AddFrameInv ==
  ASSUME OneContext, IInv, NEW c \in Ctx, slab_add_cache_frame(c)
  PROVE  IInv'
<1>0. PICK i : i = cache[c]
  OBVIOUS
<1>1. PICK k \in Unused :
       /\ slabs' = [slabs EXCEPT ![i] = Append(@, k)]
       /\ free_count' = [free_count EXCEPT ![k] = object_count(i)]
       /\ free_list' = [free_list EXCEPT ![k] = start_addr(k)]
       /\ next' = [a \in Addr |->
                     IF a \notin Objects(i, k) THEN next[a]
                     ELSE IF a + ObjectSize[i] \in Objects(i, k)
                          THEN a + ObjectSize[i] ELSE NULL]
  BY <1>0, Zenon DEF slab_add_cache_frame
<1>2. /\ TypeInv /\ TypeOK /\ HeldInv /\ SlabsInv /\ pc[c] = "grow" /\ at[c] = NULL
      /\ pc' = [pc EXCEPT ![c] = "again"]
      /\ UNCHANGED <<held, cache, slab, obj, at>>
      /\ i \in Cache
  BY <1>0, Zenon DEF IInv, TypeInv, TypeOK, CtxInv, slab_add_cache_frame, Goto, locals
<1>3. k \in Block /\ \A j \in Cache : k \notin Range(slabs[j])
  BY DEF Unused
<1>4. /\ Objects(i, k) \subseteq Addr /\ Objects(i, k) \subseteq Span(k)
      /\ start_addr(k) \in Addr /\ object_count(i) \in Nat
  <2>1. IsFree(Objects(i, k), next', start_addr(k))
    <3>1. Objects(i, k) \subseteq Addr
      BY <1>2, <1>3, ObjectInSpan
    <3>2. \A a \in Objects(i, k) :
            next'[a] = IF a + ObjectSize[i] \in Objects(i, k) THEN a + ObjectSize[i] ELSE NULL
      BY <1>1, <3>1
    <3>3. QED BY <1>2, <1>3, <3>2, NewFree, Zenon
  <2>2. start_addr(k) > 0 /\ start_addr(k) \in Nat
    BY <1>3, BlockBounds
  <2>3. start_addr(k) # NULL
    BY <2>2 DEF NULL
  <2>4. start_addr(k) \in Objects(i, k)
    BY <2>1, <2>3, EmptyFree
  <2>5. QED BY <1>2, <1>3, <2>4, CountFits, ObjectInSpan
<1>5. /\ Range(slabs'[i]) = Range(slabs[i]) \cup {k}
      /\ \A j \in Cache \ {i} : slabs'[j] = slabs[j]
      /\ slabs' \in [Cache -> Seq(Block)]
  <2>1. slabs \in [Cache -> Seq(Block)] /\ slabs[i] \in Seq(Block)
    BY <1>2 DEF TypeInv
  <2>2. slabs'[i] = Append(slabs[i], k) /\ Append(slabs[i], k) \in Seq(Block)
    BY <1>1, <1>2, <1>3, <2>1
  <2>3. Range(Append(slabs[i], k)) = Range(slabs[i]) \cup {k}
    <3>1. /\ DOMAIN slabs[i] = 1 .. Len(slabs[i]) /\ Len(slabs[i]) \in Nat
          /\ DOMAIN Append(slabs[i], k) = 1 .. Len(slabs[i]) + 1
          /\ Append(slabs[i], k)[Len(slabs[i]) + 1] = k
          /\ \A n \in 1 .. Len(slabs[i]) : Append(slabs[i], k)[n] = slabs[i][n]
      BY <1>3, <2>1
    <3>2. \A n : n \in 1 .. Len(slabs[i]) + 1 <=> n \in 1 .. Len(slabs[i]) \/ n = Len(slabs[i]) + 1
      BY <3>1
    <3>3. QED BY <3>1, <3>2, Zenon DEF Range
  <2>4. QED BY <1>1, <1>2, <1>3, <2>1, <2>2, <2>3, Zenon
<1>6. TypeOK' /\ TypeInv' /\ pc'[c] = "again"
  <2>1. next' \in [Addr -> Addr \cup {NULL}]
    BY <1>1, <1>2, <1>4, Zenon DEF TypeOK
  <2>2. /\ free_count' \in [Block -> Nat] /\ free_list' \in [Block -> Addr \cup {NULL}]
        /\ pc'[c] = "again"
    BY <1>1, <1>2, <1>4, Zenon DEF TypeOK
  <2>3. QED BY <1>2, <1>5, <2>1, <2>2, Zenon DEF TypeOK, TypeInv
<1>7. Transit = {} /\ Transit' = {} /\ \A m : Ahead(m) = 0 /\ Ahead(m)' = 0
  BY <1>2, <1>6, TheContext, Zenon DEF Moving
<1>8. \A j \in Cache : \A m \in Range(slabs[j]) :
        m \in Block /\ m # k /\ Objects(j, m) \subseteq Addr /\ Objects(j, m) \cap Objects(i, k) = {}
  <2>1. ASSUME NEW j \in Cache, NEW m \in Range(slabs[j])
        PROVE  m \in Block /\ m # k /\ Objects(j, m) \subseteq Addr /\ Objects(j, m) \cap Objects(i, k) = {}
    <3>1. m \in Block /\ m # k
      BY <1>2, <1>3, AvailFacts, Zenon
    <3>2. Objects(j, m) \subseteq Addr /\ Objects(j, m) \subseteq Span(m)
      BY <3>1, ObjectInSpan
    <3>3. Span(m) \cap Span(k) = {}
      BY <1>3, <3>1, SpansApart
    <3>4. QED BY <1>4, <3>1, <3>2, <3>3
  <2>2. QED BY <2>1
<1>9. SlabInv(i, k)'
  <2>1. \A a \in Objects(i, k) : held[a] = 0
    <3>1. \A a \in Objects(i, k) : held[a] # 1
      BY <1>2, <1>4, <1>8 DEF HeldInv
    <3>2. QED BY <1>2, <1>4, <3>1 DEF HeldInv
  <2>2. Avail(i, k)' = Objects(i, k)
    BY <1>2, <1>7, <2>1 DEF Avail
  <2>3. \A a \in Objects(i, k) :
          next'[a] = IF a + ObjectSize[i] \in Objects(i, k) THEN a + ObjectSize[i] ELSE NULL
    BY <1>1, <1>4, Zenon
  <2>4. IsFree(Objects(i, k), next', start_addr(k)) /\ Ordered(Objects(i, k), next')
    BY <1>2, <1>3, <2>3, NewFree, Zenon
  <2>5. free_list'[k] = start_addr(k) /\ free_count'[k] = object_count(i)
    BY <1>1, <1>2, <1>3, Zenon DEF TypeOK
  <2>6. object_count(i) = Cardinality(Objects(i, k)) + 0
    BY <1>2, <1>3, <1>4, ObjectsCounted
  <2>7. QED BY <1>7, <2>2, <2>4, <2>5, <2>6, Zenon DEF SlabInv
<1>10. ASSUME NEW j \in Cache, NEW m \in Range(slabs[j]) PROVE SlabInv(j, m)'
  <2>1. Avail(j, m)' = Avail(j, m) /\ Avail(j, m) \subseteq Objects(j, m)
    BY <1>2, <1>7 DEF Avail
  <2>2. /\ \A a \in Avail(j, m) : next'[a] = next[a]
        /\ free_list'[m] = free_list[m] /\ free_count'[m] = free_count[m]
    BY <1>1, <1>2, <1>8, <2>1, Zenon DEF TypeOK
  <2>3. SlabInv(j, m) /\ Ahead(m)' = Ahead(m)
    BY <1>2, <1>7, Zenon DEF SlabsInv
  <2>4. QED BY <2>1, <2>2, <2>3, SlabFrame, Zenon
<1>11. SlabsInv'
  <2>1. \A j \in Cache : \A m \in Range(slabs'[j]) : SlabInv(j, m)'
    <3>1. ASSUME NEW j \in Cache, NEW m \in Range(slabs'[j]) PROVE SlabInv(j, m)'
      <4>1. CASE j = i /\ m = k
        BY <1>9, <4>1
      <4>2. CASE ~(j = i /\ m = k)
        <5>1. m \in Range(slabs[j])
          BY <1>5, <4>2, Zenon
        <5>2. QED BY <1>10, <5>1
      <4>3. QED BY <4>1, <4>2
    <3>2. QED BY <3>1
  <2>2. \A j, h \in Cache : Range(slabs'[j]) \cap Range(slabs'[h]) # {} => j = h
    <3>1. ASSUME NEW j \in Cache, NEW h \in Cache, NEW m \in Range(slabs'[j]), m \in Range(slabs'[h])
          PROVE  j = h
      <4>1. CASE m = k
        BY <1>3, <1>5, <3>1, <4>1, Zenon
      <4>2. CASE m # k
        <5>1. m \in Range(slabs[j]) /\ m \in Range(slabs[h])
          BY <1>5, <3>1, <4>2, Zenon
        <5>2. QED BY <1>2, <5>1, Zenon DEF SlabsInv
      <4>3. QED BY <4>1, <4>2
    <3>2. QED BY <3>1
  <2>3. Unused' = Unused \ {k}
    BY <1>2, <1>5, Zenon DEF Unused
  <2>4. \A m \in Unused' : free_list'[m] = NULL /\ free_count'[m] = 0
    <3>1. \A m \in Unused : m \in Block /\ free_list[m] = NULL /\ free_count[m] = 0
      BY <1>2, Zenon DEF SlabsInv, Unused
    <3>2. QED BY <1>1, <1>2, <2>3, <3>1, Zenon DEF TypeOK
  <2>5. QED BY <2>1, <2>2, <2>4, Zenon DEF SlabsInv
<1>12. HeldInv'
  <2>1. \A j \in Cache : Range(slabs[j]) \subseteq Range(slabs'[j])
    BY <1>5, Zenon
  <2>2. QED BY <1>2, <2>1, Zenon DEF HeldInv
<1>13. CtxInv'
  <2>1. \A d \in Ctx : d = c
    BY DEF OneContext
  <2>2. QED BY <1>2, <1>6, <2>1, Zenon DEF CtxInv, Moving
<1>14. QED BY <1>6, <1>11, <1>12, <1>13 DEF IInv


-----------------------------------------------------------------------------
(* kfree() *)

\* The test of slab_free() reaches one header into the next block, where no object
\* lies: an object passes it for its own slab only.
LEMMA InOneSlab ==
  ASSUME NEW i \in Cache, NEW k \in Block, NEW a \in Objects(i, k), NEW m \in Block
  PROVE  /\ InSlab(m, a) <=> m = k
         /\ a >= start_addr(m) /\ a < end_addr(m) <=> m = k
<1>1. /\ a \in Nat /\ a >= start_addr(k) /\ a < end_addr(k)
  <2>1. /\ a \in Nat /\ a >= start_addr(k) /\ a + ObjectSize[i] <= end_addr(k)
        /\ ObjectSize[i] \in Nat /\ ObjectSize[i] >= 1
    BY ObjectInSpan, CountFits
  <2>2. end_addr(k) \in Nat
    BY BlockBounds
  <2>3. QED BY <2>1, <2>2
<1>2. /\ start_addr(k) \in Nat /\ end_addr(k) \in Nat /\ k * BlockSize \in Nat /\ k \in Nat
      /\ start_addr(k) = k * BlockSize + HeaderSize /\ end_addr(k) = k * BlockSize + BlockSize
  BY BlockBounds
<1>3. /\ start_addr(m) \in Nat /\ end_addr(m) \in Nat /\ m * BlockSize \in Nat /\ m \in Nat
      /\ start_addr(m) = m * BlockSize + HeaderSize /\ end_addr(m) = m * BlockSize + BlockSize
  BY BlockBounds
<1>4. BlockSize \in Nat /\ HeaderSize \in Nat
  BY SlabConstants
<1>5. CASE m = k
  BY <1>1, <1>2, <1>4, <1>5 DEF InSlab
<1>6. CASE m < k
  <2>1. end_addr(m) <= k * BlockSize /\ end_addr(m) < start_addr(k)
    BY <1>6, BlocksApart
  <2>2. start_addr(m) + BlockSize <= start_addr(k)
    BY <1>2, <1>3, <1>4, <2>1
  <2>3. ~(a < start_addr(m) + BlockSize) /\ ~(a < end_addr(m)) /\ m # k
    BY <1>1, <1>2, <1>3, <1>4, <1>6, <2>1, <2>2
  <2>4. QED BY <2>3 DEF InSlab
<1>7. CASE k < m
  <2>1. end_addr(k) < start_addr(m)
    BY <1>7, BlocksApart
  <2>2. ~(a >= start_addr(m)) /\ m # k
    BY <1>1, <1>2, <1>3, <1>7, <2>1
  <2>3. QED BY <2>2 DEF InSlab
<1>8. QED BY <1>2, <1>3, <1>5, <1>6, <1>7

\* kfree() finds the cache of an object ...
LEMMA FindCache ==
  ASSUME IInv, NEW i \in Cache, NEW k \in Range(slabs[i]), NEW a \in Objects(i, k)
  PROVE  LET I == {j \in Cache : slab_cache_has_addr(j, a)} IN I # {} /\ Min(I) = i
<1> DEFINE I == {j \in Cache : slab_cache_has_addr(j, a)}
<1>1. k \in Block /\ TypeInv
  BY AvailFacts DEF IInv
<1>2. Cache \subseteq Nat
  BY SlabConstants DEF Cache
<1>3. \A j \in Cache : slab_cache_has_addr(j, a) <=> j = i
  <2>1. ASSUME NEW j \in Cache PROVE slab_cache_has_addr(j, a) <=> j = i
    <3>1. slab_cache_has_addr(j, a) <=>
            \E m \in Range(slabs[j]) : a >= start_addr(m) /\ a < end_addr(m)
      BY DEF slab_cache_has_addr, Range
    <3>2. \A m \in Range(slabs[j]) : (a >= start_addr(m) /\ a < end_addr(m)) <=> m = k
      BY <1>1, AvailFacts, InOneSlab
    <3>3. k \in Range(slabs[j]) <=> j = i
      BY Elsewhere
    <3>4. QED BY <3>1, <3>2, <3>3
  <2>2. QED BY <2>1
<1>4. I = {i}
  BY <1>3
<1>5. I \subseteq Nat /\ I # {}
  BY <1>2, <1>4
<1> HIDE DEF I
<1>6. Min(I) \in I
  BY <1>5, LeastIndex, Zenon
<1>7. QED BY <1>4, <1>5, <1>6 DEF I

\* ... and slab_free() its slab.
LEMMA FindSlab ==
  ASSUME IInv, NEW i \in Cache, NEW k \in Range(slabs[i]), NEW a \in Objects(i, k)
  PROVE  FirstSlab(i, LAMBDA s : InSlab(s, a)) = k
<1> DEFINE I == {j \in DOMAIN slabs[i] : InSlab(slabs[i][j], a)}
           r == FirstSlab(i, LAMBDA s : InSlab(s, a))
<1>1. k \in Block /\ TypeInv /\ \A m \in Range(slabs[i]) : m \in Block
  BY AvailFacts DEF IInv
<1>2. DOMAIN slabs[i] = 1 .. Len(slabs[i])
  BY <1>1 DEF TypeInv
<1>3. r = IF I = {} THEN 0 ELSE slabs[i][Min(I)]
  BY DEF FirstSlab
<1>4. I \subseteq Nat /\ I # {}
  <2>1. PICK j \in DOMAIN slabs[i] : slabs[i][j] = k
    BY DEF Range
  <2>2. InSlab(k, a)
    BY <1>1, InOneSlab
  <2>3. QED BY <1>2, <2>1, <2>2
<1>5. Min(I) \in I
  <2> HIDE DEF I
  <2>1. QED BY <1>4, LeastIndex, Zenon
<1>6. Min(I) \in DOMAIN slabs[i] /\ InSlab(slabs[i][Min(I)], a)
  BY <1>5
<1> HIDE DEF I
<1>7. slabs[i][Min(I)] \in Range(slabs[i])
  BY <1>6 DEF Range
<1>8. slabs[i][Min(I)] = k
  BY <1>1, <1>6, <1>7, InOneSlab
<1>9. r = slabs[i][Min(I)]
  BY <1>3, <1>4
<1>10. QED BY <1>8, <1>9

\* kfree() takes an object back.
LEMMA FreeInv ==
  ASSUME OneContext, IInv, NEW c \in Ctx, NEW a \in Addr, kfree(c, a)
  PROVE  IInv'
<1>1. /\ TypeInv /\ TypeOK /\ HeldInv /\ pc[c] = "idle" /\ at[c] = NULL
      /\ held[a] > 0 /\ held' = [held EXCEPT ![a] = @ - 1]
      /\ UNCHANGED <<slabs, free_list, free_count, next>>
  BY Zenon DEF IInv, TypeInv, CtxInv, kfree
<1>2. held[a] = 1
  BY <1>1 DEF HeldInv
<1>3. PICK i \in Cache : \E k \in Range(slabs[i]) : a \in Objects(i, k)
  BY <1>1, <1>2 DEF HeldInv
<1>4. PICK k \in Range(slabs[i]) : a \in Objects(i, k)
  BY <1>3
<1>5. k \in Block /\ k # 0
  BY <1>1, AvailFacts, Zenon
<1>6. /\ cache' = [cache EXCEPT ![c] = i] /\ slab' = [slab EXCEPT ![c] = k]
      /\ obj' = [obj EXCEPT ![c] = a] /\ pc' = [pc EXCEPT ![c] = "walk"] /\ UNCHANGED at
  <2>1. LET I == {j \in Cache : slab_cache_has_addr(j, a)} IN I # {} /\ Min(I) = i
    BY <1>4, FindCache
  <2>2. FirstSlab(i, LAMBDA s : InSlab(s, a)) = k
    BY <1>4, FindSlab, Zenon
  <2>3. QED BY <1>5, <2>1, <2>2 DEF kfree, Goto
<1>7. /\ TypeOK' /\ TypeInv' /\ held'[a] = 0 /\ \A b \in Addr \ {a} : held'[b] = held[b]
      /\ pc'[c] = "walk" /\ cache'[c] = i /\ slab'[c] = k /\ obj'[c] = a /\ at'[c] = NULL
  <2>1. held \in [Addr -> Nat]
    BY <1>1 DEF TypeOK
  <2>2. held'[a] = 0 /\ held' \in [Addr -> Nat] /\ \A b \in Addr \ {a} : held'[b] = held[b]
    BY <1>1, <1>2, <2>1
  <2>3. /\ pc' \in [Ctx -> {"idle", "search", "again", "grow", "first", "pop", "uncount",
                            "walk", "splice", "count"}]
        /\ cache' \in [Ctx -> Cache] /\ slab' \in [Ctx -> Block \cup {0}]
        /\ obj' \in [Ctx -> Addr \cup {NULL}]
    BY <1>1, <1>5, <1>6, Zenon DEF TypeOK
  <2>4. /\ pc'[c] = "walk" /\ cache'[c] = i /\ slab'[c] = k /\ obj'[c] = a /\ at'[c] = NULL
    BY <1>1, <1>6, Zenon DEF TypeOK
  <2>5. QED BY <1>1, <1>6, <2>2, <2>3, <2>4, Zenon DEF TypeOK, TypeInv
<1>8. Transit = {} /\ Transit' = {a} /\ \A m : Ahead(m) = 0 /\ Ahead(m)' = 0
  BY <1>1, <1>7, TheContext DEF Moving
<1>9. SlabsInv'
  <2>1. \A j \in Cache : \A m \in Range(slabs[j]) : Avail(j, m)' = Avail(j, m)
    <3>1. \A j \in Cache : \A m \in Range(slabs[j]) : Objects(j, m) \subseteq Addr
      BY <1>1, AvailFacts, ObjectInSpan, Zenon
    <3>2. ASSUME NEW j \in Cache, NEW m \in Range(slabs[j]) PROVE Avail(j, m)' = Avail(j, m)
      <4>1. held[a] # 0
        BY <1>2
      <4>2. ASSUME NEW b \in Objects(j, m) PROVE b \in Avail(j, m)' <=> b \in Avail(j, m)
        <5>1. b # a => held'[b] = held[b]
          BY <1>7, <3>1, Zenon
        <5>2. QED BY <1>8, <4>1, <5>1, Zenon DEF Avail
      <4>3. QED BY <4>2, Zenon DEF Avail
    <3>3. QED BY <3>2
  <2>2. Unused' = Unused
    BY <1>1 DEF Unused
  <2>3. ASSUME NEW j \in Cache, NEW m \in Range(slabs[j]) PROVE SlabInv(j, m)'
    <3>1. SlabInv(j, m)
      BY Zenon DEF IInv, SlabsInv
    <3>2. QED BY <1>1, <1>8, <2>1, <3>1, SlabFrame, Zenon
  <2>4. QED BY <1>1, <2>2, <2>3, Zenon DEF IInv, SlabsInv
<1>10. HeldInv'
  <2>1. \A b \in Addr : held'[b] \in {0, 1} /\ (held'[b] = 1 => held[b] = 1)
    BY <1>1, <1>7, Zenon DEF HeldInv
  <2>2. QED BY <1>1, <2>1, Zenon DEF HeldInv
<1>11. CtxInv'
  <2>1. \A d \in Ctx : d = c
    BY DEF OneContext
  <2>2. QED BY <1>1, <1>4, <1>7, <2>1, Zenon DEF CtxInv, Moving
<1>12. QED BY <1>7, <1>9, <1>10, <1>11, Zenon DEF IInv

\* *curr_obj is the next free object of the slab, or NULL.
LEMMA DerefFree ==
  ASSUME OneContext, IInv, NEW c \in Ctx, pc[c] \in {"walk", "splice"}
  PROVE  /\ Deref(c) \in Avail(cache[c], slab[c]) \cup {NULL}
         /\ obj[c] \notin Avail(cache[c], slab[c])
         /\ obj[c] \in Objects(cache[c], slab[c]) /\ held[obj[c]] = 0
         /\ obj[c] \in Addr /\ obj[c] \in Nat /\ Deref(c) \in Nat
         /\ Deref(c) \in Addr \cup {NULL}
<1>1. /\ SlabInv(cache[c], slab[c]) /\ Objects(cache[c], slab[c]) \subseteq Addr
      /\ Avail(cache[c], slab[c]) \subseteq Objects(cache[c], slab[c])
  BY AtSlab
<1>2. at[c] = NULL \/ at[c] \in Avail(cache[c], slab[c])
  BY DEF IInv, CtxInv
<1>3. Deref(c) \in Avail(cache[c], slab[c]) \cup {NULL}
  BY <1>1, <1>2, Zenon DEF Deref, SlabInv, IsFree, Encloses
<1>4. obj[c] \in Objects(cache[c], slab[c]) /\ held[obj[c]] = 0
  BY DEF IInv, CtxInv, Moving
<1>5. obj[c] \notin Avail(cache[c], slab[c])
  BY TheContext DEF Moving, Avail
<1>6. obj[c] \in Addr /\ Deref(c) \in Addr \cup {NULL}
  BY <1>1, <1>3, <1>4
<1>7. obj[c] \in Nat /\ Deref(c) \in Nat
  <2>1. Addr \subseteq Nat /\ NULL \in Nat
    BY AddrFacts DEF NULL
  <2>2. QED BY <1>6, <2>1, Zenon
<1>8. QED BY <1>3, <1>4, <1>5, <1>6, <1>7

\* slab_free() goes on to the next free object.
LEMMA WalkInv ==
  ASSUME OneContext, IInv, NEW c \in Ctx, slab_free_walk(c)
  PROVE  IInv'
<1>1. \A d \in Ctx : d = c
  BY DEF OneContext
<1>2. /\ TypeOK /\ CtxInv /\ pc[c] = "walk" /\ Deref(c) # NULL /\ obj[c] >= Deref(c)
      /\ at' = [at EXCEPT ![c] = Deref(c)]
      /\ UNCHANGED <<slabs, free_list, free_count, next, held, pc, cache, slab, obj>>
  BY DEF IInv, TypeInv, slab_free_walk
<1>3. /\ Deref(c) \in Avail(cache[c], slab[c])
      /\ obj[c] \notin Avail(cache[c], slab[c])
      /\ obj[c] \in Nat /\ Deref(c) \in Nat /\ Deref(c) \in Addr
  BY <1>2, DerefFree
<1>4. Deref(c) < obj[c]
  <2>1. Deref(c) # obj[c]
    BY <1>3
  <2>2. QED BY <1>2, <1>3, <2>1
<1>5. TypeOK' /\ at'[c] = Deref(c)
  BY <1>2, <1>3, Zenon DEF TypeOK
<1>6. Transit' = Transit /\ \A m : Ahead(m)' = Ahead(m)
  BY <1>2, TheContext, Zenon
<1>7. \A i, k : Avail(i, k)' = Avail(i, k)
  BY <1>2, <1>6 DEF Avail
<1>8. CtxInv'
  <2>1. \A d \in Ctx : d = c /\ pc[d] = "walk"
    BY <1>1, <1>2
  <2>2. /\ slab[c] \in Range(slabs[cache[c]])
        /\ obj[c] \in Objects(cache[c], slab[c]) /\ held[obj[c]] = 0
    BY <1>2, Zenon DEF CtxInv, Moving
  <2>3. at'[c] \in Avail(cache[c], slab[c])' /\ at'[c] < obj'[c]
    BY <1>2, <1>3, <1>4, <1>5, <1>7, Zenon
  <2>4. QED BY <1>2, <2>1, <2>2, <2>3, Zenon DEF CtxInv, Moving
<1>9. QED BY <1>2, <1>5, <1>6, <1>8, LocalInv

\* new_free_obj->next = *curr_obj.
LEMMA LinkInv ==
  ASSUME OneContext, IInv, NEW c \in Ctx, slab_free_link(c)
  PROVE  IInv'
<1>0. PICK i, k, a, n : i = cache[c] /\ k = slab[c] /\ a = obj[c] /\ n = Deref(c)
  OBVIOUS
<1> DEFINE F == Avail(i, k)
<1>1. /\ TypeInv /\ TypeOK /\ HeldInv /\ CtxInv /\ pc[c] = "walk" /\ (n = NULL \/ a < n)
      /\ next' = [next EXCEPT ![a] = n] /\ pc' = [pc EXCEPT ![c] = "splice"]
      /\ UNCHANGED <<slabs, free_list, free_count, held, cache, slab, obj, at>>
  BY <1>0 DEF IInv, TypeInv, slab_free_link, Goto, locals
<1>2. /\ i \in Cache /\ k \in Range(slabs[i]) /\ k \in Block /\ SlabInv(i, k)
      /\ F \subseteq Objects(i, k) /\ Objects(i, k) \subseteq Addr
  BY <1>0, <1>1, AtSlab, Zenon
<1>3. /\ a \notin F /\ a \in Objects(i, k) /\ held[a] = 0 /\ a \in Addr /\ n \in Addr \cup {NULL}
  BY <1>0, <1>1, DerefFree
<1>4. /\ TypeOK' /\ TypeInv' /\ pc'[c] = "splice"
      /\ next'[a] = n /\ \A b \in Addr \ {a} : next'[b] = next[b]
  <2>1. next \in [Addr -> Addr \cup {NULL}]
    BY <1>1 DEF TypeOK
  <2>2. next' \in [Addr -> Addr \cup {NULL}] /\ next'[a] = n /\ \A b \in Addr \ {a} : next'[b] = next[b]
    BY <1>1, <1>3, <2>1
  <2>3. QED BY <1>1, <2>2, Zenon DEF TypeOK, TypeInv
<1>5. Transit = {a} /\ Transit' = {a} /\ \A m : Ahead(m)' = Ahead(m)
  BY <1>0, <1>1, <1>4, TheContext DEF Moving
<1>6. Avail(i, k)' = F
  BY <1>1, <1>5 DEF Avail
<1>7. SlabInv(i, k)'
  <2>1. \A b \in F : next'[b] = next[b]
    BY <1>2, <1>3, <1>4, Zenon
  <2>2. QED BY <1>1, <1>2, <1>5, <1>6, <2>1, SlabFrame, Zenon
<1>8. SlabsInv'
  <2>1. /\ \A m \in Block \ {k} : free_list'[m] = free_list[m] /\ free_count'[m] = free_count[m]
        /\ \A m \in Block \ {k} : Ahead(m)' = Ahead(m)
        /\ Transit \subseteq Objects(i, k) /\ Transit' \subseteq Objects(i, k)
        /\ \A b \in Addr \ Objects(i, k) : next'[b] = next[b] /\ held'[b] = held[b]
    BY <1>1, <1>3, <1>4, <1>5, Zenon
  <2> HIDE DEF F
  <2>2. QED BY <1>1, <1>2, <1>7, <2>1, OneSlabInv, Zenon
<1>9. HeldInv'
  BY <1>1, Zenon DEF HeldInv
<1>10. CtxInv'
  <2>1. \A d \in Ctx : d = c
    BY DEF OneContext
  <2>2. at[c] = NULL \/ (at[c] \in F /\ at[c] < a)
    BY <1>0, <1>1, Zenon DEF CtxInv
  <2>3. Deref(c)' = n
    <3>1. CASE at[c] = NULL
      BY <1>0, <1>1, <3>1, Zenon DEF Deref
    <3>2. CASE at[c] # NULL
      <4>1. at[c] \in Addr \ {a}
        BY <1>2, <1>3, <2>2, <3>2, Zenon
      <4>2. QED BY <1>0, <1>1, <1>4, <3>2, <4>1, Zenon DEF Deref
    <3>3. QED BY <3>1, <3>2
  <2>4. /\ slab'[c] \in Range(slabs'[cache'[c]])
        /\ obj'[c] \in Objects(cache'[c], slab'[c]) /\ held'[obj'[c]] = 0
        /\ next'[obj'[c]] = n /\ (n = NULL \/ obj'[c] < n)
    BY <1>0, <1>1, <1>2, <1>3, <1>4, Zenon
  <2>5. at'[c] = NULL \/ (at'[c] \in Avail(cache[c], slab[c])' /\ at'[c] < obj'[c])
    <3>1. Avail(cache[c], slab[c])' = Avail(i, k)'
      BY <1>0, <1>1, Zenon
    <3>2. QED BY <1>0, <1>1, <1>6, <2>2, <3>1, Zenon
  <2>6. QED BY <1>4, <2>1, <2>3, <2>4, <2>5, Zenon DEF CtxInv, Moving
<1>11. QED BY <1>4, <1>8, <1>9, <1>10 DEF IInv

\* *curr_obj = new_free_obj.
LEMMA SpliceInv ==
  ASSUME OneContext, IInv, NEW c \in Ctx, slab_free_splice(c)
  PROVE  IInv'
<1>0. PICK i, k, a, b : i = cache[c] /\ k = slab[c] /\ a = obj[c] /\ b = at[c]
  OBVIOUS
<1> DEFINE F == Avail(i, k)
<1>1. /\ TypeInv /\ TypeOK /\ HeldInv /\ CtxInv /\ pc[c] = "splice"
      /\ pc' = [pc EXCEPT ![c] = "count"]
      /\ UNCHANGED <<slabs, free_count, held, cache, slab, obj, at>>
      /\ IF b = NULL THEN free_list' = [free_list EXCEPT ![k] = a] /\ UNCHANGED next
                     ELSE next' = [next EXCEPT ![b] = a] /\ UNCHANGED free_list
  BY <1>0 DEF IInv, TypeInv, slab_free_splice, Goto, locals
<1>2. /\ i \in Cache /\ k \in Range(slabs[i]) /\ k \in Block /\ SlabInv(i, k)
      /\ F \subseteq Objects(i, k) /\ Objects(i, k) \subseteq Addr
  BY <1>0, <1>1, AtSlab, Zenon
<1>3. /\ a \notin F /\ a \in Objects(i, k) /\ held[a] = 0 /\ a \in Addr
  BY <1>0, <1>1, DerefFree, Zenon
<1>4. b = NULL \/ (b \in F /\ b \in Addr /\ b < a)
  BY <1>0, <1>1, <1>2, Zenon DEF CtxInv
<1>5. /\ next \in [Addr -> Addr \cup {NULL}] /\ free_list \in [Block -> Addr \cup {NULL}]
      /\ next' \in [Addr -> Addr \cup {NULL}] /\ free_list' \in [Block -> Addr \cup {NULL}]
  <2>1. next \in [Addr -> Addr \cup {NULL}] /\ free_list \in [Block -> Addr \cup {NULL}]
    BY <1>1 DEF TypeOK
  <2>2. QED BY <1>1, <1>3, <2>1
<1>6. TypeOK' /\ TypeInv' /\ pc'[c] = "count"
  BY <1>1, <1>5, Zenon DEF TypeOK, TypeInv
<1>7. /\ Transit = {a} /\ Transit' = {}
      /\ \A m : Ahead(m) = 0 /\ Ahead(m)' = IF k = m THEN -1 ELSE 0
  BY <1>0, <1>1, <1>6, TheContext, Zenon DEF Moving
<1>8. Avail(i, k)' = F \cup {a}
  BY <1>1, <1>3, <1>7 DEF Avail
<1>9. IsFree(F \cup {a}, next', free_list'[k]) /\ Ordered(F \cup {a}, next')
  <2>1. IsFree(F, next, free_list[k]) /\ Ordered(F, next)
    BY <1>2 DEF SlabInv
  <2>2. CASE b = NULL
    <3>1. next[a] = free_list[k] /\ (free_list[k] = NULL \/ a < free_list[k])
      BY <1>0, <1>1, <2>2, Zenon DEF CtxInv, Deref
    <3>2. next' = next /\ free_list'[k] = a
      BY <1>1, <1>2, <1>5, <2>2
    <3> HIDE DEF F
    <3>3. IsFree(F \cup {a}, next, a) /\ Ordered(F \cup {a}, next)
      BY <1>3, <2>1, <3>1, InsertHead
    <3>4. QED BY <3>2, <3>3
  <2>3. CASE b # NULL
    <3>1. next[a] = next[b] /\ (next[b] = NULL \/ a < next[b])
      BY <1>0, <1>1, <2>3, Zenon DEF CtxInv, Deref
    <3>2. b \in F /\ b < a /\ next' = [next EXCEPT ![b] = a] /\ free_list'[k] = free_list[k]
      BY <1>1, <1>4, <2>3
    <3> HIDE DEF F
    <3>3. IsFree(F \cup {a}, [next EXCEPT ![b] = a], free_list[k]) /\ Ordered(F \cup {a}, [next EXCEPT ![b] = a])
      BY <1>3, <1>5, <2>1, <3>1, <3>2, InsertAfter, Zenon
    <3>4. QED BY <3>2, <3>3
  <2>4. QED BY <2>2, <2>3
<1>10. SlabInv(i, k)'
  <2>1. IsFiniteSet(F) /\ Cardinality(F) \in Nat
    BY <1>1, <1>2, AvailFacts, Zenon
  <2>2. free_count[k] = Cardinality(F) + 0
    BY <1>2, <1>7 DEF SlabInv
  <2> HIDE DEF F
  <2>3. Cardinality(F \cup {a}) = Cardinality(F) + 1
    BY <1>3, <2>1, FS_AddElement, Zenon
  <2>4. free_count'[k] = Cardinality(F \cup {a}) + Ahead(k)'
    BY <1>1, <1>7, <2>1, <2>2, <2>3
  <2>5. QED BY <1>8, <1>9, <2>4, Zenon DEF SlabInv
<1>11. SlabsInv'
  <2>1. \A m \in Block \ {k} : free_list'[m] = free_list[m] /\ free_count'[m] = free_count[m]
    BY <1>1, <1>5, Zenon
  <2>2. \A d \in Addr \ Objects(i, k) : next'[d] = next[d] /\ held'[d] = held[d]
    <3>1. CASE b = NULL
      BY <1>1, <3>1
    <3>2. CASE b # NULL
      BY <1>1, <1>2, <1>4, <1>5, <3>2, Zenon
    <3>3. QED BY <3>1, <3>2
  <2>3. /\ \A m \in Block \ {k} : Ahead(m)' = Ahead(m)
        /\ Transit \subseteq Objects(i, k) /\ Transit' \subseteq Objects(i, k)
    BY <1>3, <1>7
  <2> HIDE DEF F
  <2>4. QED BY <1>1, <1>2, <1>10, <2>1, <2>2, <2>3, OneSlabInv, Zenon
<1>12. HeldInv'
  BY <1>1 DEF HeldInv
<1>13. CtxInv'
  <2>1. \A d \in Ctx : d = c
    BY DEF OneContext
  <2>2. slab'[c] \in Range(slabs'[cache'[c]])
    BY <1>0, <1>1, <1>2, Zenon
  <2>3. QED BY <1>6, <2>1, <2>2, Zenon DEF CtxInv, Moving
<1>14. QED BY <1>6, <1>11, <1>12, <1>13 DEF IInv

\* The object is counted.
LEMMA CountInv ==
  ASSUME OneContext, IInv, NEW c \in Ctx, slab_free_count(c)
  PROVE  IInv'
<1>0. PICK i, k : i = cache[c] /\ k = slab[c]
  OBVIOUS
<1> DEFINE F == Avail(i, k)
<1>1. /\ TypeInv /\ TypeOK /\ HeldInv /\ pc[c] = "count"
      /\ free_count' = [free_count EXCEPT ![k] = @ + 1] /\ Return(c)
      /\ UNCHANGED <<slabs, free_list, next, held>>
  BY <1>0 DEF IInv, TypeInv, slab_free_count
<1>2. /\ i \in Cache /\ k \in Range(slabs[i]) /\ k \in Block /\ SlabInv(i, k)
  BY <1>0, <1>1, AtSlab
<1>3. /\ Transit = {} /\ Transit' = {}
      /\ \A m : Ahead(m) = (IF k = m THEN -1 ELSE 0) /\ Ahead(m)' = 0
  <2>1. Transit = {} /\ \A m : Ahead(m) = (IF k = m THEN -1 ELSE 0)
    BY <1>0, <1>1, TheContext DEF Moving
  <2>2. Transit' = {} /\ \A m : Ahead(m)' = 0
    BY <1>1, ReturnCtx
  <2>3. QED BY <2>1, <2>2
<1>4. /\ free_count \in [Block -> Nat] /\ free_count' \in [Block -> Nat]
      /\ free_count'[k] = free_count[k] + 1 /\ free_count[k] \in Nat
      /\ \A m \in Block \ {k} : free_count'[m] = free_count[m]
  <2>1. free_count \in [Block -> Nat] /\ free_count[k] \in Nat
    BY <1>1, <1>2 DEF TypeOK
  <2>2. QED BY <1>1, <1>2, <2>1
<1>5. TypeOK' /\ TypeInv'
  BY <1>1, <1>4, ReturnCtx, Zenon DEF TypeOK, TypeInv
<1>6. Avail(i, k)' = F
  BY <1>1, <1>3 DEF Avail
<1>7. SlabInv(i, k)'
  <2>1. IsFree(F, next, free_list[k]) /\ Ordered(F, next) /\ free_count[k] = Cardinality(F) + (-1)
    BY <1>2, <1>3 DEF SlabInv
  <2>2. Cardinality(F) \in Nat
    BY <1>1, <1>2, AvailFacts
  <2>3. free_count'[k] = Cardinality(F) + 0
    BY <1>4, <2>1, <2>2
  <2>4. QED BY <1>1, <1>3, <1>6, <2>1, <2>3 DEF SlabInv
<1>8. SlabsInv'
  <2>1. /\ \A m \in Block \ {k} : free_list'[m] = free_list[m] /\ free_count'[m] = free_count[m]
        /\ \A m \in Block \ {k} : Ahead(m)' = Ahead(m)
        /\ Transit \subseteq Objects(i, k) /\ Transit' \subseteq Objects(i, k)
        /\ \A b \in Addr \ Objects(i, k) : next'[b] = next[b] /\ held'[b] = held[b]
    BY <1>1, <1>3, <1>4, Zenon
  <2> HIDE DEF F
  <2>2. QED BY <1>1, <1>2, <1>7, <2>1, OneSlabInv, Zenon
<1>9. HeldInv'
  BY <1>1 DEF HeldInv
<1>10. CtxInv'
  BY <1>1, ReturnCtx, Zenon
<1>11. QED BY <1>5, <1>8, <1>9, <1>10 DEF IInv

-----------------------------------------------------------------------------
(* What holds in every reachable state *)

\* Every step keeps the invariant.
LEMMA NextInv ==
  ASSUME OneContext, IInv, [Next]_vars
  PROVE  IInv'
<1>1. CASE UNCHANGED vars
  BY <1>1, StutterInv
<1>2. CASE Next
  <2>1. PICK c \in Ctx : Step(c) \/ Call(c)
    BY <1>2 DEF Next
  <2>2. CASE Step(c)
    BY <2>2, FromCacheInv, FirstInv, PopInv, HandOutInv, CallInv, AddFrameInv, WalkInv,
       LinkInv, SpliceInv, CountInv DEF Step
  <2>3. CASE Call(c)
    BY <2>3, CallInv, FreeInv DEF Call
  <2>4. QED BY <2>1, <2>2, <2>3
<1>3. QED BY <1>1, <1>2

\* Every slab's free list is sorted, ends, and holds just the objects of the slab that
\* are not with a caller; what an operation under way still has to store is what
\* separates list, count and object.
THEOREM Invariance ==
  ASSUME OneContext
  PROVE  Spec => []IInv
<1>1. Init => IInv
  BY InitInv
<1>2. IInv /\ [Next]_vars => IInv'
  BY NextInv
<1>3. QED BY <1>1, <1>2, PTL DEF Spec

\* Every variable keeps the type of the C object it stands for: no free list leads
\* out of the blocks and no free_count falls below zero.
THEOREM TypeCorrect ==
  ASSUME OneContext
  PROVE  Spec => []TypeOK
<1>1. IInv => TypeOK
  BY DEF IInv, TypeInv
<1>2. QED BY <1>1, Invariance, PTL

\* kmalloc() hands no byte to two callers, whatever caches their objects come from.
THEOREM Disjoint ==
  ASSUME OneContext
  PROVE  Spec => []HandedOutOnce
<1>1. ASSUME IInv PROVE HandedOutOnce
  <2>1. \A a \in Addr : held[a] <= 1
    BY <1>1 DEF IInv, HeldInv
  <2>2. ASSUME NEW i \in Cache, NEW j \in Cache, NEW k \in Range(slabs[i]), NEW m \in Range(slabs[j]),
               NEW a \in Objects(i, k), NEW b \in Objects(j, m)
        PROVE  /\ a >= start_addr(k) /\ a + ObjectSize[i] <= end_addr(k)
               /\ a # b \/ i # j => a + ObjectSize[i] <= b \/ b + ObjectSize[j] <= a
    <3>1. k \in Block /\ m \in Block
      BY <1>1, AvailFacts DEF IInv
    <3>2. /\ a \in Nat /\ a >= start_addr(k) /\ a + ObjectSize[i] <= end_addr(k)
          /\ b \in Nat /\ b >= start_addr(m) /\ b + ObjectSize[j] <= end_addr(m)
      BY <3>1, ObjectInSpan
    <3>3. /\ ObjectSize[i] \in Nat /\ ObjectSize[j] \in Nat
          /\ start_addr(k) \in Nat /\ start_addr(m) \in Nat
          /\ end_addr(k) \in Nat /\ end_addr(m) \in Nat /\ k \in Nat /\ m \in Nat
      BY <3>1, CountFits, BlockBounds
    <3>4. CASE k = m
      <4>1. i = j
        BY <1>1, <3>4, Elsewhere
      <4>2. QED BY <3>1, <3>2, <3>4, <4>1, ObjectsApart
    <3>5. CASE k < m
      <4>1. end_addr(k) < start_addr(m)
        BY <3>1, <3>5, BlocksApart
      <4>2. QED BY <3>2, <3>3, <4>1
    <3>6. CASE m < k
      <4>1. end_addr(m) < start_addr(k)
        BY <3>1, <3>6, BlocksApart
      <4>2. QED BY <3>2, <3>3, <4>1
    <3>7. QED BY <3>3, <3>4, <3>5, <3>6
  <2>3. QED BY <2>1, <2>2 DEF HandedOutOnce
<1>2. IInv => HandedOutOnce
  BY <1>1
<1>3. QED BY <1>2, Invariance, PTL

\* Between calls every object is with its caller or on the sorted free list of its own
\* slab, and free_count is the length of that list.
THEOREM AllAccountedFor ==
  ASSUME OneContext
  PROVE  Spec => []NothingLost
<1>1. ASSUME IInv, Quiet
      PROVE  /\ \A i \in Cache : \A k \in Range(slabs[i]) :
                  /\ {a \in Objects(i, k) : held[a] = 0} = Free(k)
                  /\ \A a \in Free(k) : next[a] = NULL \/ next[a] > a
             /\ \A k \in Block : free_count[k] = Cardinality(Free(k))
  <2>1. Transit = {} /\ \A k : Ahead(k) = 0
    BY <1>1 DEF Quiet, Transit, Ahead, Moving
  <2>2. ASSUME NEW i \in Cache, NEW k \in Range(slabs[i])
        PROVE  /\ {a \in Objects(i, k) : held[a] = 0} = Free(k)
               /\ \A a \in Free(k) : next[a] = NULL \/ next[a] > a
               /\ free_count[k] = Cardinality(Free(k))
    <3>1. Free(k) = Avail(i, k)
      BY <1>1, FreeIsAvail
    <3>2. SlabInv(i, k)
      BY <1>1 DEF IInv, SlabsInv
    <3>3. Cardinality(Avail(i, k)) \in Nat
      BY <1>1, AvailFacts DEF IInv
    <3>4. {a \in Objects(i, k) : held[a] = 0} = Avail(i, k)
      BY <2>1 DEF Avail
    <3>5. Ordered(Avail(i, k), next) /\ free_count[k] = Cardinality(Avail(i, k)) + 0
      BY <2>1, <3>2 DEF SlabInv
    <3>6. QED BY <3>1, <3>3, <3>4, <3>5 DEF Ordered
  <2>3. ASSUME NEW k \in Unused PROVE free_count[k] = Cardinality(Free(k))
    <3>1. free_list[k] = NULL /\ free_count[k] = 0
      BY <1>1 DEF IInv, SlabsInv
    <3>2. IsFree({}, next, NULL)
      BY DEF IsFree, Encloses
    <3>3. IsFiniteSet({}) /\ Cardinality({}) = 0 /\ 0 < BlockSize
      BY FS_EmptySet, SlabConstants
    <3>4. FreeBy(next, NULL) = {}
      BY <3>2, <3>3, FreeIs
    <3>5. QED BY <3>1, <3>3, <3>4, FreeByNext
  <2>4. \A k \in Block : k \in Unused \/ \E i \in Cache : k \in Range(slabs[i])
    BY DEF Unused
  <2>5. QED BY <2>2, <2>3, <2>4
<1>2. IInv => NothingLost
  BY <1>1 DEF NothingLost
<1>3. QED BY <1>2, Invariance, PTL

\* kmalloc() returns NULL only when no slab of the cache has a free object, even after
\* it asked for another one.
THEOREM FailsOnlyWhenFull ==
  ASSUME OneContext
  PROVE  Spec => NullOnlyWhenFull
<1> DEFINE Full == \A c \in Ctx :
       pc[c] # "idle" /\ pc'[c] = "idle" /\ held' = held /\ free_count' = free_count
         => pc[c] = "again" /\ \A k \in Range(slabs[cache[c]]) : Free(k) = {}
<1>1. ASSUME IInv, Next, NEW c \in Ctx, pc[c] # "idle", pc'[c] = "idle",
             held' = held, free_count' = free_count
      PROVE  pc[c] = "again" /\ \A k \in Range(slabs[cache[c]]) : Free(k) = {}
  <2>1. TypeOK /\ TypeInv /\ cache[c] \in Cache
    BY <1>1, Zenon DEF IInv, TypeInv, TypeOK
  <2>2. Step(c) \/ Call(c)
    BY <1>1 DEF Next, OneContext
  <2>3. slab_alloc_from_cache(c)
    <3>1. ~Call(c)
      BY <1>1, Zenon DEF Call, kmalloc, kfree
    <3>2. ~slab_alloc_first(c)
      <4>1. SUFFICES ASSUME slab_alloc_first(c) PROVE FALSE
        OBVIOUS
      <4>2. pc[c] = "first"
        BY <4>1 DEF slab_alloc_first
      <4>3. pc'[c] = "pop"
        BY <1>1, <2>1, <4>1, <4>2, HasFirst, Zenon DEF slab_alloc_first, Goto, TypeOK
      <4>4. QED BY <1>1, <4>3
    <3>3. ~slab_alloc_pop(c) /\ ~slab_add_cache_frame_fail(c) /\ ~slab_add_cache_frame(c)
          /\ ~slab_free_link(c) /\ ~slab_free_splice(c)
      BY <1>1, <2>1 DEF slab_alloc_pop, slab_add_cache_frame_fail, slab_add_cache_frame,
           slab_free_link, slab_free_splice, Goto, TypeOK
    <3>4. ~slab_free_walk(c)
      BY <1>1 DEF slab_free_walk
    <3>5. ~slab_alloc_return(c)
      <4>1. SUFFICES ASSUME slab_alloc_return(c) PROVE FALSE
        OBVIOUS
      <4>2. pc[c] = "uncount"
        BY <4>1 DEF slab_alloc_return
      <4>3. slab[c] \in Block /\ free_count[slab[c]] \in Nat
        BY <1>1, <2>1, <4>2, AtSlab DEF TypeOK
      <4>4. free_count'[slab[c]] = free_count[slab[c]] - 1
        BY <2>1, <4>1, <4>3, Zenon DEF slab_alloc_return, TypeOK
      <4>5. QED BY <1>1, <4>3, <4>4, CountMoves, Zenon
    <3>6. ~slab_free_count(c)
      <4>1. SUFFICES ASSUME slab_free_count(c) PROVE FALSE
        OBVIOUS
      <4>2. pc[c] = "count"
        BY <4>1 DEF slab_free_count
      <4>3. slab[c] \in Block /\ free_count[slab[c]] \in Nat
        BY <1>1, <2>1, <4>2, AtSlab, Zenon DEF TypeOK
      <4>4. free_count'[slab[c]] = free_count[slab[c]] + 1
        BY <2>1, <4>1, <4>3, Zenon DEF slab_free_count, TypeOK
      <4>5. QED BY <1>1, <4>3, <4>4, CountMoves, Zenon
    <3>7. QED BY <2>2, <3>1, <3>2, <3>3, <3>4, <3>5, <3>6 DEF Step
  <2>4. pc[c] = "again" /\ FirstSlab(cache[c], HasFree) = 0
    BY <1>1, <2>1, <2>3, Zenon DEF slab_alloc_from_cache, Goto, TypeOK
  <2>5. \A k \in Range(slabs[cache[c]]) : free_count[k] = 0
    BY <2>1, <2>4, FirstFree
  <2>6. \A k : Ahead(k) = 0
    BY <2>4, TheContext
  <2>7. ASSUME NEW k \in Range(slabs[cache[c]]) PROVE Free(k) = {}
    <3>1. Free(k) = Avail(cache[c], k) /\ SlabInv(cache[c], k)
      BY <1>1, <2>1, FreeIsAvail, Zenon DEF IInv, SlabsInv
    <3>2. IsFiniteSet(Avail(cache[c], k)) /\ Cardinality(Avail(cache[c], k)) \in Nat
      BY <2>1, AvailFacts
    <3>3. Cardinality(Avail(cache[c], k)) = 0
      BY <2>5, <2>6, <3>1, <3>2, CountMoves, Zenon DEF SlabInv
    <3>4. QED BY <3>1, <3>2, <3>3, FS_EmptySet
  <2>8. QED BY <2>4, <2>7
<1>2. IInv /\ [Next]_vars => [Full]_vars
  BY <1>1
<1>3. NullOnlyWhenFull <=> [][Full]_vars
  BY DEF NullOnlyWhenFull
<1> HIDE DEF Full
<1>4. QED BY <1>2, <1>3, Invariance, PTL DEF Spec

=============================================================================
