------------------------------ MODULE VmProofs -------------------------------
(***************************************************************************)
(* Page tables and use counts, for any spaces, frames, sizes of tables and *)
(* directories, and any choice of frames by the page allocator.            *)
(*                                                                         *)
(* The invariant VInv: use_count is the number of references (Counted),    *)
(* a directory or table in use has a use count of 1 (OneUse), and a space  *)
(* that does not exist has no tables (NoTables).  With these a store into  *)
(* a table changes the translations of one space only, so that every step  *)
(* can be told by what it does to the flat map of translations.            *)
(***************************************************************************)
EXTENDS Vm, FiniteSetTheorems, TLAPS

\* The frame in an entry
FrameOf(e) == IF e = None THEN None ELSE e.frame

\* All translations, as a flat map
Flattened == [s \in Space |-> [v \in VPage |-> Translation(s, v)]]

\* Who refers to frame f in a map from spaces and I to frames: a directory entry or a page
Referring(I, X, f) == {x \in Space \X I : X[x[1]][x[2]] = f}

\* Whose directory frame f is
Owners(P, f) == {s \in Space : P[s] = f}

-----------------------------------------------------------------------------
(* Arithmetic *)

LEMMA Sizes ==
  /\ PAGE_TABLE_SIZE \in Nat \ {0} /\ pde_max \in Nat /\ PAGE_DIR_SIZE \in Nat
  /\ pde_max < PAGE_DIR_SIZE /\ Pde \subseteq Nat
  /\ IsFiniteSet(Pde) /\ IsFiniteSet(VPage)
<1>1. /\ PAGE_TABLE_SIZE \in Nat \ {0} /\ pde_max \in Nat /\ PAGE_DIR_SIZE \in Nat
      /\ pde_max < PAGE_DIR_SIZE
  BY VmConstants
<1>2. pde_max * PAGE_TABLE_SIZE - 1 \in Int /\ PAGE_DIR_SIZE - 1 \in Int
  BY <1>1
<1>3. IsFiniteSet(Pde) /\ IsFiniteSet(VPage)
  BY <1>2, FS_Interval DEF Pde, VPage
<1>4. QED BY <1>1, <1>3 DEF Pde

\* A page is where its directory and its table index say.
LEMMA Indices ==
  ASSUME NEW v \in VPage
  PROVE  /\ v \in Nat
         /\ PAGE_DIRECTORY_INDEX(v) \in Pde /\ PAGE_DIRECTORY_INDEX(v) < pde_max
         /\ PAGE_TABLE_INDEX(v) \in Pte
         /\ v = PAGE_DIRECTORY_INDEX(v) * PAGE_TABLE_SIZE + PAGE_TABLE_INDEX(v)
<1> DEFINE n == PAGE_TABLE_SIZE
           q == v \div n
<1>1. n \in Nat \ {0} /\ pde_max \in Nat /\ PAGE_DIR_SIZE \in Nat /\ pde_max < PAGE_DIR_SIZE
  BY Sizes
<1>2. v \in Nat /\ v < pde_max * n
  BY <1>1 DEF VPage
<1>3. q \in Nat /\ v % n \in 0 .. n - 1 /\ v = q * n + (v % n)
  BY <1>1, <1>2
<1> HIDE DEF n, q
<1>4. q * n <= v
  BY <1>1, <1>3
<1>5. q < pde_max
  <2>1. pde_max <= q => pde_max * n <= q * n
    BY <1>1, <1>3
  <2>2. QED BY <1>1, <1>2, <1>3
<1>6. q \in Pde
  BY <1>1, <1>3, <1>5 DEF Pde
<1>7. QED BY <1>2, <1>3, <1>5, <1>6, Zenon DEF n, q, PAGE_DIRECTORY_INDEX, PAGE_TABLE_INDEX,
             Pte

\* Different pages differ in an index.
LEMMA IndicesDiffer ==
  ASSUME NEW v \in VPage, NEW w \in VPage,
         PAGE_DIRECTORY_INDEX(v) = PAGE_DIRECTORY_INDEX(w),
         PAGE_TABLE_INDEX(v) = PAGE_TABLE_INDEX(w)
  PROVE  v = w
BY Indices, Zenon

-----------------------------------------------------------------------------
(* Counting *)

\* As many pairs <<s, x>> as there are x.
LEMMA PairsCounted ==
  ASSUME NEW A, IsFiniteSet(A), NEW s
  PROVE  LET B == {<<s, x>> : x \in A} IN
         IsFiniteSet(B) /\ Cardinality(B) = Cardinality(A)
<1> DEFINE B == {<<s, x>> : x \in A}
           g == [x \in A |-> <<s, x>>]
<1>1. g \in Bijection(A, B)
  BY Zenon DEF Bijection, Injection, Surjection, IsInjective
<1>2. ExistsBijection(A, B)
  BY <1>1, Zenon DEF ExistsBijection
<1> HIDE DEF B
<1>3. IsFiniteSet(B) /\ Cardinality(B) = Cardinality(A)
  BY <1>2, FS_Bijection, Zenon
<1>4. QED BY <1>3 DEF B

\* When the places V of space s, which did not refer to f, are set anew.
\* Which of the places V in the row x refer to f
Hits(V, x, f) == {i \in V : x[i] = f}

Reset(I, X, Y, s, V, f) ==
  /\ IsFiniteSet(I) /\ s \in Space /\ V \subseteq I
  /\ \A r \in Space \ {s}, i \in I : Y[r][i] = X[r][i]
  /\ \A i \in I \ V : Y[s][i] = X[s][i]
  /\ \A i \in V : X[s][i] # f

LEMMA Recount ==
  ASSUME NEW I, NEW X, NEW Y, NEW s, NEW V, NEW f, Reset(I, X, Y, s, V, f)
  PROVE  /\ Cardinality(Referring(I, X, f)) \in Nat
         /\ Cardinality(Hits(V, Y[s], f)) \in Nat
         /\ Cardinality(Referring(I, Y, f))
              = Cardinality(Referring(I, X, f)) + Cardinality(Hits(V, Y[s], f))
<1> DEFINE A == {i \in V : Y[s][i] = f}
           B == {<<s, i>> : i \in A}
           R == Referring(I, X, f)
<1>1. IsFiniteSet(Space \X I)
  BY VmConstants, FS_Product, Zenon DEF Reset
<1>2. IsFiniteSet(R) /\ Cardinality(R) \in Nat
  <2>1. R \in SUBSET (Space \X I)
    BY Zenon DEF Referring
  <2> HIDE DEF R
  <2>2. QED BY <1>1, <2>1, FS_Subset, FS_CardinalityType, Zenon
<1>3. IsFiniteSet(A) /\ Cardinality(A) \in Nat
  <2>1. A \in SUBSET I
    BY Zenon DEF Reset
  <2> HIDE DEF A
  <2>2. QED BY <2>1, FS_Subset, FS_CardinalityType, Zenon DEF Reset
<1>4. IsFiniteSet(B) /\ Cardinality(B) = Cardinality(A)
  <2> HIDE DEF A
  <2>1. QED BY <1>3, PairsCounted, Zenon
<1>5. R \cap B = {}
  BY DEF Referring, Reset
<1>6. Referring(I, Y, f) = R \cup B
  <2>1. ASSUME NEW r \in Space, NEW i \in I
        PROVE  <<r, i>> \in Referring(I, Y, f) <=> <<r, i>> \in R \cup B
    <3>1. <<r, i>> \in Referring(I, Y, f) <=> Y[r][i] = f
      BY Zenon DEF Referring
    <3>2. <<r, i>> \in R <=> X[r][i] = f
      BY Zenon DEF Referring
    <3>3. <<r, i>> \in B <=> r = s /\ i \in V /\ Y[s][i] = f
      OBVIOUS
    <3>4. QED BY <3>1, <3>2 DEF Reset
  <2>2. Referring(I, Y, f) \subseteq Space \X I /\ R \cup B \subseteq Space \X I
    BY DEF Referring, Reset
  <2> HIDE DEF R, B
  <2>3. QED BY <2>1, <2>2
<1>7. Cardinality(R \cup B) = Cardinality(R) + Cardinality(B)
  <2> HIDE DEF R, B
  <2>1. Cardinality(R \cup B) = Cardinality(R) + Cardinality(B) - Cardinality(R \cap B)
    BY <1>2, <1>4, FS_Union, Zenon
  <2>2. Cardinality(R \cap B) = 0
    BY <1>5, FS_EmptySet, Zenon
  <2> HIDE DEF A
  <2>3. QED BY <1>3, <1>4, <2>1, <2>2
<1>8. QED BY <1>2, <1>3, <1>4, <1>6, <1>7, Zenon DEF Hits

LEMMA ZeroSum ==
  ASSUME NEW k \in Nat, NEW l \in Nat, NEW m \in Nat, NEW n \in Nat, 0 = k + l + m + n
  PROVE  k = 0 /\ l = 0 /\ m = 0 /\ n = 0
OBVIOUS

\* A count that nobody contributes to.
LEMMA NoneCounted ==
  ASSUME NEW A, IsFiniteSet(A)
  PROVE  Cardinality(A) \in Nat /\ (Cardinality(A) = 0 <=> A = {})
BY FS_CardinalityType, FS_EmptySet

-----------------------------------------------------------------------------
(* The inductive invariant *)

\* RefsCounted, of given counts, references of callers, directories and translations
Counted(u, h, P, D, X) ==
  /\ u[Kernel] = 1 /\ h \in [Frame -> Nat]
  /\ \A f \in Frame :
       u[f] = h[f] + Cardinality(Owners(P, f)) + Cardinality(Referring(Pde, D, f))
                   + Cardinality(Referring(VPage, X, f))

\* A directory or a table has one reference.
OneUse(u, P, D) ==
  \A f \in Frame, s \in Space :
    P[s] = f \/ (\E i \in Pde : D[s][i] = f) => u[f] = 1

\* No space, no tables
NoTables(P, D) == \A s \in Space : P[s] = None => D[s] = kernel_pgd

VInv ==
  /\ TypeOK
  /\ Counted(use_count, held, pgd, dir, Flattened)
  /\ OneUse(use_count, pgd, dir)
  /\ NoTables(pgd, dir)

LEMMA Cards ==
  ASSUME NEW P, NEW D, NEW X, NEW f
  PROVE  /\ IsFiniteSet(Owners(P, f)) /\ Cardinality(Owners(P, f)) \in Nat
         /\ Cardinality(Owners(P, f)) = 0 <=> Owners(P, f) = {}
         /\ IsFiniteSet(Referring(Pde, D, f)) /\ Cardinality(Referring(Pde, D, f)) \in Nat
         /\ Cardinality(Referring(Pde, D, f)) = 0 <=> Referring(Pde, D, f) = {}
         /\ IsFiniteSet(Referring(VPage, X, f)) /\ Cardinality(Referring(VPage, X, f)) \in Nat
         /\ Cardinality(Referring(VPage, X, f)) = 0 <=> Referring(VPage, X, f) = {}
<1>1. IsFiniteSet(Space) /\ IsFiniteSet(Space \X Pde) /\ IsFiniteSet(Space \X VPage)
  BY VmConstants, Sizes, FS_Product, Zenon
<1>2. /\ Owners(P, f) \in SUBSET Space
      /\ Referring(Pde, D, f) \in SUBSET (Space \X Pde)
      /\ Referring(VPage, X, f) \in SUBSET (Space \X VPage)
  BY Zenon DEF Owners, Referring
<1>3. /\ IsFiniteSet(Owners(P, f)) /\ IsFiniteSet(Referring(Pde, D, f))
      /\ IsFiniteSet(Referring(VPage, X, f))
  BY <1>1, <1>2, FS_Subset, Zenon
<1>4. QED BY <1>3, NoneCounted, Zenon

\* A free frame is not referred to.
LEMMA FreeUnseen ==
  ASSUME NEW u, NEW h, NEW P, NEW D, NEW X, Counted(u, h, P, D, X),
         NEW f \in Frame, u[f] = 0
  PROVE  /\ h[f] = 0
         /\ \A s \in Space : P[s] # f
         /\ \A s \in Space, i \in Pde : D[s][i] # f
         /\ \A s \in Space, v \in VPage : X[s][v] # f
<1> DEFINE a == Cardinality(Owners(P, f))
           b == Cardinality(Referring(Pde, D, f))
           c == Cardinality(Referring(VPage, X, f))
<1>1. a \in Nat /\ b \in Nat /\ c \in Nat /\ h[f] \in Nat
  BY Cards DEF Counted
<1>2. 0 = h[f] + a + b + c
  BY Zenon DEF Counted
<1>3. h[f] = 0 /\ a = 0 /\ b = 0 /\ c = 0
  <2> HIDE DEF a, b, c
  <2>1. QED BY <1>1, <1>2, ZeroSum, Zenon
<1>4. Owners(P, f) = {} /\ Referring(Pde, D, f) = {} /\ Referring(VPage, X, f) = {}
  BY <1>3, Cards, Zenon
<1>5. \A s \in Space : P[s] # f
  BY <1>4, Zenon DEF Owners
<1>6. ASSUME NEW s \in Space, NEW i \in Pde PROVE D[s][i] # f
  <2>1. <<s, i>> \notin Referring(Pde, D, f)
    BY <1>4, Zenon
  <2>2. QED BY <2>1, Zenon DEF Referring
<1>7. ASSUME NEW s \in Space, NEW v \in VPage PROVE X[s][v] # f
  <2>1. <<s, v>> \notin Referring(VPage, X, f)
    BY <1>4, Zenon
  <2>2. QED BY <2>1, Zenon DEF Referring
<1>8. QED BY <1>3, <1>5, <1>6, <1>7, Zenon

\* In particular, nobody sees a free frame.
LEMMA FreeNow ==
  ASSUME VInv, NEW f \in Frame, use_count[f] = 0
  PROVE  /\ held[f] = 0
         /\ \A s \in Space : pgd[s] # f
         /\ \A s \in Space, i \in Pde : dir[s][i] # f
         /\ \A s \in Space, v \in VPage : Flattened[s][v] # f
<1>1. Counted(use_count, held, pgd, dir, Flattened)
  BY Zenon DEF VInv
<1>2. QED BY <1>1, FreeUnseen, SMTT(20)

\* A table is referred to where it is linked, and nowhere else.
LEMMA TableSole ==
  ASSUME NEW u, NEW h, NEW P, NEW D, NEW X, Counted(u, h, P, D, X),
         NEW f \in Frame, u[f] = 1, NEW s \in Space, NEW i \in Pde, D[s][i] = f
  PROVE  /\ h[f] = 0
         /\ \A r \in Space : P[r] # f
         /\ \A r \in Space, j \in Pde : D[r][j] = f => r = s /\ j = i
         /\ \A r \in Space, v \in VPage : X[r][v] # f
<1> DEFINE a == Cardinality(Owners(P, f))
           b == Cardinality(Referring(Pde, D, f))
           c == Cardinality(Referring(VPage, X, f))
<1>1. a \in Nat /\ b \in Nat /\ c \in Nat /\ h[f] \in Nat
  BY Cards, Zenon DEF Counted
<1>2. 1 = h[f] + a + b + c
  BY Zenon DEF Counted
<1>3. <<s, i>> \in Referring(Pde, D, f)
  BY Zenon DEF Referring
<1>4. b # 0
  BY <1>3, Cards, Zenon
<1>5. h[f] = 0 /\ a = 0 /\ b = 1 /\ c = 0
  <2> HIDE DEF a, b, c
  <2>1. QED BY <1>1, <1>2, <1>4
<1>6. Owners(P, f) = {} /\ Referring(VPage, X, f) = {}
  BY <1>5, Cards, Zenon
<1>7. PICK x : Referring(Pde, D, f) = {x}
  BY <1>5, Cards, FS_Singleton, Zenon
<1>8. \A r \in Space : P[r] # f
  BY <1>6, Zenon DEF Owners
<1>9. ASSUME NEW r \in Space, NEW j \in Pde, D[r][j] = f PROVE r = s /\ j = i
  <2>1. <<r, j>> \in Referring(Pde, D, f)
    BY <1>9, Zenon DEF Referring
  <2>2. <<r, j>> = <<s, i>>
    BY <1>3, <1>7, <2>1, Zenon
  <2>3. QED BY <2>2, Zenon
<1>10. ASSUME NEW r \in Space, NEW v \in VPage PROVE X[r][v] # f
  <2>1. <<r, v>> \notin Referring(VPage, X, f)
    BY <1>6, Zenon
  <2>2. QED BY <2>1, Zenon DEF Referring
<1>11. QED BY <1>5, <1>8, <1>9, <1>10, Zenon

\* A directory is referred to by its space, and by nothing else.
LEMMA DirectorySole ==
  ASSUME NEW u, NEW h, NEW P, NEW D, NEW X, Counted(u, h, P, D, X),
         NEW f \in Frame, u[f] = 1, NEW s \in Space, P[s] = f
  PROVE  /\ h[f] = 0
         /\ \A r \in Space : P[r] = f => r = s
         /\ \A r \in Space, j \in Pde : D[r][j] # f
         /\ \A r \in Space, v \in VPage : X[r][v] # f
<1> DEFINE a == Cardinality(Owners(P, f))
           b == Cardinality(Referring(Pde, D, f))
           c == Cardinality(Referring(VPage, X, f))
<1>1. a \in Nat /\ b \in Nat /\ c \in Nat /\ h[f] \in Nat
  BY Cards, Zenon DEF Counted
<1>2. 1 = h[f] + a + b + c
  BY Zenon DEF Counted
<1>3. s \in Owners(P, f)
  BY Zenon DEF Owners
<1>4. a # 0
  BY <1>3, Cards, Zenon
<1>5. h[f] = 0 /\ a = 1 /\ b = 0 /\ c = 0
  <2> HIDE DEF a, b, c
  <2>1. QED BY <1>1, <1>2, <1>4
<1>6. Referring(Pde, D, f) = {} /\ Referring(VPage, X, f) = {}
  BY <1>5, Cards
<1>7. PICK x : Owners(P, f) = {x}
  BY <1>5, Cards, FS_Singleton, Zenon
<1>8. \A r \in Space : P[r] = f => r = s
  BY <1>3, <1>7, Zenon DEF Owners
<1>9. ASSUME NEW r \in Space, NEW j \in Pde PROVE D[r][j] # f
  <2>1. <<r, j>> \notin Referring(Pde, D, f)
    BY <1>6, Zenon
  <2>2. QED BY <2>1, Zenon DEF Referring
<1>10. ASSUME NEW r \in Space, NEW v \in VPage PROVE X[r][v] # f
  <2>1. <<r, v>> \notin Referring(VPage, X, f)
    BY <1>6, Zenon
  <2>2. QED BY <2>1, Zenon DEF Referring
<1>11. QED BY <1>5, <1>8, <1>9, <1>10, Zenon

-----------------------------------------------------------------------------
(* What storing entries does to the translations *)

\* The tables t are new, different and cleared, and there is one for every entry of E.
Fits(s, t, new, E) ==
  /\ DOMAIN t \subseteq {i \in Pde : i < pde_max /\ dir[s][i] = None}
  /\ \A i \in DOMAIN t : t[i] \in Free
  /\ \A i, j \in DOMAIN t : t[i] = t[j] => i = j
  /\ new \in [Pte -> Entry] /\ (new = Cleared \/ DOMAIN t = {})
  /\ DOMAIN E \subseteq VPage /\ \A v \in DOMAIN E : E[v] \in Entry
  /\ \A v \in DOMAIN E : \/ PAGE_DIRECTORY_INDEX(v) \in DOMAIN t
                          \/ dir[s][PAGE_DIRECTORY_INDEX(v)] # None

\* The directory of s has the tables t, its pages have the entries E, and nothing else
\* has changed.
Stored(s, t, E) ==
  /\ table' \in [Frame -> [Pte -> Entry]]
  /\ dir' \in [Space -> [Pde -> Frame \cup {Kernel, None}]]
  /\ \A r \in Space \ {s} : dir'[r] = dir[r]
  /\ \A i \in Pde : dir'[s][i] = IF i \in DOMAIN t THEN t[i] ELSE dir[s][i]
  /\ Flattened' \in [Space -> [VPage -> Frame \cup {None}]]
  /\ \A r \in Space \ {s}, v \in VPage : Flattened'[r][v] = Flattened[r][v]
  /\ \A v \in VPage : Flattened'[s][v] = IF v \in DOMAIN E THEN FrameOf(E[v])
                                         ELSE Flattened[s][v]

LEMMA StoreEffect ==
  ASSUME VInv, NEW s \in Space, NEW t, NEW new, NEW E, Fits(s, t, new, E), Store(s, t, new, E)
  PROVE  Stored(s, t, E)
<1> DEFINE d == [i \in Pde |-> IF i \in DOMAIN t THEN t[i] ELSE dir[s][i]]
           old(f) == IF f \in Range(t) THEN new ELSE table[f]
           At(f, j) == {va \in DOMAIN E : /\ d[PAGE_DIRECTORY_INDEX(va)] = f
                                          /\ PAGE_TABLE_INDEX(va) = j}
<1>1. dir' = [dir EXCEPT ![s] = d]
  BY Zenon DEF Store
<1>2. \A f \in Frame : table'[f] =
        IF \A i \in Pde : d[i] # f THEN old(f)
        ELSE [j \in Pte |-> IF At(f, j) = {} THEN old(f)[j]
                            ELSE E[CHOOSE va \in At(f, j) : TRUE]]
  BY Zenon DEF Store
<1>3. table' = [f \in Frame |-> table'[f]]
  BY Zenon DEF Store
<1>4. /\ dir \in [Space -> [Pde -> Frame \cup {Kernel, None}]]
      /\ table \in [Frame -> [Pte -> Entry]]
      /\ \A r \in Space, i \in Pde : dir[r][i] = Kernel <=> i >= pde_max
      /\ held \in [Frame -> Nat]
      /\ None \notin Frame /\ Kernel \notin Frame /\ None # Kernel
  BY VmConstants, Zenon DEF TypeOK, VInv
<1>5. d \in [Pde -> Frame \cup {Kernel, None}]
  BY <1>4 DEF Free, Fits
<1>6. /\ dir' \in [Space -> [Pde -> Frame \cup {Kernel, None}]]
      /\ \A r \in Space \ {s} : dir'[r] = dir[r]
      /\ dir'[s] = d
  <2> HIDE DEF d
  <2>1. QED BY <1>1, <1>4, <1>5
<1>7. \A i \in Pde : d[i] = IF i \in DOMAIN t THEN t[i] ELSE dir[s][i]
  OBVIOUS
<1>8. \A f \in Frame : old(f) \in [Pte -> Entry]
  BY <1>4 DEF Fits
<1>9. table' \in [Frame -> [Pte -> Entry]]
  <2>1. ASSUME NEW f \in Frame PROVE table'[f] \in [Pte -> Entry]
    <3>1. \A j \in Pte : At(f, j) # {} => E[CHOOSE va \in At(f, j) : TRUE] \in Entry
      BY Zenon DEF Fits
    <3>2. \A j \in Pte : old(f)[j] \in Entry
      BY <1>8, Zenon
    <3> HIDE DEF d, old, At
    <3>3. CASE \A i \in Pde : d[i] # f
      BY <1>2, <1>8, <3>3, Zenon
    <3>4. CASE ~ \A i \in Pde : d[i] # f
      <4>1. table'[f] = [j \in Pte |-> IF At(f, j) = {} THEN old(f)[j]
                                       ELSE E[CHOOSE va \in At(f, j) : TRUE]]
        BY <1>2, <3>4, Zenon
      <4>2. QED BY <3>1, <3>2, <4>1, Zenon
    <3>5. QED BY <3>3, <3>4, Zenon
  <2>2. QED BY <1>3, <2>1, Zenon
<1>10. \A f \in Range(t) : f \in Frame /\ use_count[f] = 0
  BY DEF Range, Free, Fits
<1>11. ASSUME NEW r \in Space, NEW i \in Pde, i < pde_max, dir[r][i] # None
       PROVE  /\ dir[r][i] \in Frame /\ use_count[dir[r][i]] = 1
              /\ dir[r][i] \notin Range(t)
              /\ \A q \in Space, j \in Pde : dir[q][j] = dir[r][i] => q = r /\ j = i
  <2>1. dir[r][i] \in Frame
    BY <1>4, <1>11, Sizes
  <2>2. use_count[dir[r][i]] = 1
    BY <2>1, Zenon DEF OneUse, VInv
  <2>3. dir[r][i] \notin Range(t)
    BY <1>10, <2>2
  <2>4. \A q \in Space, j \in Pde : dir[q][j] = dir[r][i] => q = r /\ j = i
    BY <2>1, <2>2, TableSole DEF VInv
  <2>5. QED BY <2>1, <2>2, <2>3, <2>4, Zenon
\* Other spaces keep their tables.
<1>12. ASSUME NEW r \in Space \ {s}, NEW v \in VPage
       PROVE  Translation(r, v)' = Translation(r, v)
  <2> DEFINE i == PAGE_DIRECTORY_INDEX(v)
  <2>1. i \in Pde /\ i < pde_max
    BY Indices, Zenon
  <2> HIDE DEF i
  <2>2. CASE dir[r][i] = None
    BY <1>6, <2>2, Zenon DEF Translation, ptable_get_pte, i
  <2>3. CASE dir[r][i] # None
    <3>1. PICK f : f = dir[r][i]
      OBVIOUS
    <3>2. f \in Frame /\ f \notin Range(t) /\ f # None
      BY <1>11, <2>1, <2>3, <3>1, Zenon
    <3>3. \A j \in Pde : d[j] # f
      <4>1. ASSUME NEW j \in Pde PROVE d[j] # f
        <5>1. dir[s][j] # f
          BY <1>11, <2>1, <2>3, <3>1
        <5>2. j \in DOMAIN t => t[j] # f
          BY <3>2, Zenon DEF Range
        <5>3. QED BY <5>1, <5>2, Zenon
      <4>2. QED BY <4>1, Zenon
    <3> HIDE DEF d
    <3>4. table'[f] = table[f]
      BY <1>2, <3>2, <3>3, Zenon
    <3>5. dir'[r][i] = f
      BY <1>6, <3>1, Zenon
    <3>6. QED BY <3>1, <3>4, <3>5, Zenon DEF Translation, ptable_get_pte, i
  <2>4. QED BY <2>2, <2>3, Zenon
\* In space s, a page has the new entry or the old one.
<1>13. ASSUME NEW v \in VPage
       PROVE  Translation(s, v)' = IF v \in DOMAIN E THEN FrameOf(E[v]) ELSE Translation(s, v)
  <2> DEFINE i == PAGE_DIRECTORY_INDEX(v)
             k == PAGE_TABLE_INDEX(v)
  <2>1. i \in Pde /\ i < pde_max /\ k \in Pte
    BY Indices
  <2>2. CASE d[i] = None
    <3>1. i \notin DOMAIN t
      BY <1>4, <2>2, Zenon DEF Free, Fits
    <3>2. dir[s][i] = None /\ v \notin DOMAIN E
      BY <2>1, <2>2, <3>1, Zenon DEF Fits
    <3>3. dir'[s][i] = None
      BY <1>6, <2>2, Zenon
    <3>4. QED BY <3>2, <3>3, Zenon DEF Translation, ptable_get_pte
  <2>3. CASE d[i] # None
    <3>1. PICK f : f = d[i]
      OBVIOUS
    <3>2. f \in Frame
      <4>1. i \in DOMAIN t => f \in Frame
        BY <3>1, Zenon DEF Free, Fits
      <4>2. i \notin DOMAIN t => f \in Frame
        BY <1>11, <2>1, <2>3, <3>1, Zenon
      <4>3. QED BY <4>1, <4>2, Zenon
    <3>3. ASSUME NEW j \in Pde, d[j] = f PROVE j = i
      <4>1. CASE i \in DOMAIN t
        <5>1. f \in Range(t) /\ f = t[i]
          BY <2>1, <3>1, <4>1, Zenon DEF Range
        <5>2. j \in DOMAIN t
          <6>1. SUFFICES ASSUME j \notin DOMAIN t PROVE FALSE
            OBVIOUS
          <6>2. dir[s][j] = f
            BY <3>3, <6>1, Zenon
          <6>3. use_count[f] = 1
            BY <3>2, <6>2, Zenon DEF OneUse, VInv
          <6>4. QED BY <1>10, <5>1, <6>3
        <5>3. QED BY <3>3, <4>1, <5>1, <5>2 DEF Fits
      <4>2. CASE i \notin DOMAIN t
        <5>1. f = dir[s][i] /\ f # None
          BY <2>1, <2>3, <3>1, <4>2, Zenon
        <5>2. f \notin Range(t)
          BY <1>11, <2>1, <5>1, Zenon
        <5>3. j \notin DOMAIN t
          BY <3>3, <5>2, Zenon DEF Range
        <5>4. dir[s][j] = dir[s][i]
          BY <3>3, <5>1, <5>3, Zenon
        <5>5. QED BY <1>11, <2>1, <5>1, <5>4
      <4>3. QED BY <4>1, <4>2, Zenon
    <3>4. At(f, k) = {v} \cap DOMAIN E
      <4>1. ASSUME NEW w \in At(f, k) PROVE w = v
        <5>1. w \in VPage /\ d[PAGE_DIRECTORY_INDEX(w)] = f /\ PAGE_TABLE_INDEX(w) = k
          BY Zenon DEF Fits
        <5>2. PAGE_DIRECTORY_INDEX(w) \in Pde
          BY <5>1, Indices, Zenon
        <5>3. PAGE_DIRECTORY_INDEX(w) = i
          BY <3>3, <5>2, Zenon
        <5>4. QED BY <5>1, <5>3, IndicesDiffer, Zenon
      <4>2. v \in DOMAIN E => v \in At(f, k)
        BY <3>1, Zenon
      <4>3. At(f, k) \subseteq DOMAIN E
        OBVIOUS
      <4> HIDE DEF At
      <4>4. QED BY <4>1, <4>2, <4>3, Zenon
    <3>5. table'[f][k] = IF v \in DOMAIN E THEN E[v] ELSE old(f)[k]
      <4>1. ~ \A j \in Pde : d[j] # f
        BY <2>1, <3>1, Zenon
      <4> HIDE DEF d, At, old
      <4>2. table'[f][k] = IF At(f, k) = {} THEN old(f)[k]
                           ELSE E[CHOOSE va \in At(f, k) : TRUE]
        <5> HIDE DEF k
        <5>1. QED BY <1>2, <2>1, <3>2, <4>1, Zenon
      <4>3. v \in DOMAIN E => (CHOOSE va \in {v} : TRUE) = v
        OBVIOUS
      <4>4. CASE v \in DOMAIN E
        <5>1. At(f, k) = {v}
          BY <3>4, <4>4, Zenon
        <5>2. QED BY <4>2, <4>4, <5>1
      <4>5. CASE v \notin DOMAIN E
        <5>1. At(f, k) = {}
          BY <3>4, <4>5
        <5>2. QED BY <4>2, <4>5, <5>1, Zenon
      <4>6. QED BY <4>4, <4>5, Zenon
    <3>6. dir'[s][i] = f /\ f # None
      BY <1>6, <2>3, <3>1, Zenon
    <3>7. Translation(s, v)' = FrameOf(table'[f][k])
      BY <3>6, Zenon DEF Translation, ptable_get_pte, FrameOf
    <3>8. FrameOf(old(f)[k]) = Translation(s, v)
      <4>1. CASE i \in DOMAIN t
        <5>1. f \in Range(t)
          BY <2>1, <3>1, <4>1, Zenon DEF Range
        <5>2. old(f)[k] = None
          BY <2>1, <4>1, <5>1, Zenon DEF Cleared, Fits
        <5>3. dir[s][i] = None
          BY <4>1, Zenon DEF Fits
        <5>4. QED BY <5>2, <5>3, Zenon DEF Translation, ptable_get_pte, FrameOf
      <4>2. CASE i \notin DOMAIN t
        <5>1. f = dir[s][i]
          BY <2>1, <3>1, <4>2, Zenon
        <5>2. f \notin Range(t) /\ f # None
          BY <1>11, <2>1, <2>3, <3>1, <5>1
        <5>3. old(f)[k] = table[f][k]
          BY <5>2, Zenon
        <5>4. QED BY <5>1, <5>2, Zenon DEF Translation, ptable_get_pte, FrameOf
      <4>3. QED BY <4>1, <4>2, Zenon
    <3> HIDE DEF d, old, At, k, i
    <3>9. QED BY <3>5, <3>7, <3>8, Zenon
  <2>4. QED BY <2>2, <2>3, Zenon
<1>14. Flattened' = [r \in Space |-> [v \in VPage |-> Translation(r, v)']]
  BY Zenon DEF Flattened
<1>15. Flattened = [r \in Space |-> [v \in VPage |-> Translation(r, v)]]
  BY Zenon DEF Flattened
<1>16. ASSUME NEW r \in Space, NEW v \in VPage PROVE Translation(r, v)' \in Frame \cup {None}
  <2>1. PAGE_DIRECTORY_INDEX(v) \in Pde /\ PAGE_DIRECTORY_INDEX(v) < pde_max
        /\ PAGE_TABLE_INDEX(v) \in Pte
    BY Indices, Zenon
  <2> HIDE DEF d
  <2>2. PICK f : f = dir'[r][PAGE_DIRECTORY_INDEX(v)]
    OBVIOUS
  <2>3. f \in Frame \cup {None}
    <3>1. f # Kernel
      <4>1. dir[r][PAGE_DIRECTORY_INDEX(v)] # Kernel
        <5>1. \A i \in Pde : i < pde_max => dir[r][i] # Kernel
          BY <1>4, Sizes
        <5>2. QED BY <2>1, <5>1, Zenon
      <4>2. CASE r # s
        BY <1>6, <2>2, <4>1, <4>2, Zenon
      <4>3. CASE r = s
        <5>1. f = d[PAGE_DIRECTORY_INDEX(v)]
          BY <1>6, <2>2, <4>3, Zenon
        <5>2. QED BY <1>4, <1>7, <2>1, <4>1, <5>1 DEF Free, Fits
      <4>4. QED BY <4>2, <4>3, Zenon
    <3>2. f \in Frame \cup {Kernel, None}
      BY <1>6, <2>1, <2>2, Zenon
    <3>3. QED BY <3>1, <3>2, Zenon
  <2>4. f # None => table'[f][PAGE_TABLE_INDEX(v)] \in Entry
    BY <1>9, <2>1, <2>3, Zenon
  <2>5. QED BY <2>2, <2>4, Zenon DEF Translation, ptable_get_pte, Entry
<1> HIDE DEF d, old, At
<1>17. Flattened' \in [Space -> [VPage -> Frame \cup {None}]]
  BY <1>14, <1>16, Zenon
<1>18. \A r \in Space \ {s}, v \in VPage : Flattened'[r][v] = Flattened[r][v]
  BY <1>12, <1>14, <1>15, Zenon
<1>19. \A v \in VPage : Flattened'[s][v] = IF v \in DOMAIN E THEN FrameOf(E[v])
                                           ELSE Flattened[s][v]
  BY <1>13, <1>14, <1>15, Zenon
<1>20. QED BY <1>6, <1>7, <1>9, <1>17, <1>18, <1>19, Zenon DEF Stored

\* The new tables, each linked once
Linked(D, D2, s, t) ==
  /\ s \in Space /\ DOMAIN t \subseteq Pde
  /\ \A i \in DOMAIN t : D[s][i] = None
  /\ \A i, j \in DOMAIN t : t[i] = t[j] => i = j
  /\ \A r \in Space \ {s} : D2[r] = D[r]
  /\ \A i \in Pde : D2[s][i] = IF i \in DOMAIN t THEN t[i] ELSE D[s][i]

LEMMA TablesCounted ==
  ASSUME NEW D, NEW D2, NEW s, NEW t, Linked(D, D2, s, t), NEW f \in Frame
  PROVE  /\ Cardinality(Referring(Pde, D, f)) \in Nat
         /\ Cardinality(Referring(Pde, D2, f)) =
              Cardinality(Referring(Pde, D, f)) + (IF f \in Range(t) THEN 1 ELSE 0)
<1> DEFINE A == {i \in DOMAIN t : D2[s][i] = f}
<1>1. /\ Cardinality(Referring(Pde, D, f)) \in Nat
      /\ Cardinality(Referring(Pde, D2, f)) = Cardinality(Referring(Pde, D, f)) + Cardinality(A)
  <2>1. \A i \in DOMAIN t : D[s][i] # f
    BY VmConstants DEF Linked
  <2>2. \A r \in Space \ {s}, i \in Pde : D2[r][i] = D[r][i]
    BY Zenon DEF Linked
  <2>3. \A i \in Pde \ DOMAIN t : D2[s][i] = D[s][i]
    BY Zenon DEF Linked
  <2>4. IsFiniteSet(Pde) /\ DOMAIN t \in SUBSET Pde
    BY Sizes, Zenon DEF Linked
  <2>5. Reset(Pde, D, D2, s, DOMAIN t, f)
    BY <2>1, <2>4, Zenon DEF Reset, Linked
  <2>6. /\ Cardinality(Referring(Pde, D, f)) \in Nat
        /\ Cardinality(Hits(DOMAIN t, D2[s], f)) \in Nat
        /\ Cardinality(Referring(Pde, D2, f))
             = Cardinality(Referring(Pde, D, f)) + Cardinality(Hits(DOMAIN t, D2[s], f))
    BY <2>5, Recount
  <2>7. QED BY <2>6, Zenon DEF Hits
<1>2. CASE f \in Range(t)
  <2>1. PICK i \in DOMAIN t : t[i] = f
    BY <1>2, Zenon DEF Range
  <2>2. A = {i}
    BY <2>1 DEF Linked
  <2>3. QED BY <1>1, <1>2, <2>2, FS_Singleton, Zenon
<1>3. CASE f \notin Range(t)
  <2>1. A = {}
    BY <1>3 DEF Range, Linked
  <2>2. QED BY <1>1, <1>3, <2>1, FS_EmptySet, Zenon
<1>4. QED BY <1>2, <1>3, Zenon

\* Every frame outside the new tables t gains as many uses, beyond those of callers, as
\* there are new entries for it in E.
Gains(t, E) ==
  /\ use_count' \in [Frame \cup {Kernel} -> Nat] /\ use_count'[Kernel] = 1
  /\ held' \in [Frame -> Nat]
  /\ \A f \in Range(t) : /\ use_count'[f] = 1 /\ held'[f] = 0
                         /\ \A v \in DOMAIN E : FrameOf(E[v]) # f
  /\ \A f \in Frame \ Range(t) :
       use_count'[f] - held'[f] =
         use_count[f] - held[f] + Cardinality({v \in DOMAIN E : FrameOf(E[v]) = f})
  /\ \A f \in Frame :
       (\A r \in Space, v \in VPage : Flattened[r][v] # f) /\ use_count[f] = 1 /\ held[f] = 0
         => use_count'[f] = 1

\* A page v may come to show frame f: callers hold it, nobody sees it, or somebody sees
\* it at the same page.
Allowed(v, f) ==
  \/ f \in Frame /\ held[f] > 0
  \/ \A r \in Space, w \in VPage : Flattened[r][w] # f
  \/ \E r \in Space : Flattened[r][v] = f

\* Space s gets translations where it had none, other spaces keep theirs.
Grown(s) ==
  /\ s \in Spaces /\ pgd' = pgd
  /\ \A r \in Space \ {s}, v \in VPage : Flattened'[r][v] = Flattened[r][v]
  /\ \A v \in VPage : \/ Flattened'[s][v] = Flattened[s][v]
                      \/ Flattened[s][v] = None /\ Allowed(v, Flattened'[s][v])
  /\ \A f \in Frame : held'[f] > 0 => held[f] > 0

\* Pages that had no translation get one.
LEMMA ExtendKeeps ==
  ASSUME VInv, NEW s \in Spaces, NEW t, NEW new, NEW E, Fits(s, t, new, E),
         Store(s, t, new, E),
         \A v \in DOMAIN E : Flattened[s][v] = None,
         \A v \in DOMAIN E : Allowed(v, FrameOf(E[v])),
         \A f \in Frame : held'[f] > 0 => held[f] > 0,
         Gains(t, E), UNCHANGED <<pgd, maps, mappings, halted>>
  PROVE  VInv' /\ Grown(s)
<1>1. s \in Space /\ pgd[s] # None
  BY Zenon DEF Spaces
<1>2. /\ table' \in [Frame -> [Pte -> Entry]]
      /\ dir' \in [Space -> [Pde -> Frame \cup {Kernel, None}]]
      /\ \A r \in Space \ {s} : dir'[r] = dir[r]
      /\ \A i \in Pde : dir'[s][i] = IF i \in DOMAIN t THEN t[i] ELSE dir[s][i]
      /\ Flattened' \in [Space -> [VPage -> Frame \cup {None}]]
      /\ \A r \in Space \ {s}, v \in VPage : Flattened'[r][v] = Flattened[r][v]
      /\ \A v \in VPage : Flattened'[s][v] = IF v \in DOMAIN E THEN FrameOf(E[v])
                                             ELSE Flattened[s][v]
  <2>1. Stored(s, t, E)
    <3>1. QED BY <1>1, StoreEffect, Zenon
  <2>2. QED BY <2>1, Zenon DEF Stored
<1>3. TypeOK'
  <2>1. ASSUME NEW r \in Space, NEW i \in Pde PROVE dir'[r][i] = Kernel <=> i >= pde_max
    <3>1. dir[r][i] = Kernel <=> i >= pde_max
      BY Zenon DEF TypeOK, VInv
    <3>2. CASE r = s /\ i \in DOMAIN t
      BY <1>2, <3>2, VmConstants, Sizes DEF Free, Fits
    <3>3. CASE ~(r = s /\ i \in DOMAIN t)
      BY <1>2, <3>1, <3>3, Zenon
    <3>4. QED BY <3>2, <3>3, Zenon
  <2>2. /\ pgd' \in [Space -> Frame \cup {None}] /\ maps' \subseteq Map
        /\ mappings' \in [Space -> SUBSET maps'] /\ halted' \in BOOLEAN
    BY Zenon DEF TypeOK, VInv
  <2>3. QED BY <1>2, <2>1, <2>2, Zenon DEF TypeOK, Gains
<1>4. held \in [Frame -> Nat] /\ use_count \in [Frame \cup {Kernel} -> Nat]
  BY Zenon DEF TypeOK, VInv
<1>5. Counted(use_count', held', pgd', dir', Flattened')
  <2>1. SUFFICES ASSUME NEW f \in Frame
                 PROVE  use_count'[f] =
                          held'[f] + Cardinality(Owners(pgd', f))
                          + Cardinality(Referring(Pde, dir', f))
                          + Cardinality(Referring(VPage, Flattened', f))
    BY Zenon DEF Counted, Gains
  <2>2. PICK a, b, c, b2, c2, n :
          /\ a = Cardinality(Owners(pgd, f))
          /\ b = Cardinality(Referring(Pde, dir, f))
          /\ c = Cardinality(Referring(VPage, Flattened, f))
          /\ b2 = Cardinality(Referring(Pde, dir', f))
          /\ c2 = Cardinality(Referring(VPage, Flattened', f))
          /\ n = Cardinality({v \in DOMAIN E : FrameOf(E[v]) = f})
    OBVIOUS
  <2>3. use_count[f] = held[f] + a + b + c
    BY <2>2, Zenon DEF Counted, VInv
  <2>4. b \in Nat /\ b2 = b + (IF f \in Range(t) THEN 1 ELSE 0)
    <3>1. DOMAIN t \subseteq Pde /\ \A i \in DOMAIN t : dir[s][i] = None
      BY Zenon DEF Fits
    <3>2. \A i, j \in DOMAIN t : t[i] = t[j] => i = j
      BY Zenon DEF Fits
    <3>5. Linked(dir, dir', s, t)
      BY <1>1, <1>2, <3>1, <3>2, Zenon DEF Linked
    <3>3. /\ Cardinality(Referring(Pde, dir, f)) \in Nat
          /\ Cardinality(Referring(Pde, dir', f)) =
               Cardinality(Referring(Pde, dir, f)) + (IF f \in Range(t) THEN 1 ELSE 0)
      BY <3>5, TablesCounted, Zenon
    <3>4. QED BY <2>2, <3>3, Zenon
  <2>5. n \in Nat /\ c \in Nat /\ c2 = c + n
    <3>1. \A v \in DOMAIN E : Flattened[s][v] # f
      BY VmConstants, Zenon
    <3>2. {v \in DOMAIN E : Flattened'[s][v] = f} = {v \in DOMAIN E : FrameOf(E[v]) = f}
      BY <1>2 DEF Fits
    <3>3. DOMAIN E \in SUBSET VPage /\ \A v \in VPage \ DOMAIN E : Flattened'[s][v] = Flattened[s][v]
      BY <1>2, Zenon DEF Fits
    <3>4. /\ Cardinality(Referring(VPage, Flattened, f)) \in Nat
          /\ Cardinality(Hits(DOMAIN E, Flattened'[s], f)) \in Nat
          /\ Cardinality(Referring(VPage, Flattened', f))
               = Cardinality(Referring(VPage, Flattened, f))
                 + Cardinality(Hits(DOMAIN E, Flattened'[s], f))
      <4>1. IsFiniteSet(VPage)
        BY Sizes, Zenon
      <4>2. Reset(VPage, Flattened, Flattened', s, DOMAIN E, f)
        BY <1>1, <1>2, <3>1, <3>3, <4>1, Zenon DEF Reset
      <4>3. QED BY <4>2, Recount
    <3>5. QED BY <2>2, <3>2, <3>4, Zenon DEF Hits
  <2>6. a \in Nat /\ held[f] \in Nat /\ held'[f] \in Nat /\ use_count'[f] \in Nat
        /\ use_count[f] \in Nat
    BY <1>4, <2>2, Cards, Zenon DEF Gains
  <2>7. use_count'[f] = held'[f] + a + b2 + c2
    <3>1. CASE f \in Range(t)
      <4>1. use_count[f] = 0
        BY <3>1 DEF Range, Free, Fits
      <4>2. n = 0
        <5>1. {v \in DOMAIN E : FrameOf(E[v]) = f} = {}
          BY <3>1, Zenon DEF Gains
        <5>2. QED BY <2>2, <5>1, FS_EmptySet, Zenon
      <4>3. use_count'[f] = 1 /\ held'[f] = 0
        BY <3>1, Zenon DEF Gains
      <4>4. 0 = held[f] + a + b + c /\ b2 = b + 1 /\ c2 = c
        BY <2>3, <2>4, <2>5, <3>1, <4>1, <4>2
      <4>5. held[f] = 0 /\ a = 0 /\ b = 0 /\ c = 0
        <5>1. held[f] \in Nat /\ a \in Nat /\ b \in Nat /\ c \in Nat /\ 0 = held[f] + a + b + c
          BY <2>4, <2>5, <2>6, <4>4, Zenon
        <5>2. QED BY <5>1, ZeroSum, Zenon
      <4>6. QED BY <4>3, <4>4, <4>5
    <3>2. CASE f \notin Range(t)
      <4>1. use_count'[f] - held'[f] = use_count[f] - held[f] + n
        BY <2>2, <3>2, Zenon DEF Gains
      <4>2. b2 = b
        BY <2>4, <3>2
      <4>3. PICK u, u2, h, h2 : u = use_count[f] /\ u2 = use_count'[f] /\ h = held[f] /\ h2 = held'[f]
        OBVIOUS
      <4>4. u2 - h2 = u - h + n /\ u = h + a + b + c /\ u \in Nat /\ u2 \in Nat /\ h \in Nat /\ h2 \in Nat
        BY <2>3, <2>6, <4>1, <4>3, Zenon
      <4>5. u2 = h2 + a + b2 + c2
        BY <2>4, <2>5, <2>6, <4>2, <4>4
      <4>6. QED BY <4>3, <4>5, Zenon
    <3>3. QED BY <3>1, <3>2, Zenon
  <2>8. pgd' = pgd
    OBVIOUS
  <2>9. QED BY <2>2, <2>7, Zenon
<1>6. OneUse(use_count', pgd', dir')
  <2>1. SUFFICES ASSUME NEW f \in Frame, NEW r \in Space,
                        pgd[r] = f \/ \E i \in Pde : dir'[r][i] = f
                 PROVE  use_count'[f] = 1
    BY Zenon DEF OneUse
  <2>2. CASE pgd[r] = f
    <3>1. use_count[f] = 1
      BY <2>2, Zenon DEF OneUse, VInv
    <3>2. held[f] = 0 /\ \A q \in Space, v \in VPage : Flattened[q][v] # f
      <4>1. Counted(use_count, held, pgd, dir, Flattened)
        BY Zenon DEF VInv
      <4>2. /\ held[f] = 0
            /\ \A q \in Space : pgd[q] = f => q = r
            /\ \A q \in Space, j \in Pde : dir[q][j] # f
            /\ \A q \in Space, v \in VPage : Flattened[q][v] # f
        BY <2>2, <3>1, <4>1, DirectorySole
      <4>3. QED BY <4>2, Zenon
    <3>3. QED BY <3>1, <3>2, Zenon DEF Gains
  <2>3. ASSUME NEW i \in Pde, dir'[r][i] = f PROVE use_count'[f] = 1
    <3>1. CASE r = s /\ i \in DOMAIN t
      <4>1. f \in Range(t)
        BY <1>2, <2>3, <3>1, Zenon DEF Range
      <4>2. QED BY <4>1, Zenon DEF Gains
    <3>2. CASE ~(r = s /\ i \in DOMAIN t)
      <4>1. dir[r][i] = f
        BY <1>2, <2>3, <3>2, Zenon
      <4>2. use_count[f] = 1
        BY <4>1, Zenon DEF OneUse, VInv
      <4>3. held[f] = 0 /\ \A q \in Space, v \in VPage : Flattened[q][v] # f
        <5>1. Counted(use_count, held, pgd, dir, Flattened)
          BY Zenon DEF VInv
        <5>2. /\ held[f] = 0
              /\ \A q \in Space : pgd[q] # f
              /\ \A q \in Space, j \in Pde : dir[q][j] = f => q = r /\ j = i
              /\ \A q \in Space, v \in VPage : Flattened[q][v] # f
          BY <4>1, <4>2, <5>1, TableSole
        <5>3. QED BY <5>2, Zenon
      <4>4. QED BY <4>2, <4>3, Zenon DEF Gains
    <3>3. QED BY <3>1, <3>2, Zenon
  <2>4. QED BY <2>1, <2>2, <2>3, Zenon
<1>7. NoTables(pgd', dir')
  BY <1>1, <1>2, Zenon DEF NoTables, VInv
<1>8. Grown(s)
  BY <1>2 DEF Grown
<1>9. QED BY <1>3, <1>5, <1>6, <1>7, <1>8, Zenon DEF VInv

-----------------------------------------------------------------------------
(* The page allocator gives free frames. *)

LEMMA PoolFree ==
  ASSUME NEW F, NEW n \in 0 .. PAGE_DIR_SIZE * PAGE_TABLE_SIZE, NEW P \in Pool(Free \ F, n)
  PROVE  P \subseteq Free \ F
<1>1. Free \ F \in SUBSET Frame
  BY Zenon DEF Free
<1>2. \A G \in SUBSET Frame : \A Q \in Pool(G, n) : Q \subseteq G
  BY VmConstants, Zenon
<1>3. QED BY <1>1, <1>2, Zenon

LEMMA Small ==
  ASSUME NEW S, S \subseteq Pde \/ S \subseteq VPage
  PROVE  Cardinality(S) \in 0 .. PAGE_DIR_SIZE * PAGE_TABLE_SIZE
<1> DEFINE n == PAGE_TABLE_SIZE
           m == PAGE_DIR_SIZE
           c == Cardinality(S)
<1>1. n \in Nat \ {0} /\ pde_max \in Nat /\ m \in Nat /\ pde_max < m
  BY Sizes, Zenon
<1>2. CASE S \subseteq Pde
  <2>1. Cardinality(Pde) = m
    <3>1. 0 \in Int /\ m - 1 \in Int
      BY <1>1
    <3>2. Cardinality(0 .. m - 1) = IF 0 > m - 1 THEN 0 ELSE (m - 1) - 0 + 1
      BY <3>1, FS_Interval, Zenon
    <3>3. QED BY <1>1, <3>2 DEF Pde
  <2>2. c \in Nat /\ c <= m
    <3>1. IsFiniteSet(Pde)
      BY Sizes
    <3>2. IsFiniteSet(S) /\ Cardinality(S) <= Cardinality(Pde)
      BY <1>2, <3>1, FS_Subset, Zenon
    <3>3. QED BY <2>1, <3>2, FS_CardinalityType
  <2> HIDE DEF n, m, c
  <2>3. m <= m * n /\ m * n \in Nat
    BY <1>1
  <2>4. c \in 0 .. m * n
    BY <1>1, <2>2
  <2>5. QED BY <2>4, Zenon DEF m, n, c
<1>3. CASE S \subseteq VPage
  <2>1. pde_max * n \in Nat
    BY <1>1
  <2>2. Cardinality(VPage) = pde_max * n
    <3>1. 0 \in Int /\ pde_max * n - 1 \in Int
      BY <2>1
    <3>2. Cardinality(0 .. pde_max * n - 1)
            = IF 0 > pde_max * n - 1 THEN 0 ELSE (pde_max * n - 1) - 0 + 1
      BY <3>1, FS_Interval, Zenon
    <3>3. QED BY <2>1, <3>2 DEF VPage
  <2>3. c \in Nat /\ c <= pde_max * n
    <3>1. IsFiniteSet(VPage)
      BY Sizes
    <3>2. IsFiniteSet(S) /\ Cardinality(S) <= Cardinality(VPage)
      BY <1>3, <3>1, FS_Subset, Zenon
    <3>3. QED BY <2>2, <3>2, FS_CardinalityType, Zenon
  <2> HIDE DEF n, m, c
  <2>4. pde_max * n <= m * n /\ m * n \in Nat
    BY <1>1
  <2>5. c \in 0 .. m * n
    BY <2>1, <2>3, <2>4
  <2>6. QED BY <2>5 DEF m, n, c
<1>4. QED BY <1>2, <1>3, Zenon

LEMMA OneFree ==
  ASSUME NEW f \in UNION Pool(Free, 1)
  PROVE  f \in Free /\ f \in Frame /\ use_count[f] = 0
<1>1. 1 \in 0 .. PAGE_DIR_SIZE * PAGE_TABLE_SIZE
  <2>1. PAGE_DIR_SIZE \in Nat \ {0} /\ PAGE_TABLE_SIZE \in Nat \ {0}
    BY Sizes
  <2>2. \A m, n \in Nat \ {0} : 1 <= m * n /\ m * n \in Nat
    OBVIOUS
  <2>3. 1 <= PAGE_DIR_SIZE * PAGE_TABLE_SIZE /\ PAGE_DIR_SIZE * PAGE_TABLE_SIZE \in Nat
    BY <2>1, <2>2, Zenon
  <2>4. QED BY <2>3
<1>2. PICK P \in Pool(Free, 1) : f \in P
  OBVIOUS
<1>3. Free \ {} = Free
  OBVIOUS
<1>4. P \subseteq Free \ {}
  BY <1>1, <1>3, PoolFree, Zenon
<1>5. QED BY <1>2, <1>4 DEF Free

\* t gives different free frames outside F to the members of S.
Gives(t, S, F) ==
  /\ DOMAIN t = S
  /\ \A i \in S : t[i] \in Free \ F
  /\ Range(t) \subseteq Free \ F
  /\ \A i, j \in S : t[i] = t[j] => i = j

LEMMA AllocatedFree ==
  ASSUME NEW S, S \subseteq Pde \/ S \subseteq VPage, NEW F, NEW t \in Allocations(S, F)
  PROVE  Gives(t, S, F)
<1>1. PICK P \in Pool(Free \ F, Cardinality(S)) : t \in Bijection(S, P)
  BY Zenon DEF Allocations
<1>2. P \subseteq Free \ F
  <2>1. Cardinality(S) \in 0 .. PAGE_DIR_SIZE * PAGE_TABLE_SIZE
    BY Small
  <2>2. QED BY <2>1, PoolFree, Zenon
<1>3. t \in [S -> P] /\ \A i, j \in S : t[i] = t[j] => i = j
  BY <1>1 DEF Bijection, Injection, IsInjective
<1>4. DOMAIN t = S /\ \A i \in S : t[i] \in P
  BY <1>3, Zenon
<1>5. QED BY <1>2, <1>3 DEF Range, Gives

LEMMA MapFits ==
  ASSUME VInv, NEW s \in Space, NEW E, DOMAIN E \subseteq VPage,
         \A v \in DOMAIN E : E[v] \in Entry, NEW F, NEW t \in Allocations(Missing(s, DOMAIN E), F)
  PROVE  Fits(s, t, Cleared, E) /\ Range(t) \subseteq Free \ F
<1> DEFINE S == Missing(s, DOMAIN E)
<1>1. \A i \in S : i \in Pde /\ i < pde_max /\ dir[s][i] = None
  BY Indices, Zenon DEF Missing
<1>2. \A v \in DOMAIN E : PAGE_DIRECTORY_INDEX(v) \in S \/ dir[s][PAGE_DIRECTORY_INDEX(v)] # None
  BY Indices, Zenon DEF Missing
<1> HIDE DEF S
<1>3. Gives(t, S, F)
  <2>1. (S \subseteq Pde \/ S \subseteq VPage) /\ t \in Allocations(S, F)
    BY <1>1, Zenon DEF S
  <2>2. QED BY <2>1, AllocatedFree, Zenon
<1>4. Cleared \in [Pte -> Entry]
  BY Zenon DEF Cleared, Entry
<1>5. QED BY <1>1, <1>2, <1>3, <1>4, Zenon DEF Fits, Gives

-----------------------------------------------------------------------------
(* Each operation keeps the invariant. *)

\* No space, no translation and no reference of a caller changes.
Idle == Flattened' = Flattened /\ pgd' = pgd /\ held' = held

\* Steps that leave memory and use counts alone
LEMMA MemoryKept ==
  ASSUME VInv, TypeOK', UNCHANGED <<use_count, pgd, dir, table, held>>
  PROVE  VInv' /\ Idle
<1>1. Flattened' = Flattened
  BY DEF Flattened, Translation, ptable_get_pte
<1>2. QED BY <1>1 DEF VInv, Idle

LEMMA HaltKeeps ==
  ASSUME VInv, Halt
  PROVE  VInv' /\ Idle
<1>1. TypeOK'
  BY Zenon DEF VInv, Halt, TypeOK
<1>2. UNCHANGED <<use_count, pgd, dir, table, held>>
  BY Zenon DEF Halt
<1>3. QED BY <1>1, <1>2, MemoryKept, Zenon

\* The translations that the invariant speaks of
LEMMA Flat1 ==
  ASSUME NEW s \in Space, NEW v \in VPage
  PROVE  Flattened[s][v] = Translation(s, v)
BY DEF Flattened

\* Counts after page_alloc() of the frames F
LEMMA TakenCounts ==
  ASSUME VInv, NEW F, F \subseteq Frame, use_count' = Taken(F)
  PROVE  /\ use_count' \in [Frame \cup {Kernel} -> Nat] /\ use_count'[Kernel] = 1
         /\ \A f \in F : use_count'[f] = 1
         /\ \A f \in Frame \ F : use_count'[f] = use_count[f]
<1>1. use_count \in [Frame \cup {Kernel} -> Nat] /\ use_count[Kernel] = 1 /\ Kernel \notin Frame
  BY VmConstants, Zenon DEF VInv, TypeOK, Counted
<1>2. QED BY <1>1, Zenon DEF Taken

LEMMA EntryMade ==
  ASSUME NEW f \in Frame, NEW w \in BOOLEAN
  PROVE  MAKE_PTE(f, w) \in Entry /\ MAKE_PTE(f, w) # None /\ FrameOf(MAKE_PTE(f, w)) = f
<1>1. MAKE_PTE(f, w) \in [frame : Frame, writable : BOOLEAN]
  BY DEF MAKE_PTE
<1>2. None \notin [frame : Frame, writable : BOOLEAN]
  BY VmConstants, Zenon
<1>3. MAKE_PTE(f, w) # None
  BY <1>1, <1>2
<1>4. FrameOf(MAKE_PTE(f, w)) = f
  BY <1>3 DEF FrameOf, MAKE_PTE
<1>5. QED BY <1>1, <1>3, <1>4, Zenon DEF Entry

LEMMA FaultKeeps ==
  ASSUME VInv, User = {}, NEW s \in Space, NEW va \in Touched, vm_space_page_fault(s, va)
  PROVE  VInv' /\ (Grown(s) \/ Idle)
<1>1. va \in VPage /\ s \in Spaces
  BY VmConstants, Zenon DEF vm_space_page_fault
<1>2. Flattened[s][va] = None
  <2>1. ptable_get_pte(s, va) = None
    BY Zenon DEF vm_space_page_fault, Faults
  <2>2. QED BY <1>1, <2>1, Flat1, Zenon DEF Translation
<1>3. PICK f \in UNION Pool(Free, 1) : ptable_map(s, [v \in {va} |-> MAKE_PTE(f, FALSE)], {f}, held)
  BY Zenon DEF vm_space_page_fault
<1>4. PICK E : E = [v \in {va} |-> MAKE_PTE(f, FALSE)]
  BY Zenon
<1>5. f \in Frame /\ use_count[f] = 0
  BY OneFree, Zenon
<1>6. DOMAIN E = {va} /\ E[va] \in Entry /\ FrameOf(E[va]) = f
  BY <1>4, <1>5, EntryMade, Zenon
<1>7. CASE Halt
  BY <1>7, HaltKeeps
<1>8. ASSUME NEW t \in Allocations(Missing(s, DOMAIN E), {f}),
             use_count' = Taken({f} \cup Range(t)), Store(s, t, Cleared, E), held' = held,
             UNCHANGED <<pgd, maps, range, mappings, halted>>
      PROVE  VInv' /\ Grown(s)
  <2>1. Fits(s, t, Cleared, E) /\ Range(t) \subseteq Free \ {f}
    <3>1. DOMAIN E \subseteq VPage /\ \A v \in DOMAIN E : E[v] \in Entry
      BY <1>1, <1>6, Zenon
    <3>2. QED BY <3>1, MapFits
  <2>2. \A g \in Range(t) : g \in Frame /\ g # f /\ use_count[g] = 0
    BY <2>1, Zenon DEF Free
  <2>3. /\ use_count' \in [Frame \cup {Kernel} -> Nat] /\ use_count'[Kernel] = 1
        /\ \A g \in {f} \cup Range(t) : use_count'[g] = 1
        /\ \A g \in Frame \ ({f} \cup Range(t)) : use_count'[g] = use_count[g]
    <3>1. {f} \cup Range(t) \subseteq Frame
      BY <1>5, <2>2, Zenon
    <3>2. QED BY <1>8, <3>1, TakenCounts, Zenon
  <2>4. held \in [Frame -> Nat] /\ use_count \in [Frame \cup {Kernel} -> Nat]
    BY Zenon DEF VInv, TypeOK
  <2>5. \A g \in Frame : use_count[g] = 0 => held[g] = 0
    BY FreeNow, Zenon
  <2>6. ASSUME NEW g \in Frame \ Range(t)
        PROVE  use_count'[g] - held'[g] =
                 use_count[g] - held[g] + Cardinality({v \in DOMAIN E : FrameOf(E[v]) = g})
    <3>1. CASE g = f
      <4>1. {v \in DOMAIN E : FrameOf(E[v]) = g} = {va}
        BY <1>6, <3>1
      <4>2. Cardinality({v \in DOMAIN E : FrameOf(E[v]) = g}) = 1
        BY <4>1, FS_Singleton, Zenon
      <4>3. use_count'[g] = 1 /\ use_count[g] = 0 /\ held[g] = 0 /\ held'[g] = 0
        BY <1>5, <1>8, <2>3, <2>5, <3>1, Zenon
      <4>4. QED BY <4>2, <4>3
    <3>2. CASE g # f
      <4>1. {v \in DOMAIN E : FrameOf(E[v]) = g} = {}
        BY <1>6, <3>2
      <4>2. Cardinality({v \in DOMAIN E : FrameOf(E[v]) = g}) = 0
        BY <4>1, FS_EmptySet, Zenon
      <4>3. use_count'[g] = use_count[g] /\ held'[g] = held[g]
        BY <1>8, <2>3, <3>2, Zenon
      <4>4. use_count[g] \in Nat /\ held[g] \in Nat
        BY <2>4, Zenon
      <4>5. QED BY <4>2, <4>3, <4>4
    <3>3. QED BY <3>1, <3>2, Zenon
  <2>7. Gains(t, E)
    <3>1. \A g \in Range(t) : /\ use_count'[g] = 1 /\ held'[g] = 0
                              /\ \A v \in DOMAIN E : FrameOf(E[v]) # g
      BY <1>6, <1>8, <2>2, <2>3, <2>5, Zenon
    <3>2. ASSUME NEW g \in Frame, use_count[g] = 1 PROVE use_count'[g] = 1
      BY <2>3, <3>2, Zenon
    <3>3. QED BY <1>8, <2>3, <2>4, <2>6, <3>1, Zenon DEF Gains
  <2>8. \A v \in DOMAIN E : Allowed(v, FrameOf(E[v]))
    <3>1. \A r \in Space, w \in VPage : Flattened[r][w] # f
      BY <1>5, FreeNow, Zenon
    <3>2. QED BY <1>6, <3>1, Zenon DEF Allowed
  <2>9. \A v \in DOMAIN E : Flattened[s][v] = None
    BY <1>2, <1>6, Zenon
  <2>10. \A g \in Frame : held'[g] > 0 => held[g] > 0
    BY <1>8, Zenon
  <2>11. QED BY <1>1, <1>8, <2>1, <2>7, <2>8, <2>9, ExtendKeeps, Zenon
<1>9. QED BY <1>3, <1>4, <1>7, <1>8, Zenon DEF ptable_map

LEMMA MapManyKeeps ==
  ASSUME VInv, NEW s \in Space, NEW va \in Touched, NEW n \in 1 .. MaxHeld, NEW w \in Flags,
         NEW fs \in Injection(1 .. n, {f \in Frame : held[f] > 0}), ptable_map_many(s, va, fs, w)
  PROVE  VInv' /\ (Grown(s) \/ Idle)
<1> DEFINE V == va .. va + Len(fs) - 1
<1>1. s \in Spaces /\ V \subseteq VPage /\ \A v \in V : ptable_get_pte(s, v) = None
  BY VmConstants, Zenon DEF ptable_map_many
<1>2. \A v \in V : Flattened[s][v] = None
  BY <1>1, Flat1, Zenon DEF Translation
<1>3. n \in Nat /\ va \in Int
  <2>1. MaxHeld \in Nat /\ Touched \subseteq VPage
    BY VmConstants, Zenon
  <2>2. VPage \subseteq Nat
    BY DEF VPage
  <2>3. QED BY <2>1, <2>2
<1>4. /\ fs \in [1 .. n -> Frame] /\ \A i \in 1 .. n : held[fs[i]] > 0
      /\ \A i, j \in 1 .. n : fs[i] = fs[j] => i = j
  BY DEF Injection, IsInjective
<1>5. Len(fs) = n
  BY <1>4
<1>6. PICK E : E = [v \in V |-> MAKE_PTE(fs[v - va + 1], w)]
  BY Zenon
<1>7. PICK H : H = [g \in Frame |-> IF g \in Range(fs) THEN held[g] - 1 ELSE held[g]]
  BY Zenon
<1>8. ptable_map(s, E, {}, H)
  BY <1>6, <1>7, Zenon DEF ptable_map_many
<1>9. \A v \in V : v - va + 1 \in 1 .. n
  BY <1>3, <1>5
<1>10. DOMAIN E = V /\ \A v \in V : E[v] \in Entry /\ FrameOf(E[v]) = fs[v - va + 1]
  <2>1. DOMAIN E = V /\ \A v \in V : E[v] = MAKE_PTE(fs[v - va + 1], w)
    BY <1>6, Zenon
  <2>2. w \in BOOLEAN
    BY VmConstants, Zenon
  <2>3. \A v \in V : fs[v - va + 1] \in Frame
    BY <1>4, <1>9, Zenon
  <2> HIDE DEF V
  <2>4. QED BY <2>1, <2>2, <2>3, EntryMade
<1>11. CASE Halt
  BY <1>11, HaltKeeps, Zenon
<1>12. ASSUME NEW t \in Allocations(Missing(s, DOMAIN E), {}),
              use_count' = Taken({} \cup Range(t)), Store(s, t, Cleared, E), held' = H,
              UNCHANGED <<pgd, maps, range, mappings, halted>>
       PROVE  VInv' /\ Grown(s)
  <2>1. Fits(s, t, Cleared, E) /\ Range(t) \subseteq Free \ {}
    <3>1. DOMAIN E \subseteq VPage /\ \A v \in DOMAIN E : E[v] \in Entry
      BY <1>1, <1>10, Zenon
    <3>2. s \in Space
      OBVIOUS
    <3> HIDE DEF V
    <3>3. QED BY <3>1, MapFits
  <2>2. \A g \in Range(t) : g \in Frame /\ use_count[g] = 0
    BY <2>1, Zenon DEF Free
  <2>3. /\ use_count' \in [Frame \cup {Kernel} -> Nat] /\ use_count'[Kernel] = 1
        /\ \A g \in Range(t) : use_count'[g] = 1
        /\ \A g \in Frame \ Range(t) : use_count'[g] = use_count[g]
    <3>1. Range(t) \subseteq Frame /\ {} \cup Range(t) = Range(t)
      BY <2>2, Zenon
    <3>2. use_count' = Taken(Range(t))
      BY <1>12
    <3>3. QED BY <3>1, <3>2, TakenCounts, Zenon
  <2>4. held \in [Frame -> Nat] /\ use_count \in [Frame \cup {Kernel} -> Nat]
    BY Zenon DEF VInv, TypeOK
  <2>5. \A g \in Frame : use_count[g] = 0 => held[g] = 0
    BY FreeNow, Zenon
  <2>6. \A g \in Range(fs) : g \in Frame /\ held[g] > 0 /\ g \notin Range(t)
    <3>1. ASSUME NEW i \in 1 .. n PROVE fs[i] \in Frame /\ held[fs[i]] > 0 /\ fs[i] \notin Range(t)
      <4>1. fs[i] \in Frame /\ held[fs[i]] > 0
        BY <1>4, Zenon
      <4>2. use_count[fs[i]] # 0
        BY <2>5, <4>1
      <4>3. QED BY <2>2, <4>1, <4>2, Zenon
    <3>2. \A g \in Range(fs) : \E i \in 1 .. n : g = fs[i]
      BY <1>4, Zenon DEF Range
    <3>3. QED BY <3>1, <3>2
  <2>7. held' \in [Frame -> Nat]
    BY <1>7, <1>12, <2>4, <2>6
  <2>8. ASSUME NEW g \in Frame \ Range(t)
        PROVE  use_count'[g] - held'[g] =
                 use_count[g] - held[g] + Cardinality({v \in DOMAIN E : FrameOf(E[v]) = g})
    <3>1. use_count[g] \in Nat /\ held[g] \in Nat /\ use_count'[g] = use_count[g]
      BY <2>3, <2>4, Zenon
    <3>2. CASE g \in Range(fs)
      <4>1. PICK i \in 1 .. n : fs[i] = g
        BY <1>4, <3>2 DEF Range
      <4>2. PICK x : x = va + i - 1
        OBVIOUS
      <4>3. x \in V /\ x - va + 1 = i
        BY <1>3, <1>5, <4>2
      <4>4. \A v \in V : FrameOf(E[v]) = g <=> v = x
        <5>1. ASSUME NEW v \in V PROVE FrameOf(E[v]) = g <=> v = x
          <6>1. FrameOf(E[v]) = fs[v - va + 1] /\ v - va + 1 \in 1 .. n
            BY <1>9, <1>10, Zenon
          <6>2. FrameOf(E[v]) = g <=> v - va + 1 = i
            BY <1>4, <4>1, <6>1, Zenon
          <6>3. v - va + 1 = i <=> v = x
            BY <1>3, <4>2
          <6>4. QED BY <6>2, <6>3, Zenon
        <5>2. QED BY <5>1, Zenon
      <4>5. {v \in DOMAIN E : FrameOf(E[v]) = g} = {x}
        BY <1>10, <4>3, <4>4, Zenon
      <4>6. Cardinality({v \in DOMAIN E : FrameOf(E[v]) = g}) = 1
        BY <4>5, FS_Singleton, Zenon
      <4>7. held'[g] = held[g] - 1
        BY <1>7, <1>12, <3>2, Zenon
      <4>8. QED BY <3>1, <4>6, <4>7
    <3>3. CASE g \notin Range(fs)
      <4>1. \A v \in V : FrameOf(E[v]) # g
        BY <1>4, <1>9, <1>10, <3>3 DEF Range
      <4>2. {v \in DOMAIN E : FrameOf(E[v]) = g} = {}
        BY <1>10, <4>1, Zenon
      <4>3. Cardinality({v \in DOMAIN E : FrameOf(E[v]) = g}) = 0
        BY <4>2, FS_EmptySet, Zenon
      <4>4. held'[g] = held[g]
        BY <1>7, <1>12, <3>3, Zenon
      <4>5. QED BY <3>1, <4>3, <4>4
    <3>4. QED BY <3>2, <3>3, Zenon
  <2>9. Gains(t, E)
    <3>1. ASSUME NEW g \in Range(t)
          PROVE  use_count'[g] = 1 /\ held'[g] = 0 /\ \A v \in DOMAIN E : FrameOf(E[v]) # g
      <4>1. g \in Frame /\ use_count'[g] = 1 /\ held[g] = 0 /\ g \notin Range(fs)
        BY <2>2, <2>3, <2>5, <2>6, Zenon
      <4>2. held'[g] = 0
        BY <1>7, <1>12, <4>1, Zenon
      <4>3. \A v \in DOMAIN E : FrameOf(E[v]) # g
        BY <1>4, <1>9, <1>10, <4>1
      <4>4. QED BY <4>1, <4>2, <4>3, Zenon
    <3>2. ASSUME NEW g \in Frame, use_count[g] = 1 PROVE use_count'[g] = 1
      BY <2>3, <3>2, Zenon
    <3> HIDE DEF V
    <3>3. QED BY <2>3, <2>7, <2>8, <3>1, Zenon DEF Gains
  <2>10. \A v \in DOMAIN E : Flattened[s][v] = None
    BY <1>2, <1>10, Zenon
  <2>11. \A v \in DOMAIN E : Allowed(v, FrameOf(E[v]))
    BY <1>4, <1>9, <1>10 DEF Allowed
  <2>12. \A g \in Frame : held'[g] > 0 => held[g] > 0
    BY <1>7, <1>12, <2>4
  <2> HIDE DEF V
  <2>13. QED BY <1>1, <1>12, <2>1, <2>9, <2>10, <2>11, <2>12, ExtendKeeps, Zenon
<1> HIDE DEF V
<1>13. QED BY <1>8, <1>11, <1>12, Zenon DEF ptable_map

\* Callers take and return frames.
LEMMA HeldKeeps ==
  ASSUME VInv, UNCHANGED <<pgd, dir, table, maps, mappings, halted>>,
         use_count' \in [Frame \cup {Kernel} -> Nat], use_count'[Kernel] = 1,
         held' \in [Frame -> Nat],
         \A f \in Frame : use_count'[f] - held'[f] = use_count[f] - held[f],
         \A f \in Frame : use_count[f] = 1 /\ held[f] = 0 => use_count'[f] = 1
  PROVE  VInv'
<1>1. TypeOK'
  BY Zenon DEF VInv, TypeOK
<1>2. Flattened' = Flattened
  BY DEF Flattened, Translation, ptable_get_pte
<1>3. held \in [Frame -> Nat] /\ use_count \in [Frame \cup {Kernel} -> Nat]
  BY DEF VInv, TypeOK
<1>4. Counted(use_count', held', pgd, dir, Flattened)
  <2>1. ASSUME NEW f \in Frame
        PROVE  use_count'[f] =
                 held'[f] + Cardinality(Owners(pgd, f)) + Cardinality(Referring(Pde, dir, f))
                          + Cardinality(Referring(VPage, Flattened, f))
    <3>1. PICK a, b, c, u, u2, h, h2 :
            /\ a = Cardinality(Owners(pgd, f))
            /\ b = Cardinality(Referring(Pde, dir, f))
            /\ c = Cardinality(Referring(VPage, Flattened, f))
            /\ u = use_count[f] /\ u2 = use_count'[f] /\ h = held[f] /\ h2 = held'[f]
      OBVIOUS
    <3>2. a \in Nat /\ b \in Nat /\ c \in Nat
      BY <3>1, Cards, Zenon
    <3>3. u \in Nat /\ u2 \in Nat /\ h \in Nat /\ h2 \in Nat /\ u2 - h2 = u - h
      BY <1>3, <3>1, Zenon
    <3>4. u = h + a + b + c
      BY <3>1, Zenon DEF VInv, Counted
    <3>5. u2 = h2 + a + b + c
      BY <3>2, <3>3, <3>4
    <3>6. QED BY <3>1, <3>5, Zenon
  <2>2. QED BY <2>1, Zenon DEF Counted
<1>5. OneUse(use_count', pgd, dir)
  <2>1. ASSUME NEW f \in Frame, NEW s \in Space, pgd[s] = f PROVE use_count'[f] = 1
    <3>1. use_count[f] = 1 /\ Counted(use_count, held, pgd, dir, Flattened)
      BY <2>1, Zenon DEF VInv, OneUse
    <3>2. held[f] = 0
      BY <2>1, <3>1, DirectorySole
    <3>3. QED BY <3>1, <3>2
  <2>2. ASSUME NEW f \in Frame, NEW s \in Space, NEW i \in Pde, dir[s][i] = f
        PROVE  use_count'[f] = 1
    <3>1. use_count[f] = 1 /\ Counted(use_count, held, pgd, dir, Flattened)
      BY <2>2, Zenon DEF VInv, OneUse
    <3>2. held[f] = 0
      BY <2>2, <3>1, TableSole
    <3>3. QED BY <3>1, <3>2, Zenon
  <2>3. QED BY <2>1, <2>2 DEF OneUse
<1>6. QED BY <1>1, <1>2, <1>4, <1>5, Zenon DEF VInv

LEMMA PageAllocKeeps ==
  ASSUME VInv, NEW f \in UNION Pool(Free, 1), page_alloc(f)
  PROVE  VInv'
<1>1. f \in Frame /\ use_count[f] = 0
  BY OneFree
<1>2. use_count' = Taken({f}) /\ held' = [held EXCEPT ![f] = 1]
      /\ UNCHANGED <<pgd, dir, table, maps, range, mappings, halted>>
  BY Zenon DEF page_alloc
<1>3. held[f] = 0
  BY <1>1, FreeNow, Zenon
<1>4. held \in [Frame -> Nat] /\ use_count \in [Frame \cup {Kernel} -> Nat]
  BY Zenon DEF VInv, TypeOK
<1>5. /\ use_count' \in [Frame \cup {Kernel} -> Nat] /\ use_count'[Kernel] = 1
      /\ \A g \in {f} : use_count'[g] = 1
      /\ \A g \in Frame \ {f} : use_count'[g] = use_count[g]
  <2>1. {f} \subseteq Frame
    BY <1>1
  <2>2. QED BY <1>2, <2>1, TakenCounts, Zenon
<1>6. held' \in [Frame -> Nat] /\ held'[f] = 1 /\ \A g \in Frame \ {f} : held'[g] = held[g]
  BY <1>1, <1>2, <1>4, Zenon
<1>7. \A g \in Frame : use_count'[g] - held'[g] = use_count[g] - held[g]
  BY <1>1, <1>3, <1>5, <1>6
<1>8. \A g \in Frame : use_count[g] = 1 => use_count'[g] = 1
  BY <1>5
<1>9. QED BY <1>2, <1>5, <1>6, <1>7, HeldKeeps, Zenon

LEMMA PageFreeKeeps ==
  ASSUME VInv, NEW f \in Frame, page_free(f)
  PROVE  VInv'
<1>1. /\ held[f] > 0 /\ use_count' = [use_count EXCEPT ![f] = @ - 1]
      /\ held' = [held EXCEPT ![f] = @ - 1]
      /\ UNCHANGED <<pgd, dir, table, maps, range, mappings, halted>>
  BY Zenon DEF page_free
<1>2. /\ held \in [Frame -> Nat] /\ use_count \in [Frame \cup {Kernel} -> Nat]
      /\ use_count[Kernel] = 1 /\ Kernel # f
  BY VmConstants, Zenon DEF VInv, TypeOK, Counted
<1>3. use_count[f] > 0
  <2>1. held[f] # 0
    BY <1>1
  <2>2. use_count[f] # 0
    BY <2>1, FreeNow, Zenon
  <2>3. QED BY <1>2, <2>2
<1>4. /\ use_count' \in [Frame \cup {Kernel} -> Nat] /\ use_count'[Kernel] = 1
      /\ held' \in [Frame -> Nat]
      /\ use_count'[f] = use_count[f] - 1 /\ held'[f] = held[f] - 1
      /\ \A g \in Frame \ {f} : use_count'[g] = use_count[g] /\ held'[g] = held[g]
  BY <1>1, <1>2, <1>3
<1>5. \A g \in Frame : use_count'[g] - held'[g] = use_count[g] - held[g]
  BY <1>2, <1>4
<1>6. \A g \in Frame : use_count[g] = 1 /\ held[g] = 0 => use_count'[g] = 1
  BY <1>1
<1>7. QED BY <1>1, <1>4, <1>5, <1>6, HeldKeeps, Zenon

LEMMA MappingsKeep ==
  ASSUME VInv, NEW s \in Space, NEW m \in Map,
         \/ vm_map_new(m) \/ vm_map_destroy(m)
         \/ vm_space_add_map(s, m) \/ vm_space_delete_map(s, m)
  PROVE  VInv' /\ Idle
<1>1. UNCHANGED <<use_count, pgd, dir, table, held, halted>>
  BY Zenon DEF vm_map_new, vm_map_destroy, vm_space_add_map, vm_space_delete_map
<1>2. maps \subseteq Map /\ mappings \in [Space -> SUBSET maps]
  BY Zenon DEF VInv, TypeOK
<1>3. maps' \subseteq Map /\ mappings' \in [Space -> SUBSET maps']
  <2>1. CASE vm_map_new(m)
    BY <1>2, <2>1, Zenon DEF vm_map_new
  <2>2. CASE vm_map_destroy(m)
    <3>1. \A r \in Space : mappings[r] \subseteq maps \ {m}
      BY <1>2, <2>2, Zenon DEF vm_map_destroy
    <3>2. QED BY <1>2, <2>2, Zenon DEF vm_map_destroy
  <2>3. CASE vm_space_add_map(s, m)
    BY <1>2, <2>3 DEF vm_space_add_map
  <2>4. CASE vm_space_delete_map(s, m)
    BY <1>2, <2>4 DEF vm_space_delete_map
  <2>5. QED BY <2>1, <2>2, <2>3, <2>4, Zenon
<1>4. TypeOK'
  BY <1>1, <1>3, Zenon DEF VInv, TypeOK
<1>5. QED BY <1>1, <1>4, MemoryKept, Zenon

LEMMA LowEntry ==
  ASSUME VInv, NEW s \in Space, NEW i \in Pde, i < pde_max
  PROVE  dir[s][i] \in Frame \cup {None}
<1>1. dir[s][i] \in Frame \cup {Kernel, None} /\ (dir[s][i] = Kernel <=> i >= pde_max)
  BY DEF VInv, TypeOK
<1>2. i \in Nat /\ pde_max \in Nat
  BY Sizes, Zenon
<1>3. QED BY <1>1, <1>2

LEMMA FlatType ==
  ASSUME VInv
  PROVE  Flattened \in [Space -> [VPage -> Frame \cup {None}]]
<1>1. ASSUME NEW s \in Space, NEW v \in VPage PROVE Translation(s, v) \in Frame \cup {None}
  <2>1. PICK i, k : i = PAGE_DIRECTORY_INDEX(v) /\ k = PAGE_TABLE_INDEX(v)
    OBVIOUS
  <2>2. i \in Pde /\ i < pde_max /\ k \in Pte
    BY <2>1, Indices
  <2>3. dir[s][i] \in Frame \cup {None}
    BY <2>2, LowEntry, Zenon
  <2>4. dir[s][i] # None => table[dir[s][i]][k] \in Entry
    BY <2>2, <2>3 DEF VInv, TypeOK
  <2>5. QED BY <2>1, <2>4, Zenon DEF Translation, ptable_get_pte, Entry
<1>2. QED BY <1>1 DEF Flattened

LEMMA NewKeeps ==
  ASSUME VInv, NEW s \in Space, vm_space_new(s)
  PROVE  VInv'
<1>1. CASE Halt
  BY <1>1, HaltKeeps
<1>2. ASSUME NEW f \in UNION Pool(Free, 1), pgd' = [pgd EXCEPT ![s] = f], use_count' = Taken({f}),
             dir' = [dir EXCEPT ![s] = ptable_pgd_new],
             UNCHANGED <<table, maps, range, mappings, held, halted>>
      PROVE  VInv'
  <2>1. f \in Frame /\ use_count[f] = 0
    BY OneFree, Zenon
  <2>2. /\ held \in [Frame -> Nat] /\ use_count \in [Frame \cup {Kernel} -> Nat]
        /\ dir \in [Space -> [Pde -> Frame \cup {Kernel, None}]]
        /\ pgd \in [Space -> Frame \cup {None}]
    BY Zenon DEF VInv, TypeOK
  <2>3. pgd[s] = None /\ dir[s] = kernel_pgd
    BY Zenon DEF vm_space_new, VInv, NoTables
  <2>4. dir' = dir
    BY <1>2, <2>2, <2>3, Zenon DEF ptable_pgd_new
  <2>5. Flattened' = Flattened
    BY <1>2, <2>4 DEF Flattened, Translation, ptable_get_pte
  <2>6. /\ use_count' \in [Frame \cup {Kernel} -> Nat] /\ use_count'[Kernel] = 1
        /\ \A g \in {f} : use_count'[g] = 1
        /\ \A g \in Frame \ {f} : use_count'[g] = use_count[g]
    <3>1. {f} \subseteq Frame
      BY <2>1
    <3>2. QED BY <1>2, <3>1, TakenCounts, Zenon
  <2>7. /\ held[f] = 0
        /\ \A r \in Space : pgd[r] # f
        /\ \A r \in Space, i \in Pde : dir[r][i] # f
        /\ \A r \in Space, v \in VPage : Flattened[r][v] # f
    BY <2>1, FreeNow, Zenon
  <2>8. pgd' \in [Space -> Frame \cup {None}] /\ pgd'[s] = f
        /\ \A r \in Space \ {s} : pgd'[r] = pgd[r]
    BY <1>2, <2>1, <2>2
  <2>9. TypeOK'
    <3>1. /\ \A r \in Space, i \in Pde : dir[r][i] = Kernel <=> i >= pde_max
          /\ table' \in [Frame -> [Pte -> Entry]] /\ maps' \subseteq Map
          /\ mappings' \in [Space -> SUBSET maps'] /\ halted' \in BOOLEAN
          /\ held' \in [Frame -> Nat]
      BY <1>2, Zenon DEF VInv, TypeOK
    <3>2. QED BY <2>2, <2>4, <2>6, <2>8, <3>1 DEF TypeOK
  <2>10. ASSUME NEW g \in Frame
         PROVE  use_count'[g] =
                  held[g] + Cardinality(Owners(pgd', g)) + Cardinality(Referring(Pde, dir, g))
                          + Cardinality(Referring(VPage, Flattened, g))
    <3>1. CASE g = f
      <4>1. Owners(pgd', g) = {s}
        BY <2>7, <2>8, <3>1 DEF Owners
      <4>2. Referring(Pde, dir, g) = {} /\ Referring(VPage, Flattened, g) = {}
        BY <2>7, <3>1 DEF Referring
      <4>3. /\ Cardinality(Owners(pgd', g)) = 1
            /\ Cardinality(Referring(Pde, dir, g)) = 0
            /\ Cardinality(Referring(VPage, Flattened, g)) = 0
        BY <4>1, <4>2, FS_Singleton, FS_EmptySet, Zenon
      <4>4. use_count'[g] = 1 /\ held[g] = 0
        BY <2>6, <2>7, <3>1, Zenon
      <4>5. QED BY <4>3, <4>4
    <3>2. CASE g # f
      <4>1. Owners(pgd', g) = Owners(pgd, g)
        BY <2>3, <2>8, <3>2, VmConstants DEF Owners
      <4>2. use_count'[g] = use_count[g]
        BY <2>6, <3>2
      <4>3. QED BY <4>1, <4>2, Zenon DEF VInv, Counted
    <3>3. QED BY <3>1, <3>2, Zenon
  <2>11. Counted(use_count', held', pgd', dir', Flattened')
    BY <1>2, <2>2, <2>4, <2>5, <2>6, <2>10, Zenon DEF Counted
  <2>12. OneUse(use_count', pgd', dir')
    <3>1. \A g \in Frame : use_count[g] = 1 => use_count'[g] = 1
      BY <2>6
    <3>2. ASSUME NEW g \in Frame, NEW r \in Space, pgd'[r] = g PROVE use_count'[g] = 1
      <4>1. CASE r = s
        BY <2>6, <2>8, <3>2, <4>1, Zenon
      <4>2. CASE r # s
        BY <2>8, <3>1, <3>2, <4>2, Zenon DEF VInv, OneUse
      <4>3. QED BY <4>1, <4>2, Zenon
    <3>3. ASSUME NEW g \in Frame, NEW r \in Space, NEW i \in Pde, dir[r][i] = g
          PROVE  use_count'[g] = 1
      BY <3>1, <3>3, Zenon DEF VInv, OneUse
    <3>4. QED BY <2>4, <3>2, <3>3 DEF OneUse
  <2>13. NoTables(pgd', dir')
    BY <2>1, <2>4, <2>8, VmConstants DEF VInv, NoTables
  <2>14. QED BY <2>9, <2>11, <2>12, <2>13, Zenon DEF VInv
<1>3. QED BY <1>1, <1>2, Zenon DEF vm_space_new

\* What is left of memory when the space s is gone
LEMMA DestroyEffect ==
  ASSUME VInv, NEW s \in Space, ptable_pgd_free(s)
  PROVE  /\ table' \in [Frame -> [Pte -> Entry]]
         /\ dir' \in [Space -> [Pde -> Frame \cup {Kernel, None}]]
         /\ dir'[s] = kernel_pgd /\ \A r \in Space \ {s} : dir'[r] = dir[r]
         /\ \A v \in VPage : Flattened'[s][v] = None
         /\ \A r \in Space \ {s}, v \in VPage : Flattened'[r][v] = Flattened[r][v]
<1>1. /\ dir \in [Space -> [Pde -> Frame \cup {Kernel, None}]]
      /\ table \in [Frame -> [Pte -> Entry]]
      /\ \A r \in Space, i \in Pde : dir[r][i] = Kernel <=> i >= pde_max
  BY Zenon DEF VInv, TypeOK
<1>2. /\ dir' = [dir EXCEPT ![s] = kernel_pgd]
      /\ table' = [f \in Frame |-> IF \E i \in Pde : dir[s][i] = f THEN Cleared ELSE table[f]]
  BY Zenon DEF ptable_pgd_free
<1>3. /\ kernel_pgd \in [Pde -> Frame \cup {Kernel, None}]
      /\ \A i \in Pde : i < pde_max => kernel_pgd[i] = None
  BY Zenon DEF kernel_pgd
<1>4. Cleared \in [Pte -> Entry]
  BY Zenon DEF Cleared, Entry
<1>5. table' \in [Frame -> [Pte -> Entry]]
  BY <1>1, <1>2, <1>4, Zenon
<1>6. /\ dir' \in [Space -> [Pde -> Frame \cup {Kernel, None}]]
      /\ dir'[s] = kernel_pgd /\ \A r \in Space \ {s} : dir'[r] = dir[r]
  BY <1>1, <1>2, <1>3
<1>7. ASSUME NEW v \in VPage PROVE Translation(s, v)' = None
  <2>1. PAGE_DIRECTORY_INDEX(v) \in Pde /\ PAGE_DIRECTORY_INDEX(v) < pde_max
    BY Indices
  <2>2. dir'[s][PAGE_DIRECTORY_INDEX(v)] = None
    BY <1>3, <1>6, <2>1, Zenon
  <2>3. QED BY <2>2, Zenon DEF Translation, ptable_get_pte
<1>8. ASSUME NEW r \in Space \ {s}, NEW v \in VPage PROVE Translation(r, v)' = Translation(r, v)
  <2>1. PICK i : i = PAGE_DIRECTORY_INDEX(v)
    OBVIOUS
  <2>2. i \in Pde /\ i < pde_max
    BY <2>1, Indices, Zenon
  <2>3. PICK f : f = dir[r][i] /\ f = dir'[r][i]
    BY <1>6, Zenon
  <2>4. CASE f = None
    BY <2>1, <2>3, <2>4, Zenon DEF Translation, ptable_get_pte
  <2>5. CASE f # None
    <3>1. f \in Frame /\ r \in Space
      BY <2>2, <2>3, <2>5, LowEntry, Zenon
    <3>2. use_count[f] = 1 /\ Counted(use_count, held, pgd, dir, Flattened)
      BY <2>2, <2>3, <3>1, Zenon DEF VInv, OneUse
    <3>3. \A j \in Pde : dir[s][j] # f
      <4>1. dir[r][i] = f /\ i \in Pde /\ r \in Space /\ f \in Frame
        BY <2>2, <2>3, <3>1, Zenon
      <4>2. /\ held[f] = 0
            /\ \A q \in Space : pgd[q] # f
            /\ \A q \in Space, j \in Pde : dir[q][j] = f => q = r /\ j = i
            /\ \A q \in Space, w \in VPage : Flattened[q][w] # f
        BY <3>2, <4>1, TableSole
      <4>3. QED BY <4>2, Zenon
    <3>4. table'[f] = table[f]
      BY <1>2, <3>1, <3>3
    <3>5. QED BY <2>1, <2>3, <3>4 DEF Translation, ptable_get_pte
  <2>6. QED BY <2>4, <2>5
<1>9. Flattened' = [r \in Space |-> [v \in VPage |-> Translation(r, v)']]
  BY Zenon DEF Flattened
<1>10. Flattened = [r \in Space |-> [v \in VPage |-> Translation(r, v)]]
  BY Zenon DEF Flattened
<1>11. \A v \in VPage : Flattened'[s][v] = None
  BY <1>7, <1>9, Zenon
<1>12. \A r \in Space \ {s}, v \in VPage : Flattened'[r][v] = Flattened[r][v]
  BY <1>8, <1>9, <1>10
<1>13. QED BY <1>5, <1>6, <1>11, <1>12, Zenon

LEMMA DestroyKeeps ==
  ASSUME VInv, NEW s \in Space, vm_space_destroy(s)
  PROVE  VInv'
<1>1. ptable_pgd_free(s) /\ mappings' = [mappings EXCEPT ![s] = {}] /\ UNCHANGED <<maps, range, held, halted>>
  BY Zenon DEF vm_space_destroy
<1>2. /\ table' \in [Frame -> [Pte -> Entry]]
      /\ dir' \in [Space -> [Pde -> Frame \cup {Kernel, None}]]
      /\ dir'[s] = kernel_pgd /\ \A r \in Space \ {s} : dir'[r] = dir[r]
      /\ \A v \in VPage : Flattened'[s][v] = None
      /\ \A r \in Space \ {s}, v \in VPage : Flattened'[r][v] = Flattened[r][v]
  BY <1>1, DestroyEffect, Zenon
<1>3. /\ held \in [Frame -> Nat] /\ use_count \in [Frame \cup {Kernel} -> Nat]
      /\ dir \in [Space -> [Pde -> Frame \cup {Kernel, None}]]
      /\ pgd \in [Space -> Frame \cup {None}]
      /\ \A r \in Space, i \in Pde : dir[r][i] = Kernel <=> i >= pde_max
  BY Zenon DEF VInv, TypeOK
<1>4. /\ pgd' = [pgd EXCEPT ![s] = None]
      /\ \A f \in Frame \cup {Kernel} : use_count'[f] = use_count[f] - Refs(s, f, pde_max)
      /\ use_count' = [f \in Frame \cup {Kernel} |-> use_count'[f]]
  BY <1>1, <1>3, Zenon DEF ptable_pgd_free
<1>5. pgd' \in [Space -> Frame \cup {None}] /\ pgd'[s] = None
      /\ \A r \in Space \ {s} : pgd'[r] = pgd[r]
  BY <1>3, <1>4
<1>6. \A i \in Pde : kernel_pgd[i] = IF i < pde_max THEN None ELSE Kernel
  BY Zenon DEF kernel_pgd
<1>7. Pde \subseteq Nat /\ pde_max \in Nat
  BY Sizes, Zenon
<1> DEFINE Low == {i \in Pde : i < pde_max}
\* The references of s to a frame are those that disappear.
<1>8. ASSUME NEW f \in Frame
      PROVE  /\ use_count'[f] \in Nat
             /\ use_count'[f] =
                  held[f] + Cardinality(Owners(pgd', f)) + Cardinality(Referring(Pde, dir', f))
                          + Cardinality(Referring(VPage, Flattened', f))
  <2>1. f # None /\ f # Kernel
    BY VmConstants, Zenon
  <2>2. PICK a, b, c, a2, b2, c2, x, y, z, h, u :
          /\ a = Cardinality(Owners(pgd, f)) /\ a2 = Cardinality(Owners(pgd', f))
          /\ b = Cardinality(Referring(Pde, dir, f)) /\ b2 = Cardinality(Referring(Pde, dir', f))
          /\ c = Cardinality(Referring(VPage, Flattened, f))
          /\ c2 = Cardinality(Referring(VPage, Flattened', f))
          /\ x = (IF pgd[s] = f THEN 1 ELSE 0)
          /\ y = Cardinality(Hits(Low, dir[s], f))
          /\ z = Cardinality(Hits(VPage, Flattened[s], f))
          /\ h = held[f] /\ u = use_count[f]
    BY Zenon
  <2>3. a2 \in Nat /\ a = a2 + x
    <3>1. IsFiniteSet(Owners(pgd', f)) /\ a2 \in Nat
      BY <2>2, Cards, Zenon
    <3>2. s \notin Owners(pgd', f)
      BY <1>5, <2>1, Zenon DEF Owners
    <3>3. CASE pgd[s] = f
      <4>1. Owners(pgd, f) = Owners(pgd', f) \cup {s}
        BY <1>5, <3>3, Zenon DEF Owners
      <4>2. QED BY <2>2, <3>1, <3>2, <3>3, <4>1, FS_AddElement, Zenon
    <3>4. CASE pgd[s] # f
      <4>1. Owners(pgd, f) = Owners(pgd', f)
        BY <1>5, <2>1, <3>4, Zenon DEF Owners
      <4>2. QED BY <2>2, <3>1, <3>4, <4>1
    <3>5. QED BY <3>3, <3>4, Zenon
  <2>4. b2 \in Nat /\ y \in Nat /\ b = b2 + y
    <3>1. \A i \in Low : dir'[s][i] # f
      BY <1>2, <1>6, <2>1, Zenon
    <3>2. ASSUME NEW i \in Pde \ Low PROVE dir[s][i] = dir'[s][i]
      <4>1. i \in Pde /\ i >= pde_max /\ ~(i < pde_max)
        BY <1>7
      <4>2. QED BY <1>2, <1>3, <1>6, <4>1, Zenon
    <3>3. Low \subseteq Pde /\ IsFiniteSet(Pde)
      BY Sizes, Zenon
    <3> HIDE DEF Low
    <3>4. Reset(Pde, dir', dir, s, Low, f)
      BY <1>2, <3>1, <3>2, <3>3, Zenon DEF Reset
    <3>5. /\ Cardinality(Referring(Pde, dir', f)) \in Nat
          /\ Cardinality(Hits(Low, dir[s], f)) \in Nat
          /\ Cardinality(Referring(Pde, dir, f))
               = Cardinality(Referring(Pde, dir', f)) + Cardinality(Hits(Low, dir[s], f))
      BY <3>4, Recount
    <3>6. QED BY <2>2, <3>5, Zenon
  <2>5. c2 \in Nat /\ z \in Nat /\ c = c2 + z
    <3>1. Reset(VPage, Flattened', Flattened, s, VPage, f)
      BY <1>2, <2>1, Sizes, Zenon DEF Reset
    <3>2. /\ Cardinality(Referring(VPage, Flattened', f)) \in Nat
          /\ Cardinality(Hits(VPage, Flattened[s], f)) \in Nat
          /\ Cardinality(Referring(VPage, Flattened, f))
               = Cardinality(Referring(VPage, Flattened', f)) + Cardinality(Hits(VPage, Flattened[s], f))
      BY <3>1, Recount
    <3>3. QED BY <2>2, <3>2, Zenon
  <2>6. Refs(s, f, pde_max) = x + y + z
    <3>1. Hits(Low, dir[s], f) = {i \in Pde : i < pde_max /\ dir[s][i] = f}
      BY DEF Hits
    <3>2. Hits(VPage, Flattened[s], f) = {va \in VPage : Translation(s, va) = f}
      BY Flat1 DEF Hits
    <3>3. QED BY <2>2, <3>1, <3>2, Zenon DEF Refs
  <2>7. u = h + a + b + c
    BY <2>2, Zenon DEF VInv, Counted
  <2>8. h \in Nat /\ x \in Nat
    BY <1>3, <2>2
  <2>9. use_count'[f] = u - (x + y + z)
    BY <1>4, <2>2, <2>6
  <2> HIDE DEF Low
  <2>10. u - (x + y + z) = h + a2 + b2 + c2 /\ h + a2 + b2 + c2 \in Nat
    BY <2>3, <2>4, <2>5, <2>7, <2>8
  <2>11. QED BY <2>2, <2>9, <2>10, Zenon
<1>9. use_count'[Kernel] = 1
  <2>1. use_count[Kernel] = 1 /\ Kernel \notin Frame \cup {None}
    BY VmConstants DEF VInv, Counted
  <2>2. pgd[s] # Kernel
    BY <1>3, <2>1
  <2>3. {i \in Pde : i < pde_max /\ dir[s][i] = Kernel} = {}
    <3>1. \A i \in Pde : i < pde_max => dir[s][i] # Kernel
      BY <1>3, <1>7
    <3>2. QED BY <3>1, Zenon
  <2>4. {va \in VPage : Translation(s, va) = Kernel} = {}
    BY <2>1, Flat1, FlatType
  <2>5. Refs(s, Kernel, pde_max) = 0
    BY <2>2, <2>3, <2>4, FS_EmptySet DEF Refs
  <2>6. QED BY <1>4, <2>1, <2>5
<1>10. use_count' \in [Frame \cup {Kernel} -> Nat]
  BY <1>4, <1>8, <1>9
<1>11. TypeOK'
  <2>1. \A r \in Space, i \in Pde : dir'[r][i] = Kernel <=> i >= pde_max
    <3>1. None # Kernel
      BY VmConstants
    <3>2. QED BY <1>2, <1>3, <1>6, <1>7, <3>1
  <2>2. /\ maps' \subseteq Map /\ mappings' \in [Space -> SUBSET maps'] /\ halted' \in BOOLEAN
        /\ held' \in [Frame -> Nat]
    BY <1>1, Zenon DEF VInv, TypeOK
  <2>3. QED BY <1>2, <1>5, <1>10, <2>1, <2>2, Zenon DEF TypeOK
<1>12. Counted(use_count', held', pgd', dir', Flattened')
  BY <1>1, <1>3, <1>8, <1>9, Zenon DEF Counted
\* Directories and tables of other spaces are not referred to by s.
<1>13. ASSUME NEW f \in Frame, NEW r \in Space \ {s}, pgd[r] = f \/ \E i \in Pde : dir[r][i] = f
       PROVE  use_count'[f] = 1
  <2>1. use_count[f] = 1 /\ Counted(use_count, held, pgd, dir, Flattened)
    BY <1>13, Zenon DEF VInv, OneUse
  <2>2. pgd[s] # f /\ (\A i \in Pde : dir[s][i] # f) /\ \A v \in VPage : Flattened[s][v] # f
    <3>1. CASE pgd[r] = f
      <4>1. /\ \A q \in Space : pgd[q] = f => q = r
            /\ \A q \in Space, j \in Pde : dir[q][j] # f
            /\ \A q \in Space, v \in VPage : Flattened[q][v] # f
        BY <2>1, <3>1, DirectorySole
      <4>2. QED BY <4>1, Zenon
    <3>2. ASSUME NEW i \in Pde, dir[r][i] = f
          PROVE  pgd[s] # f /\ (\A j \in Pde : dir[s][j] # f) /\ \A v \in VPage : Flattened[s][v] # f
      <4>1. /\ \A q \in Space : pgd[q] # f
            /\ \A q \in Space, j \in Pde : dir[q][j] = f => q = r /\ j = i
            /\ \A q \in Space, v \in VPage : Flattened[q][v] # f
        BY <2>1, <3>2, TableSole
      <4>2. QED BY <4>1, Zenon
    <3>3. QED BY <1>13, <3>1, <3>2, Zenon
  <2>3. {i \in Pde : i < pde_max /\ dir[s][i] = f} = {} /\ {va \in VPage : Translation(s, va) = f} = {}
    BY <2>2, Flat1, Zenon
  <2>4. Refs(s, f, pde_max) = 0
    <3>1. /\ Cardinality({i \in Pde : i < pde_max /\ dir[s][i] = f}) = 0
          /\ Cardinality({va \in VPage : Translation(s, va) = f}) = 0
      BY <2>3, FS_EmptySet, Zenon
    <3>2. QED BY <2>2, <3>1 DEF Refs
  <2>5. QED BY <1>4, <2>1, <2>4
<1>14. OneUse(use_count', pgd', dir')
  <2>1. SUFFICES ASSUME NEW f \in Frame, NEW r \in Space,
                        pgd'[r] = f \/ \E i \in Pde : dir'[r][i] = f
                 PROVE  use_count'[f] = 1
    BY DEF OneUse
  <2>2. r # s
    <3>1. None \notin Frame /\ Kernel \notin Frame
      BY VmConstants, Zenon
    <3>2. QED BY <1>2, <1>5, <1>6, <2>1, <3>1, Zenon
  <2>3. pgd[r] = f \/ \E i \in Pde : dir[r][i] = f
    BY <1>2, <1>5, <2>1, <2>2, Zenon
  <2>4. QED BY <1>13, <2>2, <2>3, Zenon
<1>15. NoTables(pgd', dir')
  BY <1>2, <1>5, Zenon DEF VInv, NoTables
<1>16. QED BY <1>11, <1>12, <1>14, <1>15, Zenon DEF VInv

\* ptable_unmap_many() removes the translations of V and nothing else.
LEMMA ClearEffect ==
  ASSUME VInv, NEW s \in Space, NEW V, V \subseteq VPage,
         \A v \in V : dir[s][PAGE_DIRECTORY_INDEX(v)] # None, ClearEntries(s, V)
  PROVE  /\ table' \in [Frame -> [Pte -> Entry]]
         /\ dir' = dir
         /\ \A r \in Space \ {s}, v \in VPage : Flattened'[r][v] = Flattened[r][v]
         /\ \A v \in VPage : Flattened'[s][v] = IF v \in V THEN None ELSE Flattened[s][v]
<1>1. PICK E : E = [v \in V |-> None]
  BY Zenon
<1>2. PICK t : t = <<>>
  OBVIOUS
<1>3. DOMAIN t = {} /\ DOMAIN E = V /\ \A v \in V : E[v] = None
  BY <1>1, <1>2
<1>4. Store(s, t, Cleared, E)
  BY <1>1, <1>2, Zenon DEF ClearEntries
<1>5. Cleared \in [Pte -> Entry] /\ None \in Entry
  BY Zenon DEF Cleared, Entry
<1>6. Fits(s, t, Cleared, E)
  BY <1>3, <1>5, Zenon DEF Fits
<1>7. Stored(s, t, E)
  BY <1>4, <1>6, StoreEffect, Zenon
<1>8. dir' = dir
  <2>1. /\ dir \in [Space -> [Pde -> Frame \cup {Kernel, None}]]
        /\ dir' \in [Space -> [Pde -> Frame \cup {Kernel, None}]]
    BY <1>7, Zenon DEF VInv, TypeOK, Stored
  <2>2. ASSUME NEW r \in Space PROVE dir'[r] = dir[r]
    <3>1. CASE r # s
      BY <1>7, <3>1, Zenon DEF Stored
    <3>2. CASE r = s
      <4>1. \A i \in Pde : dir'[s][i] = dir[s][i]
        BY <1>3, <1>7, Zenon DEF Stored
      <4>2. QED BY <2>1, <3>2, <4>1
    <3>3. QED BY <3>1, <3>2, Zenon
  <2>3. QED BY <2>1, <2>2
<1>9. \A v \in VPage : Flattened'[s][v] = IF v \in V THEN None ELSE Flattened[s][v]
  BY <1>3, <1>7, Zenon DEF Stored, FrameOf
<1>10. QED BY <1>7, <1>8, <1>9, Zenon DEF Stored

LEMMA UnmapKeeps ==
  ASSUME VInv, NEW s \in Space, NEW va \in Touched, NEW n \in 1 .. 2, NEW free \in BOOLEAN,
         ptable_unmap_many(s, va, n, free)
  PROVE  VInv'
<1>1. PICK V : V = {v \in va .. va + n - 1 : dir[s][PAGE_DIRECTORY_INDEX(v)] # None}
  BY Zenon
<1> DEFINE m(f) == Cardinality({v \in V : Translation(s, v) = f})
<1>2. /\ va .. va + n - 1 \subseteq Touched /\ ClearEntries(s, V)
      /\ UNCHANGED <<pgd, maps, range, mappings, halted>>
      /\ IF free THEN /\ use_count' = [f \in DOMAIN use_count |-> use_count[f] - m(f)]
                      /\ UNCHANGED held
                 ELSE /\ held' = [f \in Frame |-> held[f] + m(f)]
                      /\ UNCHANGED use_count
  BY <1>1, Zenon DEF ptable_unmap_many
<1>3. V \subseteq VPage /\ \A v \in V : dir[s][PAGE_DIRECTORY_INDEX(v)] # None
  BY <1>1, <1>2, VmConstants, Zenon
<1>4. /\ table' \in [Frame -> [Pte -> Entry]]
      /\ dir' = dir
      /\ \A r \in Space \ {s}, v \in VPage : Flattened'[r][v] = Flattened[r][v]
      /\ \A v \in VPage : Flattened'[s][v] = IF v \in V THEN None ELSE Flattened[s][v]
  BY <1>2, <1>3, ClearEffect
<1>5. held \in [Frame -> Nat] /\ use_count \in [Frame \cup {Kernel} -> Nat]
  BY Zenon DEF VInv, TypeOK
<1>6. ASSUME NEW f PROVE {v \in V : Translation(s, v) = f} = Hits(V, Flattened[s], f)
  BY <1>3, Flat1, Zenon DEF Hits
<1>7. ASSUME NEW f, \A v \in VPage : Flattened[s][v] # f PROVE m(f) = 0
  <2>1. Hits(V, Flattened[s], f) = {}
    BY <1>3, <1>7, Zenon DEF Hits
  <2>2. QED BY <1>6, <2>1, FS_EmptySet, Zenon
<1>8. ASSUME NEW f \in Frame
      PROVE  /\ m(f) \in Nat /\ Cardinality(Referring(VPage, Flattened', f)) \in Nat
             /\ Cardinality(Referring(VPage, Flattened, f))
                  = Cardinality(Referring(VPage, Flattened', f)) + m(f)
  <2>1. f # None /\ IsFiniteSet(VPage)
    BY Sizes, VmConstants, Zenon
  <2>2. Reset(VPage, Flattened', Flattened, s, V, f)
    BY <1>3, <1>4, <2>1, Zenon DEF Reset
  <2>3. /\ Cardinality(Referring(VPage, Flattened', f)) \in Nat
        /\ Cardinality(Hits(V, Flattened[s], f)) \in Nat
        /\ Cardinality(Referring(VPage, Flattened, f))
             = Cardinality(Referring(VPage, Flattened', f)) + Cardinality(Hits(V, Flattened[s], f))
    BY <2>2, Recount
  <2>4. QED BY <1>6, <2>3, Zenon
<1> HIDE DEF m
\* use_count and held afterwards
<1>9. ASSUME NEW f \in Frame
      PROVE  /\ use_count'[f] \in Nat /\ held'[f] \in Nat
             /\ use_count'[f] =
                  held'[f] + Cardinality(Owners(pgd, f)) + Cardinality(Referring(Pde, dir, f))
                           + Cardinality(Referring(VPage, Flattened', f))
  <2>1. PICK a, b, c, c2, k, h, u :
          /\ a = Cardinality(Owners(pgd, f)) /\ b = Cardinality(Referring(Pde, dir, f))
          /\ c = Cardinality(Referring(VPage, Flattened, f))
          /\ c2 = Cardinality(Referring(VPage, Flattened', f))
          /\ k = m(f) /\ h = held[f] /\ u = use_count[f]
    OBVIOUS
  <2>2. k \in Nat /\ c2 \in Nat /\ c = c2 + k
    BY <1>8, <2>1, Zenon
  <2>3. a \in Nat /\ b \in Nat
    BY <2>1, Cards, Zenon
  <2>4. h \in Nat /\ u \in Nat
    BY <1>5, <2>1, Zenon
  <2>5. u = h + a + b + c
    BY <2>1, Zenon DEF VInv, Counted
  <2>6. CASE free
    <3>1. use_count'[f] = u - k /\ held'[f] = h
      BY <1>2, <1>5, <2>1, <2>6
    <3>2. u - k = h + a + b + c2 /\ u - k \in Nat
      BY <2>2, <2>3, <2>4, <2>5
    <3>3. QED BY <2>1, <2>4, <3>1, <3>2, Zenon
  <2>7. CASE ~free
    <3>1. use_count'[f] = u /\ held'[f] = h + k
      BY <1>2, <2>1, <2>7, Zenon
    <3>2. u = h + k + a + b + c2 /\ h + k \in Nat
      BY <2>2, <2>3, <2>4, <2>5
    <3>3. QED BY <2>1, <2>4, <3>1, <3>2, Zenon
  <2>8. QED BY <2>6, <2>7, Zenon
<1>10. use_count'[Kernel] = 1
  <2>1. use_count[Kernel] = 1 /\ Kernel \notin Frame \cup {None}
    BY VmConstants, Zenon DEF VInv, Counted
  <2>2. \A v \in VPage : Flattened[s][v] # Kernel
    BY <2>1, FlatType
  <2>3. m(Kernel) = 0
    BY <1>7, <2>2, Zenon
  <2>4. QED BY <1>2, <1>5, <2>1, <2>3
<1>11. use_count' \in [Frame \cup {Kernel} -> Nat] /\ held' \in [Frame -> Nat]
  <2>1. DOMAIN use_count' = Frame \cup {Kernel} /\ DOMAIN held' = Frame
        /\ use_count' = [f \in DOMAIN use_count' |-> use_count'[f]]
        /\ held' = [f \in DOMAIN held' |-> held'[f]]
    BY <1>2, <1>5, Zenon
  <2>2. QED BY <1>9, <1>10, <2>1
<1>12. TypeOK'
  <2>1. /\ pgd' \in [Space -> Frame \cup {None}] /\ maps' \subseteq Map
        /\ mappings' \in [Space -> SUBSET maps'] /\ halted' \in BOOLEAN
        /\ dir \in [Space -> [Pde -> Frame \cup {Kernel, None}]]
        /\ \A r \in Space, i \in Pde : dir[r][i] = Kernel <=> i >= pde_max
    BY <1>2, Zenon DEF VInv, TypeOK
  <2>2. QED BY <1>4, <1>11, <2>1, Zenon DEF TypeOK
<1>13. pgd' = pgd
  BY <1>2, Zenon
<1>14. Counted(use_count', held', pgd', dir', Flattened')
  BY <1>4, <1>9, <1>10, <1>11, <1>13, Zenon DEF Counted
<1>15. ASSUME NEW f \in Frame, NEW r \in Space, pgd[r] = f \/ \E i \in Pde : dir[r][i] = f
       PROVE  use_count'[f] = 1
  <2>1. use_count[f] = 1 /\ Counted(use_count, held, pgd, dir, Flattened)
    BY <1>15, Zenon DEF VInv, OneUse
  <2>2. \A q \in Space, v \in VPage : Flattened[q][v] # f
    <3>1. CASE pgd[r] = f
      BY <2>1, <3>1, DirectorySole
    <3>2. ASSUME NEW i \in Pde, dir[r][i] = f
          PROVE  \A q \in Space, v \in VPage : Flattened[q][v] # f
      BY <2>1, <3>2, TableSole
    <3>3. QED BY <1>15, <3>1, <3>2
  <2>3. m(f) = 0
    BY <1>7, <2>2, Zenon
  <2>4. QED BY <1>2, <1>5, <2>1, <2>3
<1>16. OneUse(use_count', pgd', dir')
  BY <1>4, <1>13, <1>15 DEF OneUse
<1>17. NoTables(pgd', dir')
  BY <1>4, <1>13, Zenon DEF VInv
<1>18. QED BY <1>12, <1>14, <1>16, <1>17, Zenon DEF VInv

LEMMA PteType ==
  ASSUME VInv, NEW s \in Space, NEW v \in VPage, Translation(s, v) # None
  PROVE  /\ ptable_get_pte(s, v) \in Entry /\ FrameOf(ptable_get_pte(s, v)) = Translation(s, v)
         /\ dir[s][PAGE_DIRECTORY_INDEX(v)] # None
<1>1. PICK i, k : i = PAGE_DIRECTORY_INDEX(v) /\ k = PAGE_TABLE_INDEX(v)
  OBVIOUS
<1>2. i \in Pde /\ i < pde_max /\ k \in Pte
  BY <1>1, Indices
<1>3. dir[s][i] \in Frame \cup {None}
  BY <1>2, LowEntry, Zenon
<1>4. dir[s][i] # None
  BY <1>1, Zenon DEF Translation, ptable_get_pte
<1>5. table[dir[s][i]][k] \in Entry
  BY <1>2, <1>3, <1>4 DEF VInv, TypeOK
<1>6. ptable_get_pte(s, v) = table[dir[s][i]][k]
  BY <1>1, <1>4, Zenon DEF ptable_get_pte
<1>7. FrameOf(ptable_get_pte(s, v)) = Translation(s, v)
  BY Zenon DEF FrameOf, Translation
<1>8. QED BY <1>1, <1>4, <1>5, <1>6, <1>7, Zenon

LEMMA CopyKeeps ==
  ASSUME VInv, ~CopyNew, NEW s \in Space, NEW d \in Space, NEW start \in VPage, NEW end \in VPage,
         NEW flag \in {"SHARE", "COPY", "COW"}, ptable_copy_range(s, d, start, end, flag)
  PROVE  VInv' /\ (Grown(d) \/ Idle)
<1> DEFINE seen == Visited(start, end)
           V    == {va \in seen : Translation(s, va) # None}
           need == {i \in Pde : /\ PAGE_DIRECTORY_INDEX(start) <= i
                                /\ i <= PAGE_DIRECTORY_INDEX(end)
                                /\ dir[s][i] # None /\ dir[d][i] = None}
           new  == IF flag = "COPY" THEN V ELSE {}
<1>1. seen = Visited(start, end)
  OBVIOUS
<1>2. V = {va \in seen : Translation(s, va) # None}
  OBVIOUS
<1>3. \A i \in Pde : \/ ~(PAGE_DIRECTORY_INDEX(start) <= i) \/ ~(i <= PAGE_DIRECTORY_INDEX(end))
                     \/ dir[s][i] = None \/ dir[d][i] # None \/ i \in need
  OBVIOUS
<1>4. new = IF flag = "COPY" THEN V ELSE {}
  OBVIOUS
<1>5. d \in Spaces /\ need = {} /\ \A va \in seen : Translation(d, va) = None
  BY Zenon DEF ptable_copy_range
<1>6. \/ Halt
      \/ \E t \in Allocations(need, {}) : \E p \in Allocations(new, Range(t)), junk \in Fresh :
           /\ Store(d, t, junk,
                [va \in IF flag = "COW" THEN {} ELSE V |->
                   IF flag = "SHARE" THEN ptable_get_pte(s, va) ELSE MAKE_PTE(p[va], FALSE)])
           /\ use_count' = [f \in DOMAIN use_count |->
                CASE f \in Range(t) \cup Range(p) -> 1
                  [] flag = "SHARE" -> PAGE_INC_USES(f, V, s)
                  [] OTHER -> use_count[f]]
           /\ UNCHANGED <<pgd, maps, range, mappings, held, halted>>
  BY Zenon DEF ptable_copy_range
<1> HIDE DEF seen, V, need, new
<1>7. CASE Halt
  BY <1>7, HaltKeeps, Zenon
<1>8. /\ V \subseteq VPage /\ new \subseteq VPage
      /\ \A v \in V : Translation(s, v) # None /\ Translation(d, v) = None
  BY <1>1, <1>2, <1>4, <1>5, Zenon DEF Visited
<1>9. \A v \in V : dir[d][PAGE_DIRECTORY_INDEX(v)] # None
  <2>1. ASSUME NEW v \in V PROVE dir[d][PAGE_DIRECTORY_INDEX(v)] # None
    <3>1. PICK i : i = PAGE_DIRECTORY_INDEX(v)
      OBVIOUS
    <3>2. PAGE_DIRECTORY_INDEX(start) <= i /\ i <= PAGE_DIRECTORY_INDEX(end)
      BY <1>1, <1>2, <3>1, Zenon DEF Visited
    <3>3. i \in Pde /\ dir[s][i] # None
      BY <1>8, <3>1, Indices, PteType, Zenon
    <3>4. QED BY <1>3, <1>5, <3>1, <3>2, <3>3, Zenon
  <2>2. QED BY <2>1, Zenon
<1>10. ASSUME NEW t \in Allocations(need, {}), NEW p \in Allocations(new, Range(t)),
              NEW junk \in Fresh, NEW E,
              E = [va \in IF flag = "COW" THEN {} ELSE V |->
                     IF flag = "SHARE" THEN ptable_get_pte(s, va) ELSE MAKE_PTE(p[va], FALSE)],
              Store(d, t, junk, E),
              use_count' = [f \in DOMAIN use_count |->
                CASE f \in Range(t) \cup Range(p) -> 1
                  [] flag = "SHARE" -> PAGE_INC_USES(f, V, s)
                  [] OTHER -> use_count[f]],
              UNCHANGED <<pgd, maps, range, mappings, held, halted>>
       PROVE  VInv' /\ Grown(d)
  <2>1. DOMAIN t = {} /\ Range(t) = {}
    <3>1. need \subseteq Pde \/ need \subseteq VPage
      BY <1>5, Zenon
    <3>2. Gives(t, need, {})
      BY <3>1, AllocatedFree, Zenon
    <3>3. QED BY <1>5, <3>2 DEF Gives, Range
  <2>2. Gives(p, new, {})
    <3>1. (new \subseteq Pde \/ new \subseteq VPage) /\ p \in Allocations(new, {})
      BY <1>8, <2>1, Zenon
    <3>2. QED BY <3>1, AllocatedFree, Zenon
  <2>3. held \in [Frame -> Nat] /\ use_count \in [Frame \cup {Kernel} -> Nat]
        /\ use_count[Kernel] = 1 /\ Kernel \notin Frame \cup {None}
    BY VmConstants, Zenon DEF VInv, TypeOK, Counted
  <2>4. \A f \in Range(p) : f \in Frame /\ use_count[f] = 0
    BY <2>2, Zenon DEF Gives, Free
  <2>5. flag # "COPY" => Range(p) = {}
    BY <1>4, <2>2, Zenon DEF Gives, Range
  <2>6. ASSUME NEW f \in Frame \cup {Kernel}
        PROVE  use_count'[f] = IF f \in Range(p) THEN 1
                               ELSE IF flag = "SHARE" THEN PAGE_INC_USES(f, V, s)
                               ELSE use_count[f]
    <3>1. use_count'[f] = CASE f \in Range(p) -> 1
                            [] flag = "SHARE" -> PAGE_INC_USES(f, V, s)
                            [] OTHER -> use_count[f]
      BY <1>10, <2>1, <2>3, Zenon
    <3>2. CASE flag = "SHARE"
      <4>1. f \notin Range(p)
        BY <2>5, <3>2
      <4>2. QED BY <3>1, <4>1, Zenon
    <3>3. CASE flag # "SHARE"
      BY <3>1, <3>3
    <3>4. QED BY <3>2, <3>3, Zenon
  \* The new entries
  <2>7. /\ DOMAIN E \subseteq V
        /\ \A v \in DOMAIN E : E[v] \in Entry
        /\ flag = "COW" => DOMAIN E = {}
        /\ flag = "SHARE" => DOMAIN E = V /\ \A v \in V : FrameOf(E[v]) = Translation(s, v)
        /\ flag = "COPY" => DOMAIN E = V /\ \A v \in V : FrameOf(E[v]) = p[v]
    <3>1. CASE flag = "COW"
      BY <1>10, <3>1
    <3>2. CASE flag = "SHARE"
      <4>1. DOMAIN E = V /\ \A v \in V : E[v] = ptable_get_pte(s, v)
        BY <1>10, <3>2
      <4>2. \A v \in V : /\ ptable_get_pte(s, v) \in Entry
                         /\ FrameOf(ptable_get_pte(s, v)) = Translation(s, v)
        BY <1>8, PteType, Zenon
      <4>3. QED BY <3>2, <4>1, <4>2, Zenon
    <3>3. CASE flag = "COPY"
      <4>1. DOMAIN E = V /\ \A v \in V : E[v] = MAKE_PTE(p[v], FALSE)
        BY <1>10, <3>3
      <4>2. \A v \in V : p[v] \in Frame
        BY <1>4, <2>2, <3>3, Zenon DEF Gives, Free
      <4>3. \A v \in V : MAKE_PTE(p[v], FALSE) \in Entry /\ FrameOf(MAKE_PTE(p[v], FALSE)) = p[v]
        BY <4>2, EntryMade, Zenon
      <4>4. QED BY <3>3, <4>1, <4>3, Zenon
    <3>4. QED BY <3>1, <3>2, <3>3, Zenon
  <2>8. Fits(d, t, junk, E)
    <3>1. junk \in [Pte -> Entry]
      BY VmConstants, Zenon
    <3>2. QED BY <1>8, <1>9, <2>1, <2>7, <3>1, Zenon DEF Fits
  <2>9. \A v \in DOMAIN E : Flattened[d][v] = None
    BY <1>8, <2>7, Flat1
  <2>10. ASSUME NEW f
         PROVE  Cardinality({va \in V : Translation(s, va) = f}) \in Nat
    <3>1. {va \in V : Translation(s, va) = f} \subseteq VPage
      BY <1>8, Zenon
    <3>2. QED BY <3>1, Sizes, FS_Subset, FS_CardinalityType, Zenon
  <2>11. ASSUME NEW f, \A v \in VPage : Flattened[s][v] # f
         PROVE  Cardinality({va \in V : Translation(s, va) = f}) = 0
    <3>1. {va \in V : Translation(s, va) = f} = {}
      BY <1>8, <2>11, Flat1
    <3>2. QED BY <3>1, FS_EmptySet, Zenon
  \* The counts
  <2>12. ASSUME NEW f \in Frame, flag = "SHARE"
         PROVE  use_count'[f] = use_count[f] + Cardinality({va \in V : Translation(s, va) = f})
    <3>1. use_count'[f] = PAGE_INC_USES(f, V, s)
      BY <2>5, <2>6, <2>12, Zenon
    <3>2. QED BY <3>1, Zenon DEF PAGE_INC_USES
  <2>13. ASSUME NEW f \in Frame, flag # "SHARE"
         PROVE  use_count'[f] = IF f \in Range(p) THEN 1 ELSE use_count[f]
    BY <2>6, <2>13, Zenon
  <2>14. use_count'[Kernel] = 1
    <3>1. Kernel \notin Range(p)
      BY <2>3, <2>4, Zenon
    <3>2. Cardinality({va \in V : Translation(s, va) = Kernel}) = 0
      <4>1. \A v \in VPage : Flattened[s][v] # Kernel
        BY <2>3, FlatType
      <4>2. QED BY <2>11, <4>1, Zenon
    <3>3. QED BY <2>3, <2>6, <3>2 DEF PAGE_INC_USES
  <2>15. use_count' \in [Frame \cup {Kernel} -> Nat]
    <3>1. ASSUME NEW f \in Frame PROVE use_count'[f] \in Nat
      <4>1. use_count[f] \in Nat
        BY <2>3
      <4>2. CASE flag = "SHARE"
        <5>1. PICK k : k = Cardinality({va \in V : Translation(s, va) = f})
          OBVIOUS
        <5>2. k \in Nat /\ use_count'[f] = use_count[f] + k
          BY <2>10, <2>12, <4>2, <5>1, Zenon
        <5>3. QED BY <4>1, <5>2
      <4>3. CASE flag # "SHARE"
        BY <2>13, <4>1, <4>3
      <4>4. QED BY <4>2, <4>3, Zenon
    <3>2. use_count' = [f \in Frame \cup {Kernel} |-> use_count'[f]]
      BY <1>10, <2>3
    <3>3. QED BY <2>14, <3>1, <3>2
  <2>16. ASSUME NEW f \in Frame
         PROVE  use_count'[f] - held[f] =
                  use_count[f] - held[f] + Cardinality({v \in DOMAIN E : FrameOf(E[v]) = f})
    <3>1. use_count[f] \in Nat /\ held[f] \in Nat
      BY <2>3, Zenon
    <3>2. CASE flag = "SHARE"
      <4>1. {v \in DOMAIN E : FrameOf(E[v]) = f} = {va \in V : Translation(s, va) = f}
        BY <2>7, <3>2, Zenon
      <4>2. PICK k : k = Cardinality({va \in V : Translation(s, va) = f})
        OBVIOUS
      <4>3. k \in Nat /\ use_count'[f] = use_count[f] + k
        BY <2>10, <2>12, <3>2, <4>2, Zenon
      <4>4. Cardinality({v \in DOMAIN E : FrameOf(E[v]) = f}) = k
        BY <4>1, <4>2, Zenon
      <4>5. QED BY <3>1, <4>3, <4>4
    <3>3. CASE flag = "COW"
      <4>1. {v \in DOMAIN E : FrameOf(E[v]) = f} = {}
        BY <2>7, <3>3, Zenon
      <4>2. Cardinality({v \in DOMAIN E : FrameOf(E[v]) = f}) = 0
        BY <4>1, FS_EmptySet, Zenon
      <4>3. use_count'[f] = use_count[f]
        BY <2>5, <2>13, <3>3, Zenon
      <4>4. QED BY <3>1, <4>2, <4>3
    <3>4. CASE flag = "COPY"
      <4>1. DOMAIN p = V /\ \A i, j \in V : p[i] = p[j] => i = j
        BY <1>4, <2>2, <3>4, Zenon DEF Gives
      <4>2. \A v \in DOMAIN E : FrameOf(E[v]) = p[v]
        BY <2>7, <3>4, Zenon
      <4>3. CASE f \in Range(p)
        <5>1. PICK x \in V : p[x] = f
          BY <4>1, <4>3, Zenon DEF Range
        <5>2. {v \in DOMAIN E : FrameOf(E[v]) = f} = {x}
          BY <2>7, <3>4, <4>1, <5>1
        <5>3. Cardinality({v \in DOMAIN E : FrameOf(E[v]) = f}) = 1
          BY <5>2, FS_Singleton, Zenon
        <5>4. use_count'[f] = 1 /\ use_count[f] = 0
          BY <2>4, <2>13, <3>4, <4>3, Zenon
        <5>5. QED BY <3>1, <5>3, <5>4
      <4>4. CASE f \notin Range(p)
        <5>1. {v \in DOMAIN E : FrameOf(E[v]) = f} = {}
          BY <2>7, <3>4, <4>1, <4>4 DEF Range
        <5>2. Cardinality({v \in DOMAIN E : FrameOf(E[v]) = f}) = 0
          BY <5>1, FS_EmptySet, Zenon
        <5>3. use_count'[f] = use_count[f]
          BY <2>13, <3>4, <4>4, Zenon
        <5>4. QED BY <3>1, <5>2, <5>3
      <4>5. QED BY <4>3, <4>4, Zenon
    <3>5. QED BY <3>2, <3>3, <3>4, Zenon
  <2>17. ASSUME NEW f \in Frame, \A r \in Space, v \in VPage : Flattened[r][v] # f, use_count[f] = 1
         PROVE  use_count'[f] = 1
    <3>1. CASE flag = "SHARE"
      <4>1. Cardinality({va \in V : Translation(s, va) = f}) = 0
        BY <2>11, <2>17, Zenon
      <4>2. QED BY <2>12, <2>17, <3>1, <4>1
    <3>2. CASE flag # "SHARE"
      BY <2>13, <2>17, <3>2, Zenon
    <3>3. QED BY <3>1, <3>2, Zenon
  <2>18. Gains(t, E)
    <3>1. held' = held
      BY <1>10, Zenon
    <3>2. QED BY <2>1, <2>3, <2>14, <2>15, <2>16, <2>17, <3>1, Zenon DEF Gains
  <2>19. \A v \in DOMAIN E : Allowed(v, FrameOf(E[v]))
    <3>1. CASE flag = "SHARE"
      <4>1. \A v \in DOMAIN E : Flattened[s][v] = FrameOf(E[v])
        BY <1>8, <2>7, <3>1, Flat1
      <4>2. QED BY <4>1, Zenon DEF Allowed
    <3>2. CASE flag = "COPY"
      <4>1. \A f \in Range(p) : \A r \in Space, w \in VPage : Flattened[r][w] # f
        BY <2>4, FreeNow, Zenon
      <4>2. \A v \in DOMAIN E : FrameOf(E[v]) \in Range(p)
        BY <1>4, <2>2, <2>7, <3>2 DEF Gives, Range
      <4>3. QED BY <4>1, <4>2, Zenon DEF Allowed
    <3>3. CASE flag = "COW"
      BY <2>7, <3>3, Zenon
    <3>4. QED BY <3>1, <3>2, <3>3, Zenon
  <2>20. \A g \in Frame : held'[g] > 0 => held[g] > 0
    BY <1>10, Zenon
  <2>21. QED BY <1>5, <1>10, <2>8, <2>9, <2>18, <2>19, ExtendKeeps, Zenon
<1>11. QED BY <1>6, <1>7, <1>10, Zenon

-----------------------------------------------------------------------------
(* Refinement of the flat maps, step by step *)

\* The translations, as AddrSpace sees them
LEMMA FlatRows ==
  /\ Flattened = [s \in Space |-> Flattened[s]]
  /\ \A s \in Space : Flattened[s] = [v \in VPage |-> Flattened[s][v]]
  /\ Flattened' = [s \in Space |-> Flattened'[s]]
  /\ \A s \in Space : Flattened'[s] = [v \in VPage |-> Flattened'[s][v]]
BY DEF Flattened

LEMMA IdleRefines ==
  ASSUME Idle
  PROVE  UNCHANGED <<Spaces, Flattened, {f \in Frame : held[f] > 0}>>
BY Zenon DEF Idle, Spaces

LEMMA GrownRefines ==
  ASSUME NEW s \in Space, Grown(s)
  PROVE  Flat!Extend(s)
<1>1. Spaces' = Spaces /\ s \in Spaces
  BY Zenon DEF Grown, Spaces
<1>2. \A r \in Space \ {s} : Flattened'[r] = Flattened[r]
  <2>1. ASSUME NEW r \in Space \ {s} PROVE Flattened'[r] = Flattened[r]
    <3>1. \A v \in VPage : Flattened'[r][v] = Flattened[r][v]
      BY Zenon DEF Grown
    <3>2. QED BY <3>1, FlatRows
  <2>2. QED BY <2>1, Zenon
<1>3. ASSUME NEW v \in VPage
      PROVE  \/ Flattened'[s][v] = Flattened[s][v]
             \/ /\ Flattened[s][v] = None
                /\ \/ Flattened'[s][v] \in {f \in Frame : held[f] > 0}
                   \/ ~ \E r \in Space, w \in VPage : Flattened[r][w] = Flattened'[s][v]
                   \/ \E r \in Space : Flattened[r][v] = Flattened'[s][v]
  BY Zenon DEF Grown, Allowed
<1>4. {f \in Frame : held'[f] > 0} \subseteq {f \in Frame : held[f] > 0}
  BY Zenon DEF Grown
<1>5. QED BY <1>1, <1>2, <1>3, <1>4, Zenon
     DEF Flat!Extend, Flat!OthersKept, Flat!Justified, Flat!Seen, Flattened

LEMMA NewRefines ==
  ASSUME VInv, NEW s \in Space, vm_space_new(s)
  PROVE  Flat!Create(s) \/ Idle
<1>1. CASE Halt
  BY <1>1, HaltKeeps, Zenon
<1>2. ASSUME NEW f \in UNION Pool(Free, 1), pgd' = [pgd EXCEPT ![s] = f],
             dir' = [dir EXCEPT ![s] = ptable_pgd_new], UNCHANGED <<table, held>>
      PROVE  Flat!Create(s)
  <2>1. f # None
    BY OneFree, VmConstants
  <2>2. /\ dir \in [Space -> [Pde -> Frame \cup {Kernel, None}]]
        /\ pgd \in [Space -> Frame \cup {None}] /\ pgd[s] = None
    BY Zenon DEF VInv, TypeOK, vm_space_new
  <2>3. dir[s] = kernel_pgd
    BY <2>2 DEF VInv, NoTables
  <2>4. dir' = dir
    BY <1>2, <2>2, <2>3 DEF ptable_pgd_new
  <2>5. Flattened' = Flattened
    BY <1>2, <2>4 DEF Flattened, Translation, ptable_get_pte
  <2>6. Spaces' = Spaces \cup {s} /\ s \notin Spaces
    BY <1>2, <2>1, <2>2 DEF Spaces
  <2>7. {f2 \in Frame : held'[f2] > 0} = {f2 \in Frame : held[f2] > 0}
    BY <1>2
  <2>8. QED BY <2>5, <2>6, <2>7, Zenon DEF Flat!Create, Flattened
<1>3. QED BY <1>1, <1>2, Zenon DEF vm_space_new

LEMMA DestroyRefines ==
  ASSUME VInv, NEW s \in Space, vm_space_destroy(s)
  PROVE  Flat!Destroy(s)
<1>1. ptable_pgd_free(s) /\ s \in Spaces /\ held' = held
  BY Zenon DEF vm_space_destroy
<1>2. /\ \A v \in VPage : Flattened'[s][v] = None
      /\ \A r \in Space \ {s}, v \in VPage : Flattened'[r][v] = Flattened[r][v]
  BY <1>1, DestroyEffect
<1>3. Flattened'[s] = [v \in VPage |-> None]
  BY <1>2, FlatRows
<1>4. ASSUME NEW r \in Space \ {s} PROVE Flattened'[r] = Flattened[r]
  BY <1>2, FlatRows
<1>5. Flattened' = [Flattened EXCEPT ![s] = [v \in VPage |-> None]]
  BY <1>3, <1>4, FlatRows, Zenon
<1>6. Spaces' = Spaces \ {s}
  <2>1. pgd' = [pgd EXCEPT ![s] = None] /\ pgd \in [Space -> Frame \cup {None}]
    BY <1>1, Zenon DEF ptable_pgd_free, VInv, TypeOK
  <2>2. QED BY <2>1, Zenon DEF Spaces
<1>7. QED BY <1>1, <1>5, <1>6 DEF Flat!Destroy, Flat!Nothing, Flattened

LEMMA UnmapRefines ==
  ASSUME VInv, NEW s \in Space, NEW va \in Touched, NEW n \in 1 .. 2, NEW free \in BOOLEAN,
         ptable_unmap_many(s, va, n, free)
  PROVE  Flat!Remove(s)
<1>1. PICK V : V = {v \in va .. va + n - 1 : dir[s][PAGE_DIRECTORY_INDEX(v)] # None}
  BY Zenon
<1>2. /\ s \in Spaces /\ va .. va + n - 1 \subseteq Touched /\ ClearEntries(s, V) /\ pgd' = pgd
      /\ \/ held' = held
         \/ held' = [f \in Frame |-> held[f] + Cardinality({v \in V : Translation(s, v) = f})]
  BY <1>1, Zenon DEF ptable_unmap_many
<1>3. V \subseteq VPage /\ \A v \in V : dir[s][PAGE_DIRECTORY_INDEX(v)] # None
  BY <1>1, <1>2, VmConstants, Zenon
<1>4. /\ \A r \in Space \ {s}, v \in VPage : Flattened'[r][v] = Flattened[r][v]
      /\ \A v \in VPage : Flattened'[s][v] = IF v \in V THEN None ELSE Flattened[s][v]
  BY <1>2, <1>3, ClearEffect
<1>5. \A r \in Space \ {s} : Flattened'[r] = Flattened[r]
  <2>1. ASSUME NEW r \in Space \ {s} PROVE Flattened'[r] = Flattened[r]
    BY <1>4, FlatRows
  <2>2. QED BY <2>1, Zenon
<1>6. \A v \in VPage : Flattened'[s][v] \in {Flattened[s][v], None}
  BY <1>4, Zenon
<1>7. Spaces' = Spaces
  BY <1>2 DEF Spaces
<1>8. held \in [Frame -> Nat]
  BY Zenon DEF VInv, TypeOK
\* A caller gets a frame only from a page that showed it.
<1>9. ASSUME NEW f \in Frame
      PROVE  /\ held[f] > 0 => held'[f] > 0
             /\ held'[f] > 0 /\ ~(held[f] > 0) => \E v \in VPage : Flattened[s][v] = f
  <2>1. CASE held' = held
    BY <2>1, Zenon
  <2>2. CASE held' = [g \in Frame |-> held[g] + Cardinality({v \in V : Translation(s, v) = g})]
    <3>1. PICK A : A = {v \in V : Translation(s, v) = f}
      BY Zenon
    <3>2. held'[f] = held[f] + Cardinality(A) /\ held[f] \in Nat
      BY <1>8, <2>2, <3>1
    <3>3. IsFiniteSet(A)
      BY <1>3, <3>1, Sizes, FS_Subset, Zenon
    <3>4. Cardinality(A) \in Nat /\ (Cardinality(A) = 0 <=> A = {})
      BY <3>3, NoneCounted
    <3>5. held[f] > 0 => held'[f] > 0
      BY <3>2, <3>4
    <3>6. held'[f] > 0 /\ ~(held[f] > 0) => A # {}
      BY <3>2, <3>4
    <3>7. A # {} => \E v \in VPage : Flattened[s][v] = f
      BY <1>3, <3>1, Flat1, Zenon
    <3>8. QED BY <3>5, <3>6, <3>7, Zenon
  <2>3. QED BY <1>2, <2>2, Zenon
<1>10. /\ {f \in Frame : held[f] > 0} \subseteq {f \in Frame : held'[f] > 0}
       /\ \A f \in {g \in Frame : held'[g] > 0} \ {g \in Frame : held[g] > 0} :
            \E v \in VPage : Flattened[s][v] = f
  BY <1>9
<1>11. QED BY <1>2, <1>5, <1>6, <1>7, <1>10, Zenon DEF Flat!Remove, Flat!OthersKept,
              Flattened

LEMMA CallersRefine ==
  ASSUME VInv, NEW f \in Frame, (f \in UNION Pool(Free, 1) /\ page_alloc(f)) \/ page_free(f)
  PROVE  Flat!Take(f) \/ Flat!Release(f) \/ UNCHANGED <<Spaces, Flattened, {g \in Frame : held[g] > 0}>>
<1>1. UNCHANGED <<pgd, dir, table>>
  BY Zenon DEF page_alloc, page_free
<1>2. Spaces' = Spaces /\ Flattened' = Flattened
  BY <1>1 DEF Spaces, Flattened, Translation, ptable_get_pte
<1>3. held \in [Frame -> Nat]
  BY Zenon DEF VInv, TypeOK
<1>4. CASE f \in UNION Pool(Free, 1) /\ page_alloc(f)
  <2>1. use_count[f] = 0
    BY <1>4, OneFree, Zenon
  <2>2. ~ \E s \in Space, v \in VPage : Flattened[s][v] = f
    BY <2>1, FreeNow, Zenon
  <2>3. {g \in Frame : held'[g] > 0} = {g \in Frame : held[g] > 0} \cup {f}
    BY <1>3, <1>4 DEF page_alloc
  <2>4. Flat!Take(f)
    BY <1>2, <2>2, <2>3, Zenon DEF Flat!Take, Flat!Seen, Flattened
  <2>5. QED BY <2>4, Zenon
<1>5. CASE page_free(f)
  <2>1. held' = [held EXCEPT ![f] = held[f] - 1] /\ held[f] \in Nat /\ held[f] > 0
    BY <1>3, <1>5, Zenon DEF page_free
  <2>2. CASE held[f] = 1
    <3>1. {g \in Frame : held'[g] > 0} = {g \in Frame : held[g] > 0} \ {f}
      BY <1>3, <2>1, <2>2
    <3>2. Flat!Release(f)
      BY <1>2, <3>1, Zenon DEF Flat!Release, Flattened
    <3>3. QED BY <3>2, Zenon
  <2>3. CASE held[f] # 1
    <3>1. {g \in Frame : held'[g] > 0} = {g \in Frame : held[g] > 0}
      BY <2>1, <2>3
    <3>2. QED BY <1>2, <3>1, Zenon
  <2>4. QED BY <2>2, <2>3, Zenon
<1>6. QED BY <1>4, <1>5, Zenon

-----------------------------------------------------------------------------
(* The theorems *)

LEMMA InitHolds ==
  ASSUME Init
  PROVE  VInv /\ Flat!Init
<1>1. Pde \subseteq Nat /\ pde_max \in Nat
  BY Sizes, Zenon
<1>2. None \notin Frame /\ Kernel \notin Frame /\ None # Kernel
  BY VmConstants, Zenon
<1>3. \A s \in Space, i \in Pde : dir[s][i] = IF i < pde_max THEN None ELSE Kernel
  BY Zenon DEF kernel_pgd, Init
<1>4. ASSUME NEW s \in Space, NEW v \in VPage PROVE Translation(s, v) = None
  <2>1. dir[s][PAGE_DIRECTORY_INDEX(v)] = None
    BY <1>3, Indices, Zenon
  <2>2. QED BY <2>1, Zenon DEF Translation, ptable_get_pte
<1>5. Flattened = [s \in Space |-> [v \in VPage |-> None]]
  BY <1>4, Zenon DEF Flattened
<1>6. TypeOK
  <2>1. dir \in [Space -> [Pde -> Frame \cup {Kernel, None}]]
    BY DEF kernel_pgd, Init
  <2>2. \A s \in Space, i \in Pde : dir[s][i] = Kernel <=> i >= pde_max
    BY <1>1, <1>2, <1>3
  <2>3. table \in [Frame -> [Pte -> Entry]]
    BY Zenon DEF Cleared, Entry, Init
  <2>4. use_count \in [Frame \cup {Kernel} -> Nat] /\ held \in [Frame -> Nat]
    BY Zenon DEF Init
  <2>5. pgd \in [Space -> Frame \cup {None}] /\ maps \subseteq Map /\ halted \in BOOLEAN
        /\ mappings \in [Space -> SUBSET maps]
    BY Zenon DEF Init
  <2>6. QED BY <2>1, <2>2, <2>3, <2>4, <2>5, Zenon DEF TypeOK
<1>7. ASSUME NEW f \in Frame
      PROVE  Owners(pgd, f) = {} /\ Referring(Pde, dir, f) = {} /\ Referring(VPage, Flattened, f) = {}
  <2>1. Owners(pgd, f) = {}
    BY <1>2, Zenon DEF Owners, Init
  <2>2. Referring(Pde, dir, f) = {}
    BY <1>2, <1>3 DEF Referring
  <2>3. Referring(VPage, Flattened, f) = {}
    BY <1>2, <1>5 DEF Referring
  <2>4. QED BY <2>1, <2>2, <2>3
<1>8. Counted(use_count, held, pgd, dir, Flattened)
  <2>1. use_count[Kernel] = 1 /\ held \in [Frame -> Nat]
    BY DEF Init
  <2>2. ASSUME NEW f \in Frame
        PROVE  use_count[f] =
                 held[f] + Cardinality(Owners(pgd, f)) + Cardinality(Referring(Pde, dir, f))
                         + Cardinality(Referring(VPage, Flattened, f))
    <3>1. /\ Cardinality(Owners(pgd, f)) = 0 /\ Cardinality(Referring(Pde, dir, f)) = 0
          /\ Cardinality(Referring(VPage, Flattened, f)) = 0
      BY <1>7, FS_EmptySet, Zenon
    <3>2. use_count[f] = 0 /\ held[f] = 0
      BY <1>2, Zenon DEF Init
    <3>3. QED BY <3>1, <3>2
  <2>3. QED BY <2>1, <2>2, Zenon DEF Counted
<1>9. OneUse(use_count, pgd, dir)
  BY <1>2, <1>3 DEF OneUse, Init
<1>10. NoTables(pgd, dir)
  BY DEF NoTables, Init
<1>11. Flat!Init
  <2>1. Spaces = {} /\ {f \in Frame : held[f] > 0} = {}
    BY DEF Spaces, Init
  <2>2. QED BY <1>5, <2>1 DEF Flat!Init, Flat!Nothing, Flattened
<1>12. QED BY <1>6, <1>8, <1>9, <1>10, <1>11, Zenon DEF VInv

\* What holds of every step of the system
Refining ==
  [Flat!Next]_<<Spaces, Flattened, {f \in Frame : held[f] > 0}>>

LEMMA NextKeeps ==
  ASSUME VInv, User = {}, ~CopyNew, [Next]_vars
  PROVE  VInv' /\ Refining
<1>1. Idle => Refining
  BY IdleRefines, Zenon DEF Refining
<1>2. ASSUME NEW s \in Space, Grown(s) PROVE Refining
  BY <1>2, GrownRefines, Zenon DEF Refining, Flat!Next
<1>3. CASE UNCHANGED vars
  <2>1. TypeOK' /\ UNCHANGED <<use_count, pgd, dir, table, held>>
    BY <1>3, Zenon DEF vars, VInv, TypeOK
  <2>2. QED BY <1>1, <2>1, MemoryKept
<1>4. ASSUME NEW s \in Space, vm_space_new(s) PROVE VInv' /\ Refining
  <2>1. Flat!Create(s) => Refining
    BY Zenon DEF Refining, Flat!Next
  <2>2. QED BY <1>1, <1>4, <2>1, NewKeeps, NewRefines, Zenon
<1>5. ASSUME NEW s \in Space, vm_space_destroy(s) PROVE VInv' /\ Refining
  <2>1. Flat!Destroy(s) => Refining
    BY Zenon DEF Refining, Flat!Next
  <2>2. QED BY <1>5, <2>1, DestroyKeeps, DestroyRefines, Zenon
<1>6. ASSUME NEW s \in Space, NEW m \in Map,
             \/ vm_map_new(m) \/ vm_map_destroy(m)
             \/ vm_space_add_map(s, m) \/ vm_space_delete_map(s, m)
      PROVE  VInv' /\ Refining
  BY <1>1, <1>6, MappingsKeep
<1>7. ASSUME NEW m \in Map, vm_map_new(m) \/ vm_map_destroy(m), Space = {} PROVE VInv' /\ Refining
  <2>1. UNCHANGED <<use_count, pgd, dir, table, held, halted, mappings>>
    BY <1>7, Zenon DEF vm_map_new, vm_map_destroy
  <2>2. maps' \subseteq Map /\ mappings' \in [Space -> SUBSET maps']
    BY <1>7, <2>1 DEF vm_map_new, vm_map_destroy, VInv, TypeOK
  <2>3. TypeOK'
    BY <2>1, <2>2, Zenon DEF VInv, TypeOK
  <2>4. QED BY <1>1, <2>1, <2>3, MemoryKept, Zenon
<1>8. ASSUME NEW s \in Space, NEW va \in Touched, vm_space_page_fault(s, va)
      PROVE  VInv' /\ Refining
  BY <1>1, <1>2, <1>8, FaultKeeps, Zenon
<1>9. ASSUME NEW s \in Space, NEW va \in Touched, NEW n \in 1 .. MaxHeld, NEW w \in Flags,
             NEW fs \in Injection(1 .. n, {f \in Frame : held[f] > 0}), ptable_map_many(s, va, fs, w)
      PROVE  VInv' /\ Refining
  BY <1>1, <1>2, <1>9, MapManyKeeps, Zenon
<1>10. ASSUME NEW s \in Space, NEW va \in Touched, NEW n \in 1 .. 2, NEW free \in BOOLEAN,
              ptable_unmap_many(s, va, n, free)
       PROVE  VInv' /\ Refining
  <2>1. Flat!Remove(s) => Refining
    BY Zenon DEF Refining, Flat!Next
  <2>2. QED BY <1>10, <2>1, UnmapKeeps, UnmapRefines
<1>11. ASSUME NEW s \in Space, NEW d \in Space, NEW c \in Copies, NEW flag \in {"SHARE", "COPY", "COW"},
              ptable_copy_range(s, d, c[1], c[2], flag)
       PROVE  VInv' /\ Refining
  <2>1. c[1] \in VPage /\ c[2] \in VPage
    BY VmConstants, Zenon
  <2>2. QED BY <1>1, <1>2, <1>11, <2>1, CopyKeeps
<1>12. ASSUME NEW f \in UNION Pool(Free, 1), page_alloc(f) PROVE VInv' /\ Refining
  <2>1. f \in Frame
    BY OneFree
  <2>2. Flat!Take(f) \/ Flat!Release(f) \/ UNCHANGED <<Spaces, Flattened, {g \in Frame : held[g] > 0}>>
    BY <1>12, <2>1, CallersRefine, Zenon
  <2>3. Refining
    BY <2>1, <2>2, Zenon DEF Refining, Flat!Next
  <2>4. QED BY <1>12, <2>3, PageAllocKeeps
<1>13. ASSUME NEW f \in Frame, page_free(f) PROVE VInv' /\ Refining
  <2>1. Flat!Take(f) \/ Flat!Release(f) \/ UNCHANGED <<Spaces, Flattened, {g \in Frame : held[g] > 0}>>
    BY <1>13, CallersRefine, Zenon
  <2>2. Refining
    BY <2>1, Zenon DEF Refining, Flat!Next
  <2>3. QED BY <1>13, <2>2, PageFreeKeeps, Zenon
<1>14. QED
  <2>1. CASE Next
    BY <2>1, <1>4, <1>5, <1>6, <1>7, <1>8, <1>9, <1>10, <1>11, <1>12, <1>13, Zenon DEF Next
  <2>2. QED BY <1>3, <2>1, Zenon

LEMMA InvRefsCounted ==
  ASSUME VInv
  PROVE  RefsCounted
<1>1. ASSUME NEW f
      PROVE  Referring(VPage, Flattened, f) = {x \in Space \X VPage : Translation(x[1], x[2]) = f}
  BY Zenon DEF Referring, Flattened
<1>2. ASSUME NEW f
      PROVE  /\ Owners(pgd, f) = {s \in Space : pgd[s] = f}
             /\ Referring(Pde, dir, f) = {x \in Space \X Pde : dir[x[1]][x[2]] = f}
  BY Zenon DEF Owners, Referring
<1>3. QED BY <1>1, <1>2, Zenon DEF VInv, Counted, RefsCounted

LEMMA InvTablesPrivate ==
  ASSUME VInv
  PROVE  TablesPrivate
<1>1. SUFFICES ASSUME NEW s \in Spaces, NEW f \in Frame,
                      pgd[s] = f \/ \E i \in Pde : dir[s][i] = f
               PROVE  /\ use_count[f] = 1 /\ held[f] = 0
                      /\ Refs(s, f, pde_max) = 1
                      /\ \A r \in Spaces \ {s} : Refs(r, f, pde_max) = 0
  BY Zenon DEF TablesPrivate
<1>2. s \in Space /\ \A r \in Spaces \ {s} : r \in Space \ {s}
  BY Zenon DEF Spaces
<1>3. use_count[f] = 1 /\ Counted(use_count, held, pgd, dir, Flattened)
  BY <1>1, <1>2, Zenon DEF VInv, OneUse
<1>4. ASSUME NEW r \in Space, \A v \in VPage : Flattened[r][v] # f
      PROVE  Cardinality({va \in VPage : Translation(r, va) = f}) = 0
  <2>1. {va \in VPage : Translation(r, va) = f} = {}
    BY <1>4, Flat1, Zenon
  <2>2. QED BY <2>1, FS_EmptySet, Zenon
<1>5. ASSUME NEW r \in Space, \A j \in Pde : dir[r][j] # f
      PROVE  Cardinality({i \in Pde : i < pde_max /\ dir[r][i] = f}) = 0
  <2>1. {i \in Pde : i < pde_max /\ dir[r][i] = f} = {}
    BY <1>5
  <2>2. QED BY <2>1, FS_EmptySet, Zenon
<1>6. CASE pgd[s] = f
  <2>1. /\ held[f] = 0
        /\ \A r \in Space : pgd[r] = f => r = s
        /\ \A r \in Space, j \in Pde : dir[r][j] # f
        /\ \A r \in Space, v \in VPage : Flattened[r][v] # f
    BY <1>2, <1>3, <1>6, DirectorySole
  <2>2. ASSUME NEW r \in Space PROVE Refs(r, f, pde_max) = IF r = s THEN 1 ELSE 0
    BY <1>4, <1>5, <1>6, <2>1 DEF Refs
  <2>3. QED BY <1>2, <1>3, <2>1, <2>2
<1>7. ASSUME NEW i \in Pde, dir[s][i] = f
      PROVE  /\ held[f] = 0 /\ Refs(s, f, pde_max) = 1
             /\ \A r \in Spaces \ {s} : Refs(r, f, pde_max) = 0
  <2>1. /\ held[f] = 0
        /\ \A r \in Space : pgd[r] # f
        /\ \A r \in Space, j \in Pde : dir[r][j] = f => r = s /\ j = i
        /\ \A r \in Space, v \in VPage : Flattened[r][v] # f
    BY <1>2, <1>3, <1>7, TableSole
  <2>2. i < pde_max
    <3>1. f # Kernel /\ i \in Nat /\ pde_max \in Nat
      BY VmConstants, Sizes, Zenon
    <3>2. dir[s][i] = Kernel <=> i >= pde_max
      BY <1>2, Zenon DEF VInv, TypeOK
    <3>3. QED BY <1>7, <3>1, <3>2
  <2>3. Refs(s, f, pde_max) = 1
    <3>1. {j \in Pde : j < pde_max /\ dir[s][j] = f} = {i}
      BY <1>2, <1>7, <2>1, <2>2
    <3>2. Cardinality({j \in Pde : j < pde_max /\ dir[s][j] = f}) = 1
      BY <3>1, FS_Singleton, Zenon
    <3>3. QED BY <1>2, <1>4, <2>1, <3>2 DEF Refs
  <2>4. ASSUME NEW r \in Space \ {s} PROVE Refs(r, f, pde_max) = 0
    BY <1>4, <1>5, <2>1 DEF Refs
  <2>5. QED BY <1>2, <2>1, <2>3, <2>4, Zenon
<1>8. QED BY <1>1, <1>3, <1>6, <1>7

LEMMA InvReclaimed ==
  ASSUME VInv
  PROVE  Reclaimed
<1>1. SUFFICES ASSUME Spaces = {}, NEW f \in Frame PROVE use_count[f] = held[f]
  BY DEF Reclaimed
<1>2. \A s \in Space : pgd[s] = None /\ dir[s] = kernel_pgd
  BY <1>1 DEF Spaces, VInv, NoTables
<1>3. None # f /\ Kernel # f
  BY VmConstants
<1>4. Owners(pgd, f) = {}
  BY <1>2, <1>3, Zenon DEF Owners
<1>5. Referring(Pde, dir, f) = {}
  BY <1>2, <1>3, Zenon DEF Referring, kernel_pgd
<1>6. Referring(VPage, Flattened, f) = {}
  <2>1. ASSUME NEW s \in Space, NEW v \in VPage PROVE Flattened[s][v] = None
    <3>1. PICK i : i = PAGE_DIRECTORY_INDEX(v)
      OBVIOUS
    <3>2. i \in Pde /\ i < pde_max
      BY <3>1, Indices
    <3>3. dir[s][i] = None
      BY <1>2, <3>2, Zenon DEF kernel_pgd
    <3>4. QED BY <3>1, <3>3, Flat1, Zenon DEF Translation, ptable_get_pte
  <2>2. QED BY <1>3, <2>1, Zenon DEF Referring
<1>7. use_count[f] = held[f] + 0 + 0 + 0
  BY <1>4, <1>5, <1>6, FS_EmptySet, Zenon DEF VInv, Counted
<1>8. held[f] \in Nat
  BY Zenon DEF VInv, TypeOK
<1>9. QED BY <1>7, <1>8

\* VInv is inductive, as long as no user task writes to a page that is mapped read-only
\* (Vm_write shows what the fault handler does then: the frame is lost) and
\* ptable_copy_range() finds its tables (it does not clear the ones it allocates).
LEMMA AlwaysVInv ==
  ASSUME User = {}, ~CopyNew
  PROVE  Spec => []VInv
<1>1. Init => VInv
  BY InitHolds, Zenon
<1>2. VInv /\ [Next]_vars => VInv'
  BY NextKeeps
<1>3. QED BY <1>1, <1>2, PTL DEF Spec

\* Every variable keeps its type, and every directory the kernel's entries.
THEOREM VmTypeCorrect ==
  ASSUME User = {}, ~CopyNew
  PROVE  Spec => []TypeOK
<1>1. VInv => TypeOK
  BY Zenon DEF VInv
<1>2. QED BY <1>1, AlwaysVInv, PTL

\* use_count is the number of references, through faults, mapping, unmapping, copying and
\* the end of spaces: no frame is freed while it is in use, none is lost.
THEOREM RefsAlwaysCounted ==
  ASSUME User = {}, ~CopyNew
  PROVE  Spec => []RefsCounted
<1>1. VInv => RefsCounted
  BY InvRefsCounted, Zenon
<1>2. QED BY <1>1, AlwaysVInv, PTL

\* Directories and tables belong to one space and are seen by no task.
THEOREM TablesAlwaysPrivate ==
  ASSUME User = {}, ~CopyNew
  PROVE  Spec => []TablesPrivate
<1>1. VInv => TablesPrivate
  BY InvTablesPrivate, Zenon
<1>2. QED BY <1>1, AlwaysVInv, PTL

\* The end of the last space frees every frame that no caller holds.
THEOREM AlwaysReclaimed ==
  ASSUME User = {}, ~CopyNew
  PROVE  Spec => []Reclaimed
<1>1. VInv => Reclaimed
  BY InvReclaimed, Zenon
<1>2. QED BY <1>1, AlwaysVInv, PTL

\* Two-level page tables in frames that come and go implement one flat map per space:
\* no operation on one space changes what another one sees.
THEOREM VmRefinesAddrSpace ==
  ASSUME User = {}, ~CopyNew
  PROVE  Spec => RefinesAddrSpace
<1>1. Init => Flat!Init
  BY InitHolds
<1>2. VInv /\ [Next]_vars =>
        [Flat!Next]_<<Spaces, [s \in Space |-> [v \in VPage |-> Translation(s, v)]],
                      {f \in Frame : held[f] > 0}>>
  BY NextKeeps, Zenon DEF Refining, Flattened
<1>3. QED BY <1>1, <1>2, AlwaysVInv, PTL DEF Spec, RefinesAddrSpace, Flat!Spec
=============================================================================
