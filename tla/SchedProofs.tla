----------------------------- MODULE SchedProofs -----------------------------
(***************************************************************************)
(* The task list, the locks and the resources of Sched, for every number   *)
(* of task structs and every choice of operations.                         *)
(***************************************************************************)
EXTENDS Sched, FiniteSetTheorems, WellFoundedInduction, TLAPS

-----------------------------------------------------------------------------
(* Following pointers.  A walk goes from each node to the one its pointer *)
(* names; the nodes it meets before the node that ends it are the smallest *)
(* set that the pointers do not lead out of.  With that, what clist_add()  *)
(* and clist_delete_node() do to a list is a question about sets.          *)

\* w holds the first n nodes met from h on, g[x] being the pointer in x
IsWalk(w, g, h, n) == w = [k \in 1 .. n |-> IF k = 1 THEN h ELSE g[w[k - 1]]]

\* The same, place by place
Follows(w, g, h, n) == /\ n >= 1 => w[1] = h
                       /\ \A k \in 1 .. n - 1 : w[k + 1] = g[w[k]]

\* The nodes of the walk before the first z
Reached(w, n, z) == {w[k] : k \in {i \in 1 .. n : \A j \in 1 .. i : w[j] # z}}

\* From h and from within S the pointers lead to S, or to the end z
Encloses(S, g, h, z) == h \in S \cup {z} /\ \A x \in S : g[x] \in S \cup {z}

\* A set of numbers that is not empty has a least member.
LEMMA LeastMember ==
  ASSUME NEW S, S \subseteq Nat, S # {}
  PROVE  \E m \in S : \A k \in S : m <= k
<1>1. PICK x \in S : \A y \in S : ~ (<<y, x>> \in OpToRel(<, Nat))
  BY WFMin, NatLessThanWellFounded, Zenon
<1>2. \A y \in S : ~ (y < x)
  BY <1>1, Zenon DEF OpToRel
<1>3. \A y \in S : x <= y
  BY <1>2
<1>4. QED BY <1>3

\* There is a walk of every length.
LEMMA WalkExists ==
  ASSUME NEW g, NEW h, NEW n \in Nat
  PROVE  \E w : IsWalk(w, g, h, n)
<1> DEFINE Bad == {m \in Nat : ~ \E w : IsWalk(w, g, h, m)}
<1>1. SUFFICES ASSUME Bad # {} PROVE FALSE
  OBVIOUS
<1>2. PICK m \in Bad : \A k \in Bad : m <= k
  <2>1. Bad \subseteq Nat
    OBVIOUS
  <2>2. QED BY <2>1, <1>1, LeastMember, Zenon
<1>3. m \in Nat /\ ~ \E w : IsWalk(w, g, h, m)
  BY <1>2
<1>4. CASE m = 0
  <2>1. IsWalk([k \in 1 .. 0 |-> h], g, h, 0)
    BY DEF IsWalk
  <2>2. QED BY <2>1, <1>3, <1>4
<1>5. CASE m # 0
  <2>1. m - 1 \in Nat /\ m - 1 \notin Bad
    BY <1>2, <1>3, <1>5
  <2>2. PICK w : IsWalk(w, g, h, m - 1)
    BY <2>1
  <2>3. \A k \in 1 .. m - 1 : w[k] = IF k = 1 THEN h ELSE g[w[k - 1]]
    BY <2>2, <1>3 DEF IsWalk
  <2> DEFINE e == [k \in 1 .. m |-> IF k = 1 THEN h ELSE g[w[k - 1]]]
  <2>4. \A k \in 1 .. m : k # 1 => k - 1 \in 1 .. m - 1 /\ k - 1 \in 1 .. m
    BY <1>3
  <2>5. \A k \in 1 .. m : k # 1 => e[k - 1] = w[k - 1]
    BY <2>3, <2>4
  <2>6. e = [k \in 1 .. m |-> IF k = 1 THEN h ELSE g[e[k - 1]]]
    BY <2>5, Zenon
  <2>7. IsWalk(e, g, h, m)
    BY <2>6, Zenon DEF IsWalk
  <2>8. QED BY <2>7, <1>3
<1>6. QED BY <1>4, <1>5

\* A walk, place by place.
LEMMA WalkSteps ==
  ASSUME NEW g, NEW h, NEW n \in Nat, NEW w, IsWalk(w, g, h, n)
  PROVE  Follows(w, g, h, n)
<1>1. \A k \in 1 .. n : w[k] = IF k = 1 THEN h ELSE g[w[k - 1]]
  BY DEF IsWalk
<1>2. \A k \in 1 .. n - 1 : k + 1 \in 1 .. n /\ k + 1 # 1 /\ (k + 1) - 1 = k
  OBVIOUS
<1>3. QED BY <1>1, <1>2 DEF Follows

\* The nodes reached lie in every set the pointers do not lead out of.
LEMMA ReachedLeast ==
  ASSUME NEW g, NEW h, NEW z, NEW n \in Nat, NEW w, IsWalk(w, g, h, n),
         NEW S, Encloses(S, g, h, z)
  PROVE  Reached(w, n, z) \subseteq S
<1>0. Follows(w, g, h, n)
  BY WalkSteps
<1> DEFINE Bad == {k \in 1 .. n : (\A j \in 1 .. k : w[j] # z) /\ w[k] \notin S}
<1>1. SUFFICES ASSUME Bad # {} PROVE FALSE
  BY DEF Reached
<1>2. PICK m \in Bad : \A k \in Bad : m <= k
  <2>1. Bad \subseteq Nat
    OBVIOUS
  <2>2. QED BY <2>1, <1>1, LeastMember, Zenon
<1>3. /\ m \in 1 .. n /\ w[m] \notin S
      /\ \A j \in 1 .. m : w[j] # z
  BY <1>2
<1>4. w[m] # z
  BY <1>3
<1>5. CASE m = 1
  <2>1. w[1] = h
    BY <1>0, <1>3 DEF Follows
  <2>2. QED BY <2>1, <1>3, <1>4, <1>5 DEF Encloses
<1>6. CASE m # 1
  <2>1. m - 1 \in 1 .. n - 1 /\ m - 1 \in 1 .. n /\ (m - 1) + 1 = m
    BY <1>3, <1>6
  <2>2. \A j \in 1 .. m - 1 : w[j] # z
    BY <1>3
  <2>3. w[m - 1] \in S
    BY <2>1, <2>2, <1>2
  <2>4. w[m] = g[w[m - 1]]
    BY <2>1, <1>0 DEF Follows
  <2>5. QED BY <2>3, <2>4, <1>3, <1>4 DEF Encloses
<1>7. QED BY <1>5, <1>6

\* Where a walk meets a node again it goes on as before.
LEMMA WalkRepeats ==
  ASSUME NEW g, NEW h, NEW n \in Nat, NEW w, IsWalk(w, g, h, n),
         NEW i \in 1 .. n, NEW j \in 1 .. n, i < j, w[i] = w[j]
  PROVE  \A d \in 0 .. n - j : w[i + d] = w[j + d]
<1>0. Follows(w, g, h, n)
  BY WalkSteps
<1> DEFINE Bad == {e \in 0 .. n - j : w[i + e] # w[j + e]}
<1>1. SUFFICES ASSUME Bad # {} PROVE FALSE
  OBVIOUS
<1>2. PICK m \in Bad : \A k \in Bad : m <= k
  <2>1. Bad \subseteq Nat
    OBVIOUS
  <2>2. QED BY <2>1, <1>1, LeastMember, Zenon
<1>3. m \in 0 .. n - j /\ w[i + m] # w[j + m]
  BY <1>2
<1>4. m # 0
  BY <1>3
<1>5. m - 1 \in 0 .. n - j /\ w[i + (m - 1)] = w[j + (m - 1)]
  BY <1>2, <1>3, <1>4
<1>6. /\ i + (m - 1) \in 1 .. n - 1 /\ (i + (m - 1)) + 1 = i + m
      /\ j + (m - 1) \in 1 .. n - 1 /\ (j + (m - 1)) + 1 = j + m
  BY <1>3, <1>4
<1>7. w[i + m] = g[w[i + (m - 1)]] /\ w[j + m] = g[w[j + (m - 1)]]
  BY <1>6, <1>0 DEF Follows
<1>8. QED BY <1>3, <1>5, <1>7

\* The pointers do not lead out of the nodes reached, if the walk is as long as
\* the set of nodes it can meet is large.
LEMMA ReachedEncloses ==
  ASSUME NEW g, NEW h, NEW z, NEW n \in Nat, NEW w, IsWalk(w, g, h, n),
         NEW T, IsFiniteSet(T), Cardinality(T) < n, Encloses(T, g, h, z)
  PROVE  Encloses(Reached(w, n, z), g, h, z)
<1>0. Follows(w, g, h, n)
  BY WalkSteps
<1> DEFINE R == Reached(w, n, z)
<1>1. Cardinality(T) \in Nat /\ 1 \in 1 .. n
  BY FS_CardinalityType
<1>2. h \in R \cup {z}
  <2>1. w[1] = h /\ \A j \in 1 .. 1 : j = 1
    BY <1>0, <1>1 DEF Follows
  <2>2. w[1] # z => w[1] \in R
    BY <1>1, <2>1 DEF Reached
  <2>3. QED BY <2>1, <2>2
<1>3. ASSUME NEW x \in R
      PROVE  g[x] \in R \cup {z}
  <2>1. PICK k \in 1 .. n : x = w[k] /\ \A j \in 1 .. k : w[j] # z
    BY DEF Reached
  <2>2. ASSUME NEW i \in 1 .. n - 1, x = w[i], \A j \in 1 .. i : w[j] # z
        PROVE  g[x] \in R \cup {z}
    <3>1. w[i + 1] = g[x] /\ i + 1 \in 1 .. n
      BY <2>2, <1>0 DEF Follows
    <3>2. w[i + 1] # z => \A j \in 1 .. i + 1 : w[j] # z
      BY <2>2
    <3>3. QED BY <3>1, <3>2 DEF Reached
  <2>3. CASE k < n
    BY <2>1, <2>2, <2>3
  <2>4. CASE k = n
    <3>1. \A j \in 1 .. n : w[j] \in T
      <4>1. \A j \in 1 .. n : w[j] \in R
        <5>1. \A j \in 1 .. n : \A i \in 1 .. j : w[i] # z
          BY <2>1, <2>4
        <5>2. QED BY <5>1 DEF Reached
      <4>2. QED BY <4>1, ReachedLeast
    <3>3. IsFiniteSet(1 .. n) /\ Cardinality(1 .. n) = n
      BY FS_Interval, <1>1
    <3>4. \E i, j \in 1 .. n : i # j /\ w[i] = w[j]
      <4> DEFINE f == [j \in 1 .. n |-> w[j]]
      <4>1. \A i \in 1 .. n : f[i] = w[i]
        OBVIOUS
      <4>2. f \in [1 .. n -> T]
        BY <3>1
      <4> HIDE DEF f
      <4>3. \E i, j \in 1 .. n : i # j /\ f[i] = f[j]
        BY <4>2, <3>3, FS_PigeonHole
      <4>4. QED BY <4>1, <4>3
    <3>5. PICK i \in 1 .. n, j \in 1 .. n : i < j /\ w[i] = w[j]
      BY <3>4
    <3>6. n - j \in 0 .. n - j /\ j + (n - j) = n /\ i + (n - j) \in 1 .. n - 1
      BY <3>5
    <3>7. w[i + (n - j)] = w[n]
      <4>1. \A d \in 0 .. n - j : w[i + d] = w[j + d]
        BY <3>5, WalkRepeats
      <4>2. QED BY <4>1, <3>6
    <3>8. \A e \in 1 .. i + (n - j) : w[e] # z
      BY <2>1, <2>4, <3>6
    <3>9. QED BY <3>6, <3>7, <3>8, <2>1, <2>2, <2>4
  <2>5. QED BY <2>1, <2>3, <2>4
<1>4. QED BY <1>2, <1>3 DEF Encloses

-----------------------------------------------------------------------------
(* Circular lists: z is the head and the other nodes are among X *)

\* The nodes on the circle: the smallest set that the next pointers nx do not lead
\* out of from the head, except back to the head
Circle(X, z, nx) ==
  {n \in X : \A S \in SUBSET X : Encloses(S, nx, nx[z], z) => n \in S}

\* The nodes L and the head are a circle, linked both ways
Ring(X, z, L, nx, px) ==
  /\ L = Circle(X, z, nx)
  /\ nx \in [X \cup {z} -> X \cup {z}] /\ px \in [X \cup {z} -> X \cup {z}]
  /\ \A n \in L \cup {z} : nx[n] \in L \cup {z} /\ px[nx[n]] = n

\* On a circle linked both ways every node has its predecessor, which is another
\* one; so has its successor.
LEMMA Neighbours ==
  ASSUME NEW X, NEW z, z \notin X, NEW L, NEW nx, NEW px, Ring(X, z, L, nx, px),
         NEW t \in L
  PROVE  /\ t \in X /\ t # z
         /\ px[t] \in (L \cup {z}) \ {t} /\ nx[px[t]] = t
         /\ nx[t] \in (L \cup {z}) \ {t}
<1>1. /\ L \subseteq X /\ t \in X /\ z \notin X
      /\ nx \in [X \cup {z} -> X \cup {z}]
      /\ \A n \in L \cup {z} : nx[n] \in L \cup {z} /\ px[nx[n]] = n
  BY DEF Ring, Circle
<1>2. ~ Encloses(L \ {t}, nx, nx[z], z)
  <2>1. L = Circle(X, z, nx) /\ L \ {t} \in SUBSET X
    BY <1>1 DEF Ring
  <2>2. QED BY <2>1 DEF Circle
<1>3. PICK m \in (L \ {t}) \cup {z} : nx[m] = t
  BY <1>1, <1>2 DEF Encloses
<1>4. px[t] = m /\ m # t
  BY <1>1, <1>3
<1>5. nx[t] # t
  BY <1>1, <1>4
<1>6. QED BY <1>1, <1>3, <1>4, <1>5

\* Pointers of nodes that are not on the list do not matter.
LEMMA RingSame ==
  ASSUME NEW X, NEW z, z \notin X, NEW L, NEW nx, NEW px, Ring(X, z, L, nx, px),
         NEW nx1 \in [X \cup {z} -> X \cup {z}], NEW px1 \in [X \cup {z} -> X \cup {z}],
         \A n \in L \cup {z} : nx1[n] = nx[n] /\ px1[n] = px[n]
  PROVE  Ring(X, z, L, nx1, px1)
<1>1. /\ L \in SUBSET X /\ L = Circle(X, z, nx)
      /\ \A n \in L \cup {z} : nx[n] \in L \cup {z} /\ px[nx[n]] = n
  BY DEF Ring, Circle
<1>2. Encloses(L, nx1, nx1[z], z)
  BY <1>1 DEF Encloses
<1>3. ASSUME NEW S \in SUBSET X, Encloses(S, nx1, nx1[z], z)
      PROVE  L \subseteq S
  <2>1. Encloses(L \cap S, nx, nx[z], z)
    BY <1>1, <1>3 DEF Encloses
  <2>2. L \cap S \in SUBSET X
    OBVIOUS
  <2>3. L \subseteq L \cap S
    BY <1>1, <2>1, <2>2 DEF Circle
  <2>4. QED BY <2>3
<1>4. L = Circle(X, z, nx1)
  BY <1>1, <1>2, <1>3 DEF Circle
<1>5. QED BY <1>1, <1>4 DEF Ring

\* clist_add(): the node joins the list.
LEMMA RingAdd ==
  ASSUME NEW X, NEW z, z \notin X, NEW L, NEW nx, NEW px, Ring(X, z, L, nx, px),
         NEW n \in X \ L,
         NEW nx1, nx1 = [nx EXCEPT ![n] = nx[z], ![z] = n],
         NEW px1, px1 = [px EXCEPT ![nx[z]] = n, ![n] = z]
  PROVE  Ring(X, z, L \cup {n}, nx1, px1)
<1>1. /\ L \in SUBSET X /\ L = Circle(X, z, nx) /\ z \notin X
      /\ nx \in [X \cup {z} -> X \cup {z}] /\ px \in [X \cup {z} -> X \cup {z}]
      /\ n \in X \cup {z} /\ z \in X \cup {z} /\ n # z
      /\ \A m \in L \cup {z} : nx[m] \in L \cup {z} /\ px[nx[m]] = m
  BY DEF Ring, Circle
<1>2. /\ nx1 \in [X \cup {z} -> X \cup {z}] /\ px1 \in [X \cup {z} -> X \cup {z}]
      /\ nx1[z] = n /\ nx1[n] = nx[z]
      /\ \A m \in (X \cup {z}) \ {n, z} : nx1[m] = nx[m]
  BY <1>1
<1>3. /\ px1[n] = z /\ px1[nx[z]] = n
      /\ \A m \in (X \cup {z}) \ {n, nx[z]} : px1[m] = px[m]
  BY <1>1
<1>4. Encloses(L \cup {n}, nx1, nx1[z], z)
  BY <1>1, <1>2 DEF Encloses
<1>5. ASSUME NEW S \in SUBSET X, Encloses(S, nx1, nx1[z], z)
      PROVE  L \cup {n} \subseteq S
  <2>1. Encloses(L \cap S, nx, nx[z], z)
    BY <1>1, <1>2, <1>5 DEF Encloses
  <2>2. L \cap S \in SUBSET X
    OBVIOUS
  <2>3. L \subseteq L \cap S
    BY <1>1, <2>1, <2>2 DEF Circle
  <2>4. n \in S
    BY <1>1, <1>2, <1>5 DEF Encloses
  <2>5. QED BY <2>3, <2>4
<1>6. L \cup {n} = Circle(X, z, nx1)
  <2>1. L \cup {n} \in SUBSET X
    BY <1>1
  <2>2. QED BY <2>1, <1>4, <1>5, Zenon DEF Circle
<1>7. ASSUME NEW m \in L \cup {n, z}
      PROVE  nx1[m] \in L \cup {n, z} /\ px1[nx1[m]] = m
  BY <1>1, <1>2, <1>3
<1>8. QED BY <1>2, <1>6, <1>7, Zenon DEF Ring

\* clist_delete_node(): the node leaves the list.
LEMMA RingDelete ==
  ASSUME NEW X, NEW z, z \notin X, NEW L, NEW nx, NEW px, Ring(X, z, L, nx, px),
         NEW t \in L,
         NEW nx1, nx1 = [nx EXCEPT ![px[t]] = nx[t]],
         NEW px1, px1 = [px EXCEPT ![nx[t]] = px[t]]
  PROVE  Ring(X, z, L \ {t}, nx1, px1)
<1>1. /\ L \in SUBSET X /\ L = Circle(X, z, nx) /\ z \notin X
      /\ nx \in [X \cup {z} -> X \cup {z}] /\ px \in [X \cup {z} -> X \cup {z}]
      /\ L \cup {z} \subseteq X \cup {z}
      /\ \A m \in L \cup {z} : nx[m] \in L \cup {z} /\ px[nx[m]] = m
  BY DEF Ring, Circle
<1>2. /\ t \in X /\ t # z
      /\ px[t] \in (L \cup {z}) \ {t} /\ nx[px[t]] = t
      /\ nx[t] \in (L \cup {z}) \ {t}
  BY Neighbours
<1>3. /\ nx1 \in [X \cup {z} -> X \cup {z}] /\ px1 \in [X \cup {z} -> X \cup {z}]
      /\ nx1[px[t]] = nx[t] /\ \A m \in (X \cup {z}) \ {px[t]} : nx1[m] = nx[m]
      /\ px1[nx[t]] = px[t] /\ \A m \in (X \cup {z}) \ {nx[t]} : px1[m] = px[m]
  BY <1>1, <1>2
<1>4. \A m \in L \cup {z} : nx[m] = t => m = px[t]
  BY <1>1
<1>5. Encloses(L \ {t}, nx1, nx1[z], z)
  BY <1>1, <1>2, <1>3, <1>4 DEF Encloses
<1>6. ASSUME NEW S \in SUBSET X, Encloses(S, nx1, nx1[z], z)
      PROVE  L \ {t} \subseteq S
  <2>1. CASE px[t] \in S \cup {z}
    <3>1. Encloses((L \cap S) \cup {t}, nx, nx[z], z)
      BY <1>1, <1>2, <1>3, <1>6, <2>1 DEF Encloses
    <3>2. (L \cap S) \cup {t} \in SUBSET X
      BY <1>2
    <3>3. L \subseteq (L \cap S) \cup {t}
      BY <1>1, <3>1, <3>2 DEF Circle
    <3>4. QED BY <3>3
  <2>2. CASE px[t] \notin S \cup {z}
    <3>1. Encloses(L \cap S, nx, nx[z], z)
      BY <1>1, <1>2, <1>3, <1>6, <2>2 DEF Encloses
    <3>2. L \cap S \in SUBSET X
      OBVIOUS
    <3>3. L \subseteq L \cap S
      BY <1>1, <3>1, <3>2 DEF Circle
    <3>4. QED BY <3>3
  <2>3. QED BY <2>1, <2>2
<1>7. L \ {t} = Circle(X, z, nx1)
  <2>1. L \ {t} \in SUBSET X
    BY <1>1
  <2>2. QED BY <2>1, <1>5, <1>6, Zenon DEF Circle
<1>8. ASSUME NEW m \in (L \ {t}) \cup {z}
      PROVE  nx1[m] \in (L \ {t}) \cup {z} /\ px1[nx1[m]] = m
  BY <1>1, <1>2, <1>3, <1>4
<1>9. QED BY <1>3, <1>7, <1>8, Zenon DEF Ring

\* Walking from the head until it comes again meets the nodes of the circle.
LEMMA CircleWalked ==
  ASSUME NEW X, NEW z, IsFiniteSet(X),
         NEW nx \in [X \cup {z} -> X \cup {z}],
         NEW n \in Nat, Cardinality(X) < n, NEW w, IsWalk(w, nx, nx[z], n)
  PROVE  Reached(w, n, z) = Circle(X, z, nx)
<1> DEFINE R == Reached(w, n, z)
<1>1. Encloses(X, nx, nx[z], z)
  BY DEF Encloses
<1>2. \A S \in SUBSET X : Encloses(S, nx, nx[z], z) => R \subseteq S
  BY ReachedLeast
<1>3. Encloses(R, nx, nx[z], z)
  BY <1>1, ReachedEncloses
<1>4. R \subseteq X
  BY <1>1, <1>2
<1>5. R = Circle(X, z, nx)
  <2> HIDE DEF R
  <2>1. QED BY <1>2, <1>3, <1>4, Zenon DEF Circle
<1>6. QED BY <1>5

-----------------------------------------------------------------------------
(* The task list as a circle *)

\* The nodes L are the list of the pointers nx and px
Linked(L, nx, px) == Ring(Slot, Head, L, nx, px)

\* Listed, as a function of the pointers
Walk(nx) ==
  CHOOSE w : w = [k \in 1 .. Cardinality(Node) |->
                    IF k = 1 THEN nx[Head] ELSE nx[w[k - 1]]]

ListedBy(nx) ==
  {n \in Slot : \E k \in DOMAIN Walk(nx) :
                  Walk(nx)[k] = n /\ \A j \in 1 .. k : Walk(nx)[j] # Head}

\* Slots and the head make a finite set of nodes.
LEMMA NodesFinite ==
  /\ IsFiniteSet(Slot) /\ IsFiniteSet(Node)
  /\ Cardinality(Node) \in Nat
  /\ Cardinality(Slot) < Cardinality(Node)
<1>1. IsFiniteSet(Slot) /\ Head \notin Slot
  BY SchedConstants
<1>2. /\ IsFiniteSet(Node)
      /\ Cardinality(Node) = Cardinality(Slot) + 1
  BY <1>1, FS_AddElement DEF Node
<1>3. Cardinality(Slot) \in Nat
  BY <1>1, FS_CardinalityType
<1>4. QED BY <1>1, <1>2, <1>3

\* Walk() is a walk along the pointers.
LEMMA WalkIsWalk ==
  ASSUME NEW nx
  PROVE  IsWalk(Walk(nx), nx, nx[Head], Cardinality(Node))
<1>1. \E w : IsWalk(w, nx, nx[Head], Cardinality(Node))
  BY NodesFinite, WalkExists
<1>2. \E w : w = [k \in 1 .. Cardinality(Node) |->
                    IF k = 1 THEN nx[Head] ELSE nx[w[k - 1]]]
  BY <1>1, Zenon DEF IsWalk
<1>3. QED BY <1>2, Zenon DEF Walk, IsWalk

\* What the loops over the task list meet is the circle.
LEMMA ListedIsCircle ==
  ASSUME NEW nx \in [Node -> Node]
  PROVE  ListedBy(nx) = Circle(Slot, Head, nx)
<1> DEFINE N == Cardinality(Node)
           w == Walk(nx)
           R == Reached(w, N, Head)
<1>1. IsWalk(w, nx, nx[Head], N) /\ N \in Nat
  BY WalkIsWalk, NodesFinite
<1>2. DOMAIN w = 1 .. N
  BY <1>1 DEF IsWalk
<1>3. R = Circle(Slot, Head, nx)
  <2>1. IsFiniteSet(Slot) /\ Cardinality(Slot) < N
    BY NodesFinite
  <2> HIDE DEF N, w
  <2>2. QED BY <1>1, <2>1, CircleWalked, Zenon DEF Node
<1>4. R \subseteq Slot
  BY <1>3 DEF Circle
<1>5. ListedBy(nx) = {n \in Slot : \E k \in 1 .. N :
                        w[k] = n /\ \A j \in 1 .. k : w[j] # Head}
  BY <1>2 DEF ListedBy
<1> HIDE DEF N, w
<1>6. ListedBy(nx) = R
  BY <1>4, <1>5 DEF Reached
<1>7. QED BY <1>3, <1>6

\* Listed is determined by the next pointers, and consists of slots.
LEMMA ListedByNext ==
  /\ Listed = ListedBy(next) /\ Listed \subseteq Slot
  /\ Listed' = ListedBy(next')
BY DEF Listed, ListedBy, Walk

-----------------------------------------------------------------------------
(* The inductive invariant *)

Critical == {"struct", "stack", "space", "publish", "cleanup", "search", "mark",
             "leave", "unlock"}

Labels == Critical \cup {"idle", "create", "find", "check", "kill", "exit", "print",
                         "page", "pages"}

\* The context has begun to create a task
Creating(x) ==
  pc[x] \in {"stack", "space", "publish"} \/ (pc[x] = "cleanup" /\ ptr[x] # None)

\* The list, its head included
OnList == Listed \cup {Head}

\* The list is a circle, linked both ways.
ListInv == Linked(Listed, next, prev)

\* What is on the list is allocated and complete, and has an ID of its own.
TasksInv ==
  /\ Listed \subseteq heap
  /\ \A n \in Listed \ {Idle} : kstack[n] /\ vm_space[n]
  /\ \A n \in Listed : id[n] < last_task_id
  /\ \A m, n \in Listed : m # n => id[m] # id[n]
  /\ Idle \in Listed /\ id[Idle] = 0

\* A task being created is allocated, not on the list, and owns what task_create()
\* has got for it so far.
CreateInv ==
  \A x \in Ctx :
    /\ pc[x] \in {"idle", "create", "struct"} => ptr[x] = None
    /\ pc[x] \in {"check", "kill", "mark"} => ptr[x] \in Slot
    /\ Creating(x) =>
         /\ ptr[x] \in heap \ Listed
         /\ id[ptr[x]] < last_task_id
         /\ \A m \in Listed : id[m] # id[ptr[x]]
         /\ state[ptr[x]] # "RUNNING"
    /\ pc[x] = "stack" => ~kstack[ptr[x]] /\ ~vm_space[ptr[x]]
    /\ pc[x] = "space" => kstack[ptr[x]] /\ ~vm_space[ptr[x]]
    /\ pc[x] = "publish" => kstack[ptr[x]] /\ vm_space[ptr[x]]

\* The keyboard handler is idle unless it runs.
IrqInv == isr # "kbd" => pc[Irq] = "idle"

\* The current task is RUNNING, or was killed since it got the CPU, and no other is
\* RUNNING.
CurrentInv ==
  /\ state[Head] = "INVALID"
  /\ state[current] \in {"RUNNING", "KILLED"}
  /\ \A n \in Listed \ {current} : state[n] # "RUNNING"
  /\ isr \in {"off", "kbd"} => current \in Listed

\* The purge walks along the list.
PurgeInv == isr = "purge" => entry \in OnList /\ tmp = next[entry]

\* From the current task the pointers lead to the list through the tasks K, which
\* are killed: those that the purge has just freed.
Leads(K) ==
  /\ current \in K \cup OnList
  /\ isr = "pick" => entry \in K \cup OnList
  /\ \A n \in K : state[n] = "KILLED" /\ next[n] \in K \cup OnList

TrailInv == \E K \in SUBSET Slot : Leads(K)

IInv ==
  /\ TypeOK /\ CriticalSection /\ ResourcesOwned
  /\ ListInv /\ TasksInv /\ CreateInv /\ IrqInv
  /\ CurrentInv /\ PurgeInv /\ TrailInv

\* Only what the executing context has in its own variables, and the locks, change.
Local == UNCHANGED <<fields, links, memory, last_task_id, current, handler>>

\* Listed stays as long as the next pointers do.
LEMMA ListedSame ==
  ASSUME UNCHANGED next
  PROVE  Listed' = Listed /\ OnList' = OnList
BY ListedByNext DEF OnList

\* The executing context is a task on the list or the keyboard handler.
LEMMA WhoRuns ==
  ASSUME IInv, NEW x \in Ctx, Running(x)
  PROVE  /\ isr \in {"off", "kbd"}
         /\ x = Irq <=> isr = "kbd"
         /\ x # Irq => x = current
         /\ current \in Listed /\ current \in heap
         /\ isr # "kbd" => Irq # x
BY SchedConstants DEF IInv, TypeOK, Running, CurrentInv, TasksInv, Ctx, Node

\* A step that changes nothing but the executing context's own variables and the
\* locks, and keeps the lock and the label in agreement, keeps the invariant.
LEMMA LocalStep ==
  ASSUME IInv, NEW x \in Ctx, Running(x), Local,
         NEW l \in Labels, NEW q \in Slot \cup {None},
         pc' = [pc EXCEPT ![x] = l],
         ptr' = [ptr EXCEPT ![x] = q],
         arg' \in [Ctx -> 0 .. MaxId - 1],
         page_lock' \in Ctx \cup {None},
         task_lock' = task_lock \/ {task_lock, task_lock'} \subseteq {None, x},
         l \in Critical <=> task_lock' = x,
         l \in {"idle", "create", "struct"} => q = None,
         l \in {"check", "kill", "mark"} => q \in Slot,
         l \notin {"stack", "space", "publish"},
         l = "cleanup" => q = None
  PROVE  IInv'
<1>1. /\ UNCHANGED <<state, id, kstack, vm_space>>
      /\ UNCHANGED <<next, prev, heap, stacks, spaces>>
      /\ UNCHANGED <<last_task_id, current, isr, entry, tmp>>
  BY DEF Local, fields, links, memory, handler
<1>2. Listed' = Listed /\ OnList' = OnList
  BY <1>1, ListedSame
<1>3. /\ pc \in [Ctx -> Labels] /\ ptr \in [Ctx -> Slot \cup {None}]
      /\ task_lock \in Ctx \cup {None} /\ None \notin Ctx /\ Irq \notin Slot
  BY SchedConstants DEF IInv, TypeOK, Labels, Critical, Ctx, Node
<1>4. /\ pc'[x] = l /\ ptr'[x] = q
      /\ \A y \in Ctx \ {x} : pc'[y] = pc[y] /\ ptr'[y] = ptr[y]
  BY <1>3
<1>5. pc' \in [Ctx -> Labels] /\ ptr' \in [Ctx -> Slot \cup {None}]
  BY <1>3
<1>6. task_lock' \in Ctx \cup {None}
  BY <1>3
<1>7. TypeOK'
  BY <1>1, <1>5, <1>6 DEF IInv, TypeOK, Labels, Critical
<1>8. CriticalSection'
  BY <1>3, <1>4 DEF IInv, CriticalSection, Critical
<1>9. ResourcesOwned' /\ ListInv' /\ TasksInv' /\ CurrentInv' /\ PurgeInv'
  BY <1>1, <1>2 DEF IInv, ResourcesOwned, ListInv, TasksInv, CurrentInv, PurgeInv
<1>10. CreateInv'
  <2>1. ASSUME NEW y \in Ctx \ {x}
        PROVE  Creating(y)' <=> Creating(y)
    BY <1>4 DEF Creating
  <2>2. ~ Creating(x)'
    BY <1>4 DEF Creating
  <2>3. QED BY <1>1, <1>2, <1>4, <2>1, <2>2 DEF IInv, CreateInv
<1>11. IrqInv'
  BY <1>1, <1>4, WhoRuns DEF IInv, IrqInv
<1>12. TrailInv'
  BY <1>1, <1>2, Zenon DEF IInv, TrailInv, Leads
<1>13. QED BY <1>7, <1>8, <1>9, <1>10, <1>11, <1>12 DEF IInv

\* What the actions below use of the invariant for the executing context.
LEMMA OwnState ==
  ASSUME IInv, NEW x \in Ctx
  PROVE  /\ pc \in [Ctx -> Labels] /\ arg \in [Ctx -> 0 .. MaxId - 1]
         /\ ptr \in [Ctx -> Slot \cup {None}]
         /\ task_lock \in Ctx \cup {None} /\ page_lock \in Ctx \cup {None}
         /\ pc[x] \in Critical <=> task_lock = x
         /\ None \notin Ctx /\ MaxId \in Nat \ {0}
         /\ pc[x] \in {"idle", "create", "struct"} => ptr[x] = None
         /\ pc[x] \in {"check", "kill", "mark"} => ptr[x] \in Slot
BY SchedConstants
   DEF IInv, TypeOK, Labels, Critical, CriticalSection, CreateInv, Ctx, Node

\* Calls begin.
LEMMA CallInv ==
  ASSUME IInv, NEW x \in Ctx,
         \/ \E op \in Ops : Call(x, op)
         \/ \E i \in 1 .. MaxId - 1 : task_kill(x, i)
  PROVE  IInv'
<1>1. /\ Running(x) /\ Local /\ pc[x] = "idle"
      /\ UNCHANGED <<task_lock, page_lock, ptr>>
  BY DEF Call, task_kill, Local, locks
<1>2. PICK l \in {"create", "exit", "print", "page", "find"} :
         pc' = [pc EXCEPT ![x] = l]
  BY SchedConstants DEF Call, task_kill, Goto
<1>3. arg' \in [Ctx -> 0 .. MaxId - 1]
  BY OwnState DEF Call, task_kill
<1>4. ptr[x] = None /\ task_lock # x
  BY <1>1, OwnState DEF Critical
<1>5. ptr' = [ptr EXCEPT ![x] = None]
  BY <1>1, <1>4, OwnState
<1>6. /\ l \in Labels /\ l \notin Critical
      /\ l \notin {"idle", "check", "kill", "mark", "struct"}
  BY <1>2 DEF Labels, Critical
<1>7. page_lock' \in Ctx \cup {None} /\ task_lock' = task_lock
  BY <1>1, OwnState
<1>8. l \notin {"stack", "space", "publish", "cleanup"}
  BY <1>6 DEF Critical
<1>9. QED BY <1>1, <1>2, <1>3, <1>4, <1>5, <1>6, <1>7, <1>8, LocalStep, Zenon

\* lock() and unlock() of task_lock and of the page allocator's lock.
LEMMA LockInv ==
  ASSUME IInv, NEW x \in Ctx,
         \/ task_create_lock(x) \/ task_lock_acquire(x) \/ task_lock_release(x)
         \/ page_lock_acquire(x) \/ page_lock_release(x)
  PROVE  IInv'
<1>1. Running(x) /\ Local
  BY DEF Local, task_create_lock, task_lock_acquire, task_lock_release,
         page_lock_acquire, page_lock_release
<1>2. CASE task_create_lock(x)
  <2>1. /\ pc[x] = "create" /\ task_lock = None /\ task_lock' = x
        /\ pc' = [pc EXCEPT ![x] = "struct"] /\ UNCHANGED <<arg, ptr, page_lock>>
    BY <1>2 DEF task_create_lock, Goto
  <2>2. ptr[x] = None /\ ptr' = [ptr EXCEPT ![x] = None]
    BY <2>1, OwnState
  <2>3. "struct" \in Labels /\ "struct" \in Critical
    BY DEF Labels, Critical
  <2>4. QED BY <1>1, <2>1, <2>2, <2>3, OwnState, LocalStep, Zenon
<1>3. CASE task_lock_acquire(x)
  <2>1. /\ task_lock = None /\ task_lock' = x /\ UNCHANGED <<arg, ptr, page_lock>>
        /\ pc[x] \in {"find", "kill", "exit", "print"}
    BY <1>3 DEF task_lock_acquire
  <2>2. PICK l \in {"search", "mark", "leave", "unlock"} :
          /\ pc' = [pc EXCEPT ![x] = l]
          /\ l = "mark" => pc[x] = "kill"
    BY <1>3, Zenon DEF task_lock_acquire, Goto
  <2>3. ptr' = [ptr EXCEPT ![x] = ptr[x]] /\ ptr[x] \in Slot \cup {None}
    BY <2>1, OwnState
  <2>4. l \in Labels /\ l \in Critical
    BY DEF Labels, Critical
  <2>5. l \in {"check", "kill", "mark"} => ptr[x] \in Slot
    BY <2>2, OwnState
  <2>6. QED BY <1>1, <2>1, <2>2, <2>3, <2>4, <2>5, OwnState, LocalStep, Zenon
<1>4. CASE task_lock_release(x)
  <2>1. /\ pc[x] = "unlock" /\ task_lock' = None /\ UNCHANGED page_lock
        /\ pc' = [pc EXCEPT ![x] = "idle"]
        /\ ptr' = [ptr EXCEPT ![x] = None]
        /\ arg' = [arg EXCEPT ![x] = 0]
    BY <1>4 DEF task_lock_release, Return, Goto
  <2>2. task_lock = x /\ task_lock' # x
    BY <2>1, OwnState DEF Critical
  <2>3. arg' \in [Ctx -> 0 .. MaxId - 1]
    BY <2>1, OwnState
  <2>4. "idle" \in Labels /\ "idle" \notin Critical
    BY DEF Labels, Critical
  <2>5. QED BY <1>1, <2>1, <2>2, <2>3, <2>4, OwnState, LocalStep, Zenon
<1>5. CASE page_lock_acquire(x)
  <2>1. /\ pc[x] = "page" /\ UNCHANGED <<arg, ptr, task_lock>> /\ page_lock' = x
        /\ pc' = [pc EXCEPT ![x] = "pages"]
    BY <1>5 DEF page_lock_acquire, Goto
  <2>2. ptr' = [ptr EXCEPT ![x] = ptr[x]] /\ ptr[x] \in Slot \cup {None}
    BY <2>1, OwnState
  <2>3. task_lock # x
    BY <2>1, OwnState DEF Critical
  <2>4. "pages" \in Labels /\ "pages" \notin Critical
    BY DEF Labels, Critical
  <2>5. QED BY <1>1, <2>1, <2>2, <2>3, <2>4, OwnState, LocalStep, Zenon
<1>6. CASE page_lock_release(x)
  <2>1. /\ pc[x] = "pages" /\ page_lock' = None /\ UNCHANGED task_lock
        /\ pc' = [pc EXCEPT ![x] = "idle"]
        /\ ptr' = [ptr EXCEPT ![x] = None]
        /\ arg' = [arg EXCEPT ![x] = 0]
    BY <1>6 DEF page_lock_release, Return, Goto
  <2>2. task_lock # x
    BY <2>1, OwnState DEF Critical
  <2>3. arg' \in [Ctx -> 0 .. MaxId - 1]
    BY <2>1, OwnState
  <2>4. "idle" \in Labels /\ "idle" \notin Critical
    BY DEF Labels, Critical
  <2>5. QED BY <1>1, <2>1, <2>2, <2>3, <2>4, OwnState, LocalStep, Zenon
<1>7. QED BY <1>2, <1>3, <1>4, <1>5, <1>6

\* kmalloc() fails in task_create(); task_get_from_id() finds a task, or none;
\* task_kill() looks at the task's state.
LEMMA LookInv ==
  ASSUME IInv, NEW x \in Ctx,
         task_alloc_struct_fail(x) \/ task_get_from_id(x) \/ task_kill_check(x)
  PROVE  IInv'
<1>1. Running(x) /\ Local /\ UNCHANGED page_lock
  BY DEF Local, task_alloc_struct_fail, task_get_from_id, task_kill_check, locks
<1>2. /\ "idle" \in Labels /\ "idle" \notin Critical
      /\ "cleanup" \in Labels /\ "cleanup" \in Critical
      /\ "check" \in Labels /\ "check" \notin Critical
      /\ "kill" \in Labels /\ "kill" \notin Critical
  BY DEF Labels, Critical
<1>3. CASE task_alloc_struct_fail(x)
  <2>1. /\ pc[x] = "struct" /\ UNCHANGED <<arg, ptr, task_lock>>
        /\ pc' = [pc EXCEPT ![x] = "cleanup"]
    BY <1>3 DEF task_alloc_struct_fail, Goto, locks
  <2>2. task_lock = x /\ ptr[x] = None /\ ptr' = [ptr EXCEPT ![x] = None]
    BY <2>1, OwnState DEF Critical
  <2>3. QED BY <1>1, <1>2, <2>1, <2>2, OwnState, LocalStep, Zenon
<1>4. CASE task_get_from_id(x)
  <2>1. pc[x] = "search" /\ task_lock' = None
    BY <1>4 DEF task_get_from_id
  <2>2. task_lock = x
    BY <2>1, OwnState DEF Critical
  <2>3. CASE \E n \in Listed : /\ ptr' = [ptr EXCEPT ![x] = n]
                               /\ Goto(x, "check")
                               /\ UNCHANGED arg
    <3>1. PICK n \in Slot : /\ ptr' = [ptr EXCEPT ![x] = n]
                            /\ pc' = [pc EXCEPT ![x] = "check"]
                            /\ UNCHANGED arg
      BY <2>3, Zenon DEF Goto, Listed
    <3>2. QED BY <1>1, <1>2, <2>1, <2>2, <3>1, OwnState, LocalStep, Zenon
  <2>4. CASE Return(x)
    <3>1. /\ pc' = [pc EXCEPT ![x] = "idle"]
          /\ ptr' = [ptr EXCEPT ![x] = None]
          /\ arg' = [arg EXCEPT ![x] = 0]
      BY <2>4 DEF Return, Goto
    <3>2. arg' \in [Ctx -> 0 .. MaxId - 1]
      BY <3>1, OwnState
    <3>3. QED BY <1>1, <1>2, <2>1, <2>2, <3>1, <3>2, OwnState, LocalStep, Zenon
  <2>5. QED BY <1>4, <2>3, <2>4 DEF task_get_from_id
<1>5. CASE task_kill_check(x)
  <2>1. pc[x] = "check" /\ UNCHANGED task_lock
    BY <1>5 DEF task_kill_check, locks
  <2>2. task_lock # x /\ ptr[x] \in Slot
    BY <2>1, OwnState DEF Critical
  <2>3. CASE Goto(x, "kill") /\ UNCHANGED <<arg, ptr>>
    <3>1. /\ ptr' = [ptr EXCEPT ![x] = ptr[x]]
          /\ pc' = [pc EXCEPT ![x] = "kill"]
          /\ UNCHANGED arg
      BY <2>3, OwnState DEF Goto
    <3>2. QED BY <1>1, <1>2, <2>1, <2>2, <3>1, OwnState, LocalStep, Zenon
  <2>4. CASE Return(x)
    <3>1. /\ pc' = [pc EXCEPT ![x] = "idle"]
          /\ ptr' = [ptr EXCEPT ![x] = None]
          /\ arg' = [arg EXCEPT ![x] = 0]
      BY <2>4 DEF Return, Goto
    <3>2. arg' \in [Ctx -> 0 .. MaxId - 1]
      BY <3>1, OwnState
    <3>3. QED BY <1>1, <1>2, <2>1, <2>2, <3>1, <3>2, OwnState, LocalStep, Zenon
  <2>5. QED BY <1>5, <2>3, <2>4 DEF task_kill_check
<1>6. QED BY <1>3, <1>4, <1>5

\* While a task or the keyboard handler executes, the scheduler's part of the
\* invariant says that the current task is on the list.
LEMMA QuietParts ==
  ASSUME isr' \in {"off", "kbd"}, current' \in Listed'
  PROVE  PurgeInv' /\ TrailInv'
<1>1. PurgeInv'
  BY DEF PurgeInv
<1>2. Leads({})'
  BY DEF Leads, OnList
<1>3. QED BY <1>1, <1>2 DEF TrailInv

\* Only the holder of task_lock is between lock() and unlock(), and so only it is
\* creating a task.
LEMMA OnlyHolder ==
  ASSUME IInv, NEW y \in Ctx, task_lock # y
  PROVE  pc[y] \notin Critical /\ ~ Creating(y)
BY DEF IInv, CriticalSection, Critical, Creating

\* The list that the new pointers link is the list after the step.
LEMMA ListedAfter ==
  ASSUME NEW L, Linked(L, next', prev')
  PROVE  Listed' = L /\ OnList' = L \cup {Head} /\ ListInv'
<1>1. L = Circle(Slot, Head, next') /\ next' \in [Node -> Node]
  BY DEF Linked, Ring, Node
<1>2. Listed' = L
  BY <1>1, ListedIsCircle, ListedByNext
<1>3. QED BY <1>2 DEF OnList, ListInv

\* The labels of the executing context and of the others after Goto().
LEMMA LabelsAfter ==
  ASSUME IInv, NEW x \in Ctx, NEW l \in Labels, pc' = [pc EXCEPT ![x] = l]
  PROVE  /\ pc' \in [Ctx -> Labels] /\ pc'[x] = l
         /\ \A y \in Ctx \ {x} : pc'[y] = pc[y]
BY OwnState

\* task_kill() and task_exit_current() mark a task.
LEMMA MarkInv ==
  ASSUME IInv, NEW x \in Ctx, task_kill_mark(x) \/ task_exit_current(x)
  PROVE  IInv'
<1>1. /\ Running(x) /\ pc[x] \in {"mark", "leave"}
      /\ pc' = [pc EXCEPT ![x] = "unlock"]
      /\ UNCHANGED <<id, kstack, vm_space, next, prev, heap, stacks, spaces>>
      /\ UNCHANGED <<task_lock, page_lock, last_task_id, current, arg, ptr>>
      /\ UNCHANGED <<isr, entry, tmp>>
  BY DEF task_kill_mark, task_exit_current, Goto, links, memory, locks, handler
<1>2. PICK n \in Slot : state' = [state EXCEPT ![n] = "KILLED"]
  <2>1. current \in Slot
    BY DEF IInv, TypeOK
  <2>2. QED BY <2>1, OwnState DEF task_kill_mark, task_exit_current
<1>3. Listed' = Listed /\ OnList' = OnList
  BY <1>1, ListedSame
<1>4. "unlock" \in Labels /\ "unlock" \in Critical
  BY DEF Labels, Critical
<1>5. /\ pc' \in [Ctx -> Labels] /\ pc'[x] = "unlock"
      /\ \A y \in Ctx \ {x} : pc'[y] = pc[y]
  BY <1>1, <1>4, LabelsAfter, Zenon
<1>6. task_lock = x
  BY <1>1, OwnState DEF Critical
<1>7. /\ n # Head /\ n \in Node /\ Head \in Node
      /\ state \in [Node -> {"INVALID", "RUNNING", "WAITING", "PAUSED", "KILLED"}]
  BY SchedConstants DEF IInv, TypeOK, Node
<1>8. TypeOK'
  <2>1. state' \in [Node -> {"INVALID", "RUNNING", "WAITING", "PAUSED", "KILLED"}]
    BY <1>2, <1>7
  <2>2. QED BY <1>1, <1>5, <2>1, Zenon DEF IInv, TypeOK, Labels, Critical
<1>9. CriticalSection'
  BY <1>1, <1>4, <1>5, <1>6 DEF IInv, CriticalSection, Critical
<1>10. ResourcesOwned' /\ ListInv' /\ TasksInv'
  BY <1>1, <1>3, Zenon DEF IInv, ResourcesOwned, ListInv, TasksInv
<1>11. CreateInv'
  <2>1. ASSUME NEW y \in Ctx \ {x}
        PROVE  Creating(y)' <=> Creating(y)
    BY <1>1, <1>5 DEF Creating
  <2>2. ~ Creating(x)'
    BY <1>5 DEF Creating
  <2>3. \A m \in Node : state[m] # "RUNNING" => state'[m] # "RUNNING"
    BY <1>2, <1>7
  <2>4. heap \subseteq Node
    BY Zenon DEF IInv, TypeOK, Node
  <2>5. QED BY <1>1, <1>3, <1>5, <2>1, <2>2, <2>3, <2>4 DEF IInv, CreateInv
<1>12. IrqInv'
  BY <1>1, <1>5, WhoRuns DEF IInv, IrqInv
<1>13. CurrentInv'
  <2>1. \A m \in Node : state'[m] = IF m = n THEN "KILLED" ELSE state[m]
    BY <1>2, <1>7
  <2>2. current \in Node /\ Listed \subseteq Node
    BY ListedByNext, Zenon DEF IInv, TypeOK, Node
  <2>3. QED BY <1>1, <1>3, <1>7, <2>1, <2>2, Zenon DEF IInv, CurrentInv
<1>14. PurgeInv' /\ TrailInv'
  BY <1>1, <1>3, WhoRuns, QuietParts, Zenon
<1>15. QED BY <1>8, <1>9, <1>10, <1>11, <1>12, <1>13, <1>14 DEF IInv

\* task_alloc_struct(): a slot becomes a task struct that is not on the list yet.
LEMMA AllocStructInv ==
  ASSUME IInv, NEW x \in Ctx, task_alloc_struct(x)
  PROVE  IInv'
<1>1. /\ Running(x) /\ pc[x] = "struct" /\ last_task_id < MaxId
      /\ last_task_id' = last_task_id + 1
      /\ UNCHANGED <<stacks, spaces, task_lock, page_lock, current, isr, entry, tmp>>
  BY DEF task_alloc_struct, locks, handler
<1>2. PICK n \in Slot \ heap, st \in {"WAITING", "PAUSED"} :
         /\ heap' = heap \cup {n}
         /\ id' = [id EXCEPT ![n] = last_task_id]
         /\ state' = [state EXCEPT ![n] = st]
         /\ kstack' = [kstack EXCEPT ![n] = FALSE]
         /\ vm_space' = [vm_space EXCEPT ![n] = FALSE]
         /\ next' = [next EXCEPT ![n] = n]
         /\ prev' = [prev EXCEPT ![n] = n]
         /\ pc' = [pc EXCEPT ![x] = "stack", ![n] = "idle"]
         /\ arg' = [arg EXCEPT ![n] = 0]
         /\ ptr' = [ptr EXCEPT ![x] = n, ![n] = None]
  BY Zenon DEF task_alloc_struct
<1>3. /\ n \in Ctx /\ n \in Node /\ n # Head /\ Head \in Node /\ n # x /\ n # Idle
      /\ n \notin Listed /\ n # current /\ task_lock = x
  <2>1. n \in Ctx /\ n \in Node /\ n # Head /\ n # Irq /\ Head \in Node
    BY SchedConstants DEF Ctx, Node
  <2>2. n # x /\ n # current
    BY <1>1, <2>1, WhoRuns
  <2>3. n # Idle /\ n \notin Listed
    BY DEF IInv, TasksInv
  <2>4. task_lock = x
    BY <1>1, OwnState DEF Critical
  <2>5. QED BY <2>1, <2>2, <2>3, <2>4
<1>4. TypeOK
  BY DEF IInv
<1>5. /\ \A m \in Slot : id'[m] = IF m = n THEN last_task_id ELSE id[m]
      /\ \A m \in Node : state'[m] = IF m = n THEN st ELSE state[m]
      /\ kstack'[n] = FALSE /\ \A m \in Slot \ {n} : kstack'[m] = kstack[m]
      /\ vm_space'[n] = FALSE /\ \A m \in Slot \ {n} : vm_space'[m] = vm_space[m]
      /\ \A m \in Node \ {n} : next'[m] = next[m] /\ prev'[m] = prev[m]
  BY <1>2, <1>3, <1>4 DEF TypeOK
<1>6. /\ pc'[x] = "stack" /\ pc'[n] = "idle" /\ ptr'[x] = n /\ ptr'[n] = None
      /\ \A y \in Ctx \ {x, n} : pc'[y] = pc[y] /\ ptr'[y] = ptr[y]
  BY <1>2, <1>3, <1>4 DEF TypeOK
<1>7. TypeOK'
  <2>1. /\ id' \in [Slot -> 0 .. MaxId - 1] /\ last_task_id' \in 1 .. MaxId
        /\ state' \in [Node -> {"INVALID", "RUNNING", "WAITING", "PAUSED", "KILLED"}]
        /\ next' \in [Node -> Node] /\ prev' \in [Node -> Node] /\ heap' \subseteq Slot
    BY <1>1, <1>2, <1>3, <1>4, SchedConstants DEF TypeOK
  <2>2. kstack' \in [Slot -> BOOLEAN] /\ vm_space' \in [Slot -> BOOLEAN]
    BY <1>2, <1>4, Zenon DEF TypeOK
  <2>3. /\ arg' \in [Ctx -> 0 .. MaxId - 1] /\ ptr' \in [Ctx -> Slot \cup {None}]
    BY <1>2, <1>3, <1>4, SchedConstants DEF TypeOK
  <2>4. pc' \in [Ctx -> Labels]
    BY <1>2, <1>3, OwnState, Zenon DEF Labels, Critical
  <2>5. QED BY <1>1, <1>4, <2>1, <2>2, <2>3, <2>4 DEF TypeOK, Labels, Critical
<1>8. Listed' = Listed /\ OnList' = OnList /\ ListInv'
  <2>1. Linked(Listed, next, prev) /\ Listed \subseteq Slot
    BY ListedByNext DEF IInv, ListInv
  <2>2. \A m \in Listed \cup {Head} : next'[m] = next[m] /\ prev'[m] = prev[m]
    BY <1>3, <1>5, <2>1, Zenon DEF Node
  <2>3. next' \in [Node -> Node] /\ prev' \in [Node -> Node]
    BY <1>7 DEF TypeOK
  <2>4. Linked(Listed, next', prev')
    BY <2>1, <2>2, <2>3, RingSame, SchedConstants DEF Linked, Node
  <2>5. QED BY <2>4, ListedAfter DEF OnList
<1>9. CriticalSection'
  <2>1. \A y \in Ctx \ {x} : pc[y] \notin Critical
    BY <1>3, OnlyHolder
  <2>2. QED BY <1>1, <1>3, <1>6, <2>1, Zenon DEF CriticalSection, Critical
<1>10. ResourcesOwned'
  <2>1. {m \in heap' : kstack'[m]} = {m \in heap : kstack[m]}
    BY <1>2, <1>4, <1>5 DEF TypeOK
  <2>2. {m \in heap' : vm_space'[m]} = {m \in heap : vm_space[m]}
    BY <1>2, <1>4, <1>5 DEF TypeOK
  <2>3. QED BY <1>1, <2>1, <2>2, Zenon DEF IInv, ResourcesOwned
<1>11. TasksInv'
  <2>1. Listed \subseteq Slot /\ last_task_id \in Nat /\ id \in [Slot -> 0 .. MaxId - 1]
    BY <1>4, SchedConstants, ListedByNext DEF TypeOK
  <2>2. QED BY <1>1, <1>2, <1>3, <1>5, <1>8, <2>1, SchedConstants DEF IInv, TasksInv
<1>12. CreateInv'
  <2>1. Listed \subseteq Slot /\ last_task_id \in Nat /\ id \in [Slot -> 0 .. MaxId - 1]
    BY <1>4, SchedConstants, ListedByNext DEF TypeOK
  <2>2. ASSUME NEW y \in Ctx \ {x, n}
        PROVE  /\ ~ Creating(y)' /\ pc'[y] \notin {"struct", "stack", "space", "publish"}
               /\ pc'[y] \in {"idle", "create"} => ptr'[y] = None
               /\ pc'[y] \in {"check", "kill", "mark"} => ptr'[y] \in Slot
    <3>1. pc[y] \notin Critical
      BY <1>3, OnlyHolder
    <3>2. QED BY <1>6, <3>1, OwnState DEF Creating, Critical
  <2>3. /\ ~ Creating(n)' /\ pc'[n] = "idle" /\ ptr'[n] = None
    BY <1>6, Zenon DEF Creating
  <2>4. /\ n \in heap' \ Listed' /\ id'[n] < last_task_id' /\ state'[n] # "RUNNING"
        /\ \A m \in Listed' : id'[m] # id'[n]
    BY <1>1, <1>2, <1>3, <1>5, <1>8, <2>1 DEF IInv, TasksInv
  <2>5. ~ kstack'[n] /\ ~ vm_space'[n]
    BY <1>5, Zenon
  <2>6. QED BY <1>6, <2>2, <2>3, <2>4, <2>5 DEF CreateInv
<1>13. IrqInv'
  <2>1. isr # "kbd" => pc[Irq] = "idle" /\ Irq # x
    BY <1>1, WhoRuns, Zenon DEF IInv, IrqInv
  <2>2. Irq # n /\ Irq \in Ctx
    BY SchedConstants DEF Ctx, Node
  <2>3. QED BY <1>1, <1>6, <2>1, <2>2 DEF IrqInv
<1>14. CurrentInv'
  <2>1. Listed \subseteq Node /\ current \in Node
    BY <1>4, ListedByNext, Zenon DEF TypeOK, Node
  <2>2. QED BY <1>1, <1>3, <1>5, <1>8, <2>1 DEF IInv, CurrentInv
<1>15. PurgeInv' /\ TrailInv'
  BY <1>1, <1>8, WhoRuns, QuietParts
<1>16. QED BY <1>7, <1>8, <1>9, <1>10, <1>11, <1>12, <1>13, <1>14, <1>15 DEF IInv

\* One more or one less slot with a flag counts one more or one less.
LEMMA CountOne ==
  ASSUME NEW S, IsFiniteSet(S), NEW n
  PROVE  /\ IsFiniteSet(S \cup {n}) /\ IsFiniteSet(S \ {n})
         /\ n \notin S => Cardinality(S \cup {n}) = Cardinality(S) + 1
         /\ n \in S => Cardinality(S \ {n}) = Cardinality(S) - 1
         /\ Cardinality(S) \in Nat
BY FS_AddElement, FS_RemoveElement, FS_CardinalityType

\* The steps of task_create() that get a resource for the new task, or fail.
LEMMA GetResource ==
  ASSUME IInv, NEW x \in Ctx, Running(x), pc[x] \in {"stack", "space"},
         NEW l \in {"space", "publish", "cleanup"},
         pc' = [pc EXCEPT ![x] = l],
         UNCHANGED <<state, id, next, prev, heap>>,
         UNCHANGED <<task_lock, page_lock, last_task_id, current, arg, ptr>>,
         UNCHANGED <<isr, entry, tmp>>,
         kstack' \in [Slot -> BOOLEAN], vm_space' \in [Slot -> BOOLEAN],
         \A m \in Slot \ {ptr[x]} : kstack'[m] = kstack[m] /\ vm_space'[m] = vm_space[m],
         l = "space" => kstack'[ptr[x]] /\ ~vm_space'[ptr[x]],
         l = "publish" => kstack'[ptr[x]] /\ vm_space'[ptr[x]],
         ResourcesOwned', stacks' \in Nat, spaces' \in Nat
  PROVE  IInv'
<1> DEFINE n == ptr[x]
<1>1. Listed' = Listed /\ OnList' = OnList
  BY ListedSame
<1>2. l \in Labels /\ l \in Critical
  BY DEF Labels, Critical
<1>3. /\ pc' \in [Ctx -> Labels] /\ pc'[x] = l
      /\ \A y \in Ctx \ {x} : pc'[y] = pc[y]
  BY <1>2, LabelsAfter, Zenon
<1>4. task_lock = x
  BY OwnState DEF Critical
<1>5. TypeOK'
  BY <1>3 DEF IInv, TypeOK, Labels, Critical
<1>6. CriticalSection'
  BY <1>2, <1>3, <1>4 DEF IInv, CriticalSection, Critical
<1>7. Creating(x)
  BY DEF Creating
<1>8. /\ n \in heap \ Listed /\ id[n] < last_task_id /\ state[n] # "RUNNING"
      /\ \A m \in Listed : id[m] # id[n]
  BY <1>7, Zenon DEF IInv, CreateInv
<1>9. ListInv'
  BY <1>1 DEF IInv, ListInv
<1>10. TasksInv'
  <2>1. Listed \subseteq Slot \ {n}
    BY <1>8, ListedByNext, Zenon
  <2>2. QED BY <1>1, <2>1, Zenon DEF IInv, TasksInv
<1>11. CreateInv'
  <2>1. ASSUME NEW y \in Ctx \ {x}
        PROVE  /\ ~ Creating(y)' /\ pc'[y] \notin {"struct", "stack", "space", "publish"}
               /\ pc'[y] \in {"idle", "create"} => ptr'[y] = None
               /\ pc'[y] \in {"check", "kill", "mark"} => ptr'[y] \in Slot
    <3>1. pc[y] \notin Critical
      BY <1>4, OnlyHolder
    <3>2. QED BY <1>3, <3>1, OwnState DEF Creating, Critical
  <2>2. /\ pc'[x] \in {"space", "publish", "cleanup"}
        /\ ptr'[x] \in heap' \ Listed' /\ id'[ptr'[x]] < last_task_id'
        /\ \A m \in Listed' : id'[m] # id'[ptr'[x]]
        /\ state'[ptr'[x]] # "RUNNING"
        /\ pc'[x] = "space" => kstack'[ptr'[x]] /\ ~vm_space'[ptr'[x]]
        /\ pc'[x] = "publish" => kstack'[ptr'[x]] /\ vm_space'[ptr'[x]]
    BY <1>1, <1>3, <1>8, Zenon
  <2>3. QED BY <2>1, <2>2, Zenon DEF CreateInv
<1>12. IrqInv'
  BY <1>3, WhoRuns DEF IInv, IrqInv
<1>13. CurrentInv'
  BY <1>1, Zenon DEF IInv, CurrentInv
<1>14. PurgeInv' /\ TrailInv'
  BY <1>1, WhoRuns, QuietParts, Zenon
<1>15. QED BY <1>5, <1>6, <1>9, <1>10, <1>11, <1>12, <1>13, <1>14, Zenon DEF IInv

\* task_create_kernel_stack() and task_create_vm_space() get a resource, or fail.
LEMMA ResourceInv ==
  ASSUME IInv, NEW x \in Ctx, task_create_kernel_stack(x) \/ task_create_vm_space(x)
  PROVE  IInv'
<1> DEFINE n == ptr[x]
           K == {m \in heap : kstack[m]}
           V == {m \in heap : vm_space[m]}
<1>1. /\ Running(x) /\ pc[x] \in {"stack", "space"}
      /\ UNCHANGED <<state, id, next, prev, heap>>
      /\ UNCHANGED <<task_lock, page_lock, last_task_id, current, arg, ptr>>
      /\ UNCHANGED <<isr, entry, tmp>>
  BY DEF task_create_kernel_stack, task_create_vm_space, links, locks, handler
<1>2. TypeOK /\ stacks = Cardinality(K) /\ spaces = Cardinality(V)
  BY DEF IInv, ResourcesOwned
<1>3. IsFiniteSet(K) /\ IsFiniteSet(V)
  <2>1. K \in SUBSET Slot /\ V \in SUBSET Slot
    BY <1>2 DEF TypeOK
  <2>2. QED BY <2>1, SchedConstants, FS_Subset
<1>4. n \in heap /\ n \in Slot
  BY <1>1, <1>2, Zenon DEF IInv, CreateInv, Creating, TypeOK
<1>5. ASSUME UNCHANGED <<kstack, vm_space, stacks, spaces>>,
             pc' = [pc EXCEPT ![x] = "cleanup"]
      PROVE  IInv'
  <2>1. ResourcesOwned'
    BY <1>1, <1>5, Zenon DEF IInv, ResourcesOwned
  <2>2. kstack' \in [Slot -> BOOLEAN] /\ vm_space' \in [Slot -> BOOLEAN]
    BY <1>2, <1>5, Zenon DEF TypeOK
  <2>3. stacks' \in Nat /\ spaces' \in Nat
    BY <1>2, <1>5 DEF TypeOK
  <2>4. QED BY <1>1, <1>5, <2>1, <2>2, <2>3, GetResource, Zenon
<1>6. CASE /\ pc[x] = "stack" /\ pc' = [pc EXCEPT ![x] = "space"]
           /\ kstack' = [kstack EXCEPT ![n] = TRUE] /\ stacks' = stacks + 1
           /\ UNCHANGED <<vm_space, spaces>>
  <2>1. ~ kstack[n] /\ ~ vm_space[n]
    BY <1>6, Zenon DEF IInv, CreateInv
  <2>2. kstack'[n] /\ ~ vm_space'[n] /\ \A m \in Slot \ {n} : kstack'[m] = kstack[m]
    BY <1>2, <1>4, <1>6, <2>1 DEF TypeOK
  <2>3. {m \in heap' : kstack'[m]} = K \cup {n} /\ n \notin K
    BY <1>1, <1>2, <1>4, <2>1, <2>2 DEF TypeOK
  <2>4. stacks' = Cardinality(K \cup {n}) /\ stacks' \in Nat
    BY <1>2, <1>3, <1>6, <2>3, CountOne, Zenon
  <2>5. {m \in heap' : vm_space'[m]} = V
    BY <1>1, <1>6
  <2>6. ResourcesOwned'
    BY <1>2, <1>6, <2>3, <2>4, <2>5, Zenon DEF ResourcesOwned
  <2>7. kstack' \in [Slot -> BOOLEAN] /\ vm_space' \in [Slot -> BOOLEAN]
    BY <1>2, <1>6, Zenon DEF TypeOK
  <2>8. spaces' \in Nat
    BY <1>2, <1>6, Zenon DEF TypeOK
  <2>9. QED BY <1>1, <1>6, <2>2, <2>4, <2>6, <2>7, <2>8, GetResource, Zenon
<1>7. CASE /\ pc[x] = "space" /\ pc' = [pc EXCEPT ![x] = "publish"]
           /\ vm_space' = [vm_space EXCEPT ![n] = TRUE] /\ spaces' = spaces + 1
           /\ UNCHANGED <<kstack, stacks>>
  <2>1. kstack[n] /\ ~ vm_space[n]
    BY <1>7, Zenon DEF IInv, CreateInv
  <2>2. kstack'[n] /\ vm_space'[n] /\ \A m \in Slot \ {n} : vm_space'[m] = vm_space[m]
    BY <1>2, <1>4, <1>7, <2>1 DEF TypeOK
  <2>3. {m \in heap' : vm_space'[m]} = V \cup {n} /\ n \notin V
    BY <1>1, <1>2, <1>4, <2>1, <2>2 DEF TypeOK
  <2>4. spaces' = Cardinality(V \cup {n}) /\ spaces' \in Nat
    BY <1>2, <1>3, <1>7, <2>3, CountOne, Zenon
  <2>5. {m \in heap' : kstack'[m]} = K
    BY <1>1, <1>7
  <2>6. ResourcesOwned'
    BY <1>2, <1>7, <2>3, <2>4, <2>5, Zenon DEF ResourcesOwned
  <2>7. kstack' \in [Slot -> BOOLEAN] /\ vm_space' \in [Slot -> BOOLEAN]
    BY <1>2, <1>7, Zenon DEF TypeOK
  <2>8. stacks' \in Nat
    BY <1>2, <1>7 DEF TypeOK
  <2>9. QED BY <1>1, <1>7, <2>2, <2>4, <2>6, <2>7, <2>8, GetResource, Zenon
<1>8. QED BY <1>5, <1>6, <1>7, Zenon DEF task_create_kernel_stack, task_create_vm_space,
             Goto

\* task_create() puts the task on the list and unlocks.
LEMMA PublishInv ==
  ASSUME IInv, NEW x \in Ctx, task_create_publish(x)
  PROVE  IInv'
<1> DEFINE n == ptr[x]
<1>1. /\ Running(x) /\ pc[x] = "publish" /\ task_lock' = None
      /\ next' = [next EXCEPT ![n] = next[Head], ![Head] = n]
      /\ prev' = [prev EXCEPT ![next[Head]] = n, ![n] = Head]
      /\ pc' = [pc EXCEPT ![x] = "idle"]
      /\ arg' = [arg EXCEPT ![x] = 0]
      /\ ptr' = [ptr EXCEPT ![x] = None]
      /\ UNCHANGED <<state, id, kstack, vm_space, heap, stacks, spaces>>
      /\ UNCHANGED <<page_lock, last_task_id, current, isr, entry, tmp>>
  BY DEF task_create_publish, clist_add, Return, Goto, fields, memory, handler
<1>2. TypeOK
  BY DEF IInv
<1>3. /\ n \in heap \ Listed /\ n \in Slot /\ id[n] < last_task_id
      /\ \A m \in Listed : id[m] # id[n]
      /\ kstack[n] /\ vm_space[n] /\ state[n] # "RUNNING"
  BY <1>1, <1>2, Zenon DEF IInv, CreateInv, Creating, TypeOK
<1>4. task_lock = x
  BY <1>1, OwnState, Zenon DEF Critical
<1>5. /\ Listed' = Listed \cup {n} /\ OnList' = Listed \cup {n} \cup {Head}
      /\ ListInv' /\ next' \in [Node -> Node] /\ prev' \in [Node -> Node]
  <2>1. Linked(Listed, next, prev) /\ n \in Slot \ Listed
    BY <1>3, Zenon DEF IInv, ListInv
  <2>2. Linked(Listed \cup {n}, next', prev')
    BY <1>1, <2>1, RingAdd, SchedConstants, Zenon DEF Linked
  <2>3. QED BY <2>2, ListedAfter DEF Linked, Ring, Node
<1>6. "idle" \in Labels /\ "idle" \notin Critical
  BY DEF Labels, Critical
<1>7. /\ pc' \in [Ctx -> Labels] /\ pc'[x] = "idle"
      /\ \A y \in Ctx \ {x} : pc'[y] = pc[y]
  BY <1>1, <1>6, LabelsAfter, Zenon
<1>8. /\ ptr'[x] = None /\ \A y \in Ctx \ {x} : ptr'[y] = ptr[y]
      /\ ptr' \in [Ctx -> Slot \cup {None}] /\ arg' \in [Ctx -> 0 .. MaxId - 1]
  BY <1>1, OwnState
<1>9. TypeOK'
  BY <1>1, <1>2, <1>5, <1>7, <1>8, Zenon DEF TypeOK, Labels, Critical
<1>10. ASSUME NEW y \in Ctx \ {x}
       PROVE  pc'[y] \notin Critical
  BY <1>4, <1>7, OnlyHolder
<1>11. CriticalSection'
  BY <1>1, <1>6, <1>7, <1>10, OwnState, Zenon DEF CriticalSection, Critical
<1>12. ResourcesOwned'
  BY <1>1, Zenon DEF IInv, ResourcesOwned
<1>13. TasksInv'
  <2>1. TasksInv
    BY DEF IInv
  <2>2. /\ heap' = heap /\ id' = id /\ kstack' = kstack /\ vm_space' = vm_space
        /\ last_task_id' = last_task_id /\ Listed' = Listed \cup {n}
    BY <1>1, <1>5, Zenon
  <2>3. ASSUME NEW m \in Listed'
        PROVE  m \in heap /\ (m # Idle => kstack[m] /\ vm_space[m]) /\ id[m] < last_task_id
    BY <1>3, <2>1, <2>2, Zenon DEF TasksInv
  <2>4. ASSUME NEW m \in Listed', NEW k \in Listed', m # k PROVE id[m] # id[k]
    <3>1. CASE m = n
      BY <1>3, <2>2, <2>4, <3>1, Zenon
    <3>2. CASE k = n
      BY <1>3, <2>2, <2>4, <3>2, Zenon
    <3>3. QED BY <2>1, <2>2, <2>4, <3>1, <3>2, Zenon DEF TasksInv
  <2>5. QED BY <2>1, <2>2, <2>3, <2>4, Zenon DEF TasksInv
<1>14. CreateInv'
  <2>1. ASSUME NEW y \in Ctx
        PROVE  /\ ~ Creating(y)' /\ pc'[y] \notin {"struct", "stack", "space", "publish"}
               /\ pc'[y] \in {"idle", "create"} => ptr'[y] = None
               /\ pc'[y] \in {"check", "kill", "mark"} => ptr'[y] \in Slot
    BY <1>7, <1>8, <1>10, OwnState DEF Creating, Critical
  <2>2. QED BY <2>1 DEF CreateInv
<1>15. IrqInv'
  BY <1>1, <1>7, WhoRuns DEF IInv, IrqInv
<1>16. CurrentInv'
  <2>1. current \in Listed
    BY <1>1, WhoRuns
  <2>2. QED BY <1>1, <1>3, <1>5, <2>1 DEF IInv, CurrentInv
<1>17. PurgeInv' /\ TrailInv'
  BY <1>1, <1>5, WhoRuns, QuietParts, Zenon
<1>18. QED BY <1>5, <1>9, <1>11, <1>12, <1>13, <1>14, <1>15, <1>16, <1>17 DEF IInv

\* The failing path of task_create() gives everything back and unlocks.
LEMMA CleanupInv ==
  ASSUME IInv, NEW x \in Ctx, task_create_cleanup(x)
  PROVE  IInv'
<1> DEFINE n == ptr[x]
           K == {m \in heap : kstack[m]}
           V == {m \in heap : vm_space[m]}
<1>1. /\ Running(x) /\ pc[x] = "cleanup" /\ task_lock' = None
      /\ spaces' = IF n # None /\ vm_space[n] THEN spaces - 1 ELSE spaces
      /\ stacks' = IF n # None /\ kstack[n] THEN stacks - 1 ELSE stacks
      /\ heap' = heap \ {n}
      /\ pc' = [pc EXCEPT ![x] = "idle"]
      /\ arg' = [arg EXCEPT ![x] = 0]
      /\ ptr' = [ptr EXCEPT ![x] = None]
      /\ UNCHANGED <<state, id, kstack, vm_space, next, prev>>
      /\ UNCHANGED <<page_lock, last_task_id, current, isr, entry, tmp>>
  BY DEF task_create_cleanup, Destroy, Return, Goto, fields, links, handler
<1>2. TypeOK /\ stacks = Cardinality(K) /\ spaces = Cardinality(V)
  BY DEF IInv, ResourcesOwned
<1>3. IsFiniteSet(K) /\ IsFiniteSet(V)
  <2>1. K \in SUBSET Slot /\ V \in SUBSET Slot
    BY <1>2 DEF TypeOK
  <2>2. QED BY <2>1, SchedConstants, FS_Subset
<1>4. n = None \/ (n # None /\ n \in heap /\ n \notin Listed)
  BY <1>1, Zenon DEF IInv, CreateInv, Creating
<1>5. None \notin Slot /\ task_lock = x
  BY <1>1, SchedConstants, OwnState, Zenon DEF Critical, Node
<1>6. Listed' = Listed /\ OnList' = OnList
  BY <1>1, ListedSame
<1>7. ResourcesOwned' /\ stacks' \in Nat /\ spaces' \in Nat
  <2>1. {m \in heap' : kstack'[m]} = K \ {n} /\ {m \in heap' : vm_space'[m]} = V \ {n}
    BY <1>1
  <2>2. n \in K <=> (n # None /\ kstack[n])
    BY <1>2, <1>4, <1>5 DEF TypeOK
  <2>3. n \in V <=> (n # None /\ vm_space[n])
    BY <1>2, <1>4, <1>5 DEF TypeOK
  <2> HIDE DEF K, V
  <2>4. stacks' = Cardinality(K \ {n}) /\ stacks' \in Nat
    <3>1. Cardinality(K \ {n}) \in Nat
      BY <1>3, FS_CardinalityType, FS_RemoveElement, Zenon
    <3>2. CASE n \in K
      BY <1>1, <1>2, <1>3, <2>2, <3>1, <3>2, CountOne, Zenon
    <3>3. CASE n \notin K
      BY <1>1, <1>2, <1>3, <2>2, <3>1, <3>3, K \ {n} = K, Zenon
    <3>4. QED BY <3>2, <3>3
  <2>5. spaces' = Cardinality(V \ {n}) /\ spaces' \in Nat
    <3>1. Cardinality(V \ {n}) \in Nat
      BY <1>3, FS_CardinalityType, FS_RemoveElement, Zenon
    <3>2. CASE n \in V
      BY <1>1, <1>2, <1>3, <2>3, <3>1, <3>2, CountOne, Zenon
    <3>3. CASE n \notin V
      BY <1>1, <1>2, <1>3, <2>3, <3>1, <3>3, V \ {n} = V, Zenon
    <3>4. QED BY <3>2, <3>3
  <2>6. QED BY <2>1, <2>4, <2>5, Zenon DEF ResourcesOwned
<1>8. "idle" \in Labels /\ "idle" \notin Critical
  BY DEF Labels, Critical
<1>9. /\ pc' \in [Ctx -> Labels] /\ pc'[x] = "idle"
      /\ \A y \in Ctx \ {x} : pc'[y] = pc[y]
  BY <1>1, <1>8, LabelsAfter, Zenon
<1>10. /\ ptr'[x] = None /\ \A y \in Ctx \ {x} : ptr'[y] = ptr[y]
       /\ ptr' \in [Ctx -> Slot \cup {None}] /\ arg' \in [Ctx -> 0 .. MaxId - 1]
  BY <1>1, OwnState
<1>11. TypeOK'
  <2>1. heap' \subseteq Slot
    BY <1>1, <1>2, Zenon DEF TypeOK
  <2>2. QED BY <1>1, <1>2, <1>7, <1>9, <1>10, <2>1, Zenon DEF TypeOK, Labels, Critical
<1>12. ASSUME NEW y \in Ctx \ {x}
       PROVE  pc'[y] \notin Critical
  BY <1>5, <1>9, OnlyHolder
<1>13. CriticalSection'
  BY <1>1, <1>8, <1>9, <1>12, OwnState, Zenon DEF CriticalSection, Critical
<1>14. ListInv'
  BY <1>1, <1>6, Zenon DEF IInv, ListInv
<1>15. TasksInv'
  <2>1. Listed \subseteq Slot
    BY ListedByNext
  <2>2. Listed \subseteq heap'
    BY <1>1, <1>4, <1>5, <2>1, Zenon DEF IInv, TasksInv
  <2>3. QED BY <1>1, <1>6, <2>2 DEF IInv, TasksInv
<1>16. CreateInv'
  <2>1. ASSUME NEW y \in Ctx
        PROVE  /\ ~ Creating(y)' /\ pc'[y] \notin {"struct", "stack", "space", "publish"}
               /\ pc'[y] \in {"idle", "create"} => ptr'[y] = None
               /\ pc'[y] \in {"check", "kill", "mark"} => ptr'[y] \in Slot
    BY <1>9, <1>10, <1>12, OwnState DEF Creating, Critical
  <2>2. QED BY <2>1, Zenon DEF CreateInv
<1>17. IrqInv'
  BY <1>1, <1>9, WhoRuns DEF IInv, IrqInv
<1>18. CurrentInv'
  BY <1>1, <1>6, Zenon DEF IInv, CurrentInv
<1>19. PurgeInv' /\ TrailInv'
  BY <1>1, <1>6, WhoRuns, QuietParts, Zenon
<1>20. QED BY <1>7, <1>11, <1>13, <1>14, <1>15, <1>16, <1>17, <1>18, <1>19 DEF IInv

-----------------------------------------------------------------------------
(* Interrupts *)

\* A step of the handler that moves its cursors leaves the rest of the invariant
\* alone.
LEMMA HandlerStep ==
  ASSUME IInv,
         UNCHANGED <<fields, links, memory, locks, last_task_id, current, threads>>,
         isr' \in {"off", "kbd", "purge", "pick"}, entry' \in Node, tmp' \in Node
  PROVE  /\ TypeOK' /\ CriticalSection' /\ ResourcesOwned' /\ ListInv' /\ TasksInv'
         /\ CreateInv' /\ Listed' = Listed /\ OnList' = OnList
<1>1. /\ UNCHANGED <<state, id, kstack, vm_space, next, prev, heap, stacks, spaces>>
      /\ UNCHANGED <<task_lock, page_lock, last_task_id, current, pc, arg, ptr>>
  BY DEF fields, links, memory, locks, threads
<1>2. Listed' = Listed /\ OnList' = OnList
  BY <1>1, ListedSame
<1>3. TypeOK'
  BY <1>1, Zenon DEF IInv, TypeOK
<1>4. CriticalSection' /\ ResourcesOwned'
  BY <1>1 DEF IInv, CriticalSection, ResourcesOwned
<1>5. ListInv' /\ TasksInv'
  BY <1>1, <1>2, Zenon DEF IInv, ListInv, TasksInv
<1>6. CreateInv'
  BY <1>1, <1>2 DEF IInv, CreateInv, Creating
<1>7. QED BY <1>2, <1>3, <1>4, <1>5, <1>6

\* What the handler's steps use of the invariant.
LEMMA CursorState ==
  ASSUME IInv
  PROVE  /\ next \in [Node -> Node] /\ entry \in Node /\ tmp \in Node
         /\ current \in Slot /\ current \in Node /\ Head \in Node /\ Head \notin Slot
         /\ Listed \subseteq Slot /\ OnList \subseteq Node
         /\ \A n \in OnList : next[n] \in OnList
BY SchedConstants, ListedByNext, Zenon DEF IInv, TypeOK, Node, OnList, ListInv, Linked, Ring

\* A key arrives and the handler executes a shell command.
LEMMA KeyboardInv ==
  ASSUME IInv, NEW op \in IrqOps, keyboard_isr(op)
  PROVE  IInv'
<1>1. /\ isr = "off" /\ isr' = "kbd" /\ pc' = [pc EXCEPT ![Irq] = op]
      /\ UNCHANGED <<state, id, kstack, vm_space, next, prev, heap, stacks, spaces>>
      /\ UNCHANGED <<task_lock, page_lock, last_task_id, current, arg, ptr, entry, tmp>>
  BY DEF keyboard_isr, Goto, fields, links, memory, locks
<1>2. op \in {"create", "print"} /\ Irq \in Ctx
  BY SchedConstants DEF Ctx
<1>3. op \in Labels /\ op \notin Critical
  BY <1>2 DEF Labels, Critical
<1>4. /\ pc' \in [Ctx -> Labels] /\ pc'[Irq] = op
      /\ \A y \in Ctx \ {Irq} : pc'[y] = pc[y]
  BY <1>1, <1>2, <1>3, LabelsAfter, Zenon
<1>5. pc[Irq] = "idle" /\ ptr[Irq] = None /\ task_lock # Irq
  <2>1. pc[Irq] = "idle"
    BY <1>1 DEF IInv, IrqInv
  <2>2. QED BY <1>2, <2>1, OwnState DEF Critical
<1>6. Listed' = Listed /\ OnList' = OnList
  BY <1>1, ListedSame
<1>7. TypeOK'
  BY <1>1, <1>4 DEF IInv, TypeOK, Labels, Critical
<1>8. CriticalSection'
  BY <1>1, <1>3, <1>4, <1>5 DEF IInv, CriticalSection, Critical
<1>9. ResourcesOwned' /\ ListInv' /\ TasksInv'
  BY <1>1, <1>6 DEF IInv, ResourcesOwned, ListInv, TasksInv
<1>10. CreateInv'
  <2>1. ASSUME NEW y \in Ctx \ {Irq}
        PROVE  Creating(y)' <=> Creating(y)
    BY <1>1, <1>4 DEF Creating
  <2>2. ~ Creating(Irq)'
    BY <1>2, <1>4 DEF Creating
  <2>3. QED BY <1>1, <1>2, <1>4, <1>5, <1>6, <2>1, <2>2 DEF IInv, CreateInv
<1>11. IrqInv'
  BY <1>1 DEF IrqInv
<1>12. CurrentInv' /\ current' \in Listed'
  BY <1>1, <1>6 DEF IInv, CurrentInv
<1>13. PurgeInv' /\ TrailInv'
  BY <1>1, <1>12, QuietParts
<1>14. QED BY <1>7, <1>8, <1>9, <1>10, <1>11, <1>12, <1>13 DEF IInv

\* The keyboard handler returns, or the timer interrupt begins to purge.
LEMMA EnterLeaveInv ==
  ASSUME IInv, keyboard_return \/ timer_tick
  PROVE  IInv'
<1>1. UNCHANGED <<fields, links, memory, locks, last_task_id, current, threads>>
  BY DEF keyboard_return, timer_tick
<1>2. UNCHANGED <<state, next, current, pc>>
  BY <1>1 DEF fields, links, threads
<1>3. CASE keyboard_return
  <2>1. isr = "kbd" /\ isr' = "off" /\ pc[Irq] = "idle" /\ UNCHANGED <<entry, tmp>>
    BY <1>3 DEF keyboard_return
  <2>2. /\ TypeOK' /\ CriticalSection' /\ ResourcesOwned' /\ ListInv' /\ TasksInv'
        /\ CreateInv' /\ Listed' = Listed /\ OnList' = OnList
    BY <1>1, <2>1, CursorState, HandlerStep
  <2>3. IrqInv' /\ CurrentInv' /\ current' \in Listed'
    BY <1>2, <2>1, <2>2 DEF IInv, IrqInv, CurrentInv
  <2>4. PurgeInv' /\ TrailInv'
    BY <2>1, <2>3, QuietParts
  <2>5. QED BY <2>2, <2>3, <2>4 DEF IInv
<1>4. CASE timer_tick
  <2>1. isr = "off" /\ isr' = "purge" /\ entry' = next[Head] /\ tmp' = next[next[Head]]
    BY <1>4 DEF timer_tick
  <2>2. entry' \in OnList /\ entry' \in Node /\ tmp' \in Node
    BY <2>1, CursorState DEF OnList
  <2>3. /\ TypeOK' /\ CriticalSection' /\ ResourcesOwned' /\ ListInv' /\ TasksInv'
        /\ CreateInv' /\ Listed' = Listed /\ OnList' = OnList
    BY <1>1, <2>1, <2>2, HandlerStep
  <2>4. IrqInv' /\ CurrentInv'
    BY <1>2, <2>1, <2>3 DEF IInv, IrqInv, CurrentInv
  <2>5. PurgeInv'
    BY <1>2, <2>1, <2>2, <2>3 DEF PurgeInv
  <2>6. TrailInv'
    <3>1. current \in Listed
      BY <2>1 DEF IInv, CurrentInv
    <3>2. Leads({})'
      BY <1>2, <2>1, <2>3, <3>1 DEF Leads, OnList
    <3>3. QED BY <3>2 DEF TrailInv
  <2>7. QED BY <2>3, <2>4, <2>5, <2>6 DEF IInv
<1>5. QED BY <1>3, <1>4

\* The purge passes over a task; it ends; the scheduler passes over a node.
LEMMA CursorInv ==
  ASSUME IInv, purge_skip \/ pick_start \/ pick_skip
  PROVE  IInv'
<1>1. UNCHANGED <<fields, links, memory, locks, last_task_id, current, threads>>
  BY DEF purge_skip, pick_start, pick_skip
<1>2. UNCHANGED <<state, next, current, pc>>
  BY <1>1 DEF fields, links, threads
<1>3. PICK K \in SUBSET Slot : Leads(K)
  BY DEF IInv, TrailInv
<1>4. isr \in {"purge", "pick"} /\ isr' \in {"purge", "pick"}
  BY DEF purge_skip, pick_start, pick_skip
<1>5. entry' \in Node /\ tmp' \in Node
  BY CursorState DEF purge_skip, pick_start, pick_skip
<1>6. /\ TypeOK' /\ CriticalSection' /\ ResourcesOwned' /\ ListInv' /\ TasksInv'
      /\ CreateInv' /\ Listed' = Listed /\ OnList' = OnList
  BY <1>1, <1>4, <1>5, HandlerStep
<1>7. IrqInv' /\ CurrentInv'
  BY <1>2, <1>4, <1>6 DEF IInv, IrqInv, CurrentInv
<1>8. PurgeInv' /\ Leads(K)'
  <2>1. CASE purge_skip
    <3>1. isr = "purge" /\ isr' = "purge" /\ entry' = tmp /\ tmp' = next[tmp]
      BY <2>1 DEF purge_skip
    <3>2. PurgeInv'
      BY <1>2, <1>6, <3>1, CursorState, Zenon DEF IInv, PurgeInv
    <3>3. QED BY <1>2, <1>3, <1>6, <3>1, <3>2 DEF Leads
  <2>2. CASE pick_start
    <3>1. isr' = "pick" /\ entry' = next[current]
      BY <2>2 DEF pick_start
    <3>2. next[current] \in K \cup OnList
      BY <1>3, CursorState DEF Leads
    <3>3. QED BY <1>2, <1>3, <1>6, <3>1, <3>2 DEF Leads, PurgeInv
  <2>3. CASE pick_skip
    <3>1. isr = "pick" /\ isr' = "pick" /\ entry' = next[entry]
      BY <2>3 DEF pick_skip
    <3>2. next[entry] \in K \cup OnList
      BY <1>3, <3>1, CursorState DEF Leads
    <3>3. QED BY <1>2, <1>3, <1>6, <3>1, <3>2 DEF Leads, PurgeInv
  <2>4. QED BY <2>1, <2>2, <2>3
<1>9. QED BY <1>6, <1>7, <1>8 DEF IInv, TrailInv

\* task_purge() takes the task the purge is at off the list and frees it.
LEMMA PurgeTaskInv ==
  ASSUME IInv, task_purge
  PROVE  IInv'
<1>1. /\ isr = "purge" /\ entry # Head /\ state[entry] = "KILLED" /\ id[entry] # 0
      /\ task_lock = None /\ entry' = tmp /\ tmp' = next'[tmp]
      /\ UNCHANGED <<state, id, kstack, vm_space, task_lock, page_lock>>
      /\ UNCHANGED <<last_task_id, current, pc, arg, ptr, isr>>
  BY DEF task_purge, fields, locks, threads
<1>2. PICK t \in Listed :
         /\ id[t] = id[entry]
         /\ next' = [next EXCEPT ![prev[t]] = next[t]]
         /\ prev' = [prev EXCEPT ![next[t]] = prev[t]]
         /\ spaces' = IF t # None /\ vm_space[t] THEN spaces - 1 ELSE spaces
         /\ stacks' = IF t # None /\ kstack[t] THEN stacks - 1 ELSE stacks
         /\ heap' = heap \ {t}
  BY Zenon DEF task_purge, clist_delete_node, Destroy
<1>3. TypeOK /\ Linked(Listed, next, prev) /\ Listed \subseteq Slot /\ None \notin Slot
  BY SchedConstants, ListedByNext DEF IInv, ListInv, Node
<1>4. t = entry /\ t # Idle /\ t \in heap /\ t # None /\ kstack[t] /\ vm_space[t]
  <2>1. entry \in Listed
    BY <1>1 DEF IInv, PurgeInv, OnList
  <2>2. t = entry /\ t # Idle
    BY <1>1, <1>2, <2>1, Zenon DEF IInv, TasksInv
  <2>3. QED BY <1>3, <2>2 DEF IInv, TasksInv
<1>5. /\ prev[t] \in OnList \ {t} /\ next[t] \in OnList \ {t} /\ tmp = next[t]
  <2>1. prev[t] \in (Listed \cup {Head}) \ {t} /\ next[t] \in (Listed \cup {Head}) \ {t}
    BY <1>3, Neighbours, SchedConstants DEF Linked
  <2>2. QED BY <1>1, <1>4, <2>1, Zenon DEF IInv, PurgeInv, OnList
<1>6. /\ Listed' = Listed \ {t} /\ OnList' = OnList \ {t} /\ ListInv'
      /\ next' \in [Node -> Node] /\ prev' \in [Node -> Node]
      /\ \A n \in OnList' : next'[n] \in OnList'
  <2>1. Linked(Listed \ {t}, next', prev')
    BY <1>2, <1>3, RingDelete, SchedConstants, Zenon DEF Linked
  <2>2. t # Head
    BY <1>1, <1>4
  <2>3. Listed' = Listed \ {t} /\ OnList' = OnList \ {t} /\ ListInv'
    BY <2>1, <2>2, ListedAfter DEF OnList
  <2>4. QED BY <2>1, <2>3 DEF Linked, Ring, Node, OnList
<1>7. ResourcesOwned' /\ stacks' \in Nat /\ spaces' \in Nat
  <2> DEFINE K == {m \in heap : kstack[m]}
             V == {m \in heap : vm_space[m]}
  <2>1. K \in SUBSET Slot /\ V \in SUBSET Slot
    BY <1>3 DEF TypeOK
  <2>2. IsFiniteSet(K) /\ IsFiniteSet(V)
    BY <2>1, SchedConstants, FS_Subset
  <2>3. stacks = Cardinality(K) /\ spaces = Cardinality(V) /\ t \in K /\ t \in V
    BY <1>4 DEF IInv, ResourcesOwned
  <2>4. {m \in heap' : kstack'[m]} = K \ {t} /\ {m \in heap' : vm_space'[m]} = V \ {t}
    BY <1>1, <1>2, Zenon
  <2>5. stacks' = stacks - 1 /\ spaces' = spaces - 1
    BY <1>2, <1>4
  <2> HIDE DEF K, V
  <2>6. Cardinality(K \ {t}) \in Nat /\ Cardinality(V \ {t}) \in Nat
    BY <2>2, FS_CardinalityType, FS_RemoveElement, Zenon
  <2>7. stacks' = Cardinality(K \ {t}) /\ spaces' = Cardinality(V \ {t})
    BY <2>2, <2>3, <2>5, CountOne
  <2>8. QED BY <2>4, <2>6, <2>7, Zenon DEF ResourcesOwned
<1>8. tmp \in OnList' /\ entry' \in OnList'
  BY <1>1, <1>5, <1>6
<1>9. TypeOK'
  <2>1. heap' \subseteq Slot /\ entry' \in Node /\ tmp' \in Node
    BY <1>1, <1>2, <1>3, <1>6, Zenon DEF TypeOK
  <2>2. QED BY <1>1, <1>3, <1>6, <1>7, <2>1, Zenon DEF TypeOK
<1>10. CriticalSection' /\ IrqInv'
  BY <1>1, Zenon DEF IInv, CriticalSection, IrqInv
<1>11. TasksInv'
  BY <1>1, <1>2, <1>4, <1>6 DEF IInv, TasksInv
<1>12. CreateInv'
  <2>1. ASSUME NEW y \in Ctx
        PROVE  /\ ~ Creating(y)' /\ pc'[y] \notin {"struct", "stack", "space", "publish"}
               /\ pc'[y] \in {"idle", "create"} => ptr'[y] = None
               /\ pc'[y] \in {"check", "kill", "mark"} => ptr'[y] \in Slot
    <3>1. task_lock # y
      BY <1>1, OwnState
    <3>2. pc[y] \notin Critical
      BY <3>1, OnlyHolder
    <3>3. QED BY <1>1, <3>2, OwnState, Zenon DEF Creating, Critical
  <2>2. QED BY <2>1 DEF CreateInv
<1>13. CurrentInv'
  BY <1>1, <1>6, Zenon DEF IInv, CurrentInv
<1>14. PurgeInv'
  BY <1>1, <1>8 DEF PurgeInv
<1>15. TrailInv'
  <2>1. PICK K \in SUBSET Slot : Leads(K)
    BY DEF IInv, TrailInv
  <2>2. /\ t \in Slot /\ t \in Node /\ next \in [Node -> Node] /\ prev[t] \in Node
        /\ K \subseteq Node
    BY <1>3, <1>5, CursorState, Zenon DEF Node
  <2>3. \A n \in Node : next'[n] = next[n] \/ next'[n] = next[t]
    BY <1>2, <2>2, Zenon
  <2>4. next'[t] = next[t]
    BY <1>2, <1>5, <2>2
  <2>5. Leads(K \cup {t})'
    <3>1. current' \in (K \cup {t}) \cup OnList'
      BY <1>1, <1>6, <2>1, Zenon DEF Leads
    <3>2. ASSUME NEW n \in K \cup {t}
          PROVE  state'[n] = "KILLED" /\ next'[n] \in (K \cup {t}) \cup OnList'
      BY <1>1, <1>4, <1>5, <1>6, <2>1, <2>2, <2>3, <2>4, Zenon DEF Leads
    <3>3. QED BY <1>1, <3>1, <3>2, Zenon DEF Leads
  <2>6. QED BY <2>2, <2>5 DEF TrailInv
<1>16. QED BY <1>6, <1>7, <1>9, <1>10, <1>11, <1>12, <1>13, <1>14, <1>15 DEF IInv

\* The scheduler switches to a task that can run, which is on the list.
LEMMA SwitchInv ==
  ASSUME IInv, pick_switch
  PROVE  IInv'
<1>1. /\ isr = "pick" /\ state[entry] \in {"WAITING", "RUNNING"} /\ current' = entry
      /\ state' = [state EXCEPT ![current] = IF @ = "RUNNING" THEN "WAITING" ELSE @,
                                ![entry] = "RUNNING"]
      /\ isr' = "off" /\ entry' = Head /\ tmp' = Head
      /\ UNCHANGED <<id, kstack, vm_space, next, prev, heap, stacks, spaces>>
      /\ UNCHANGED <<task_lock, page_lock, last_task_id, pc, arg, ptr>>
  BY DEF pick_switch, Runnable, links, memory, locks, threads
<1>2. Listed' = Listed /\ OnList' = OnList
  BY <1>1, ListedSame
<1>3. entry \in Listed
  <2>1. PICK K \in SUBSET Slot : Leads(K)
    BY DEF IInv, TrailInv
  <2>2. entry \notin K
    BY <1>1, <2>1 DEF Leads
  <2>3. entry # Head
    BY <1>1 DEF IInv, CurrentInv
  <2>4. QED BY <1>1, <2>1, <2>2, <2>3 DEF Leads, OnList
<1>4. /\ entry \in Slot /\ entry \in Node /\ current \in Node /\ Head \in Node
      /\ Head # entry /\ Head # current /\ Listed \subseteq Node
      /\ state \in [Node -> {"INVALID", "RUNNING", "WAITING", "PAUSED", "KILLED"}]
  <2>1. state \in [Node -> {"INVALID", "RUNNING", "WAITING", "PAUSED", "KILLED"}]
    BY DEF IInv, TypeOK
  <2>2. QED BY <1>3, <2>1, CursorState DEF Node
<1>5. /\ state'[entry] = "RUNNING"
      /\ current # entry => state'[current] \in {"WAITING", "KILLED"}
      /\ \A n \in Node \ {entry, current} : state'[n] = state[n]
      /\ state' \in [Node -> {"INVALID", "RUNNING", "WAITING", "PAUSED", "KILLED"}]
  <2>1. state[current] \in {"RUNNING", "KILLED"}
    BY DEF IInv, CurrentInv
  <2>2. QED BY <1>1, <1>4, <2>1
<1>6. TypeOK'
  BY <1>1, <1>4, <1>5, Zenon DEF IInv, TypeOK
<1>7. CriticalSection' /\ ResourcesOwned' /\ ListInv' /\ TasksInv' /\ IrqInv'
  BY <1>1, <1>2 DEF IInv, CriticalSection, ResourcesOwned, ListInv, TasksInv, IrqInv
<1>8. CreateInv'
  <2>1. \A n \in Node \ {entry} : state[n] # "RUNNING" => state'[n] # "RUNNING"
    BY <1>5
  <2>2. \A y \in Ctx : Creating(y)' <=> Creating(y)
    BY <1>1 DEF Creating
  <2>3. heap \subseteq Node
    BY Zenon DEF IInv, TypeOK, Node
  <2>4. QED BY <1>1, <1>2, <1>3, <2>1, <2>2, <2>3, Zenon DEF IInv, CreateInv
<1>9. CurrentInv'
  BY <1>1, <1>2, <1>3, <1>4, <1>5 DEF IInv, CurrentInv
<1>10. PurgeInv' /\ TrailInv'
  BY <1>1, <1>2, <1>3, QuietParts
<1>11. QED BY <1>6, <1>7, <1>8, <1>9, <1>10 DEF IInv

-----------------------------------------------------------------------------

\* The invariant holds when task_init() is done: the list holds the idle task.
LEMMA InitInv == Init => IInv
<1> SUFFICES ASSUME Init PROVE IInv
  OBVIOUS
<1>1. /\ Idle \in Slot /\ Idle \in Node /\ Head \in Node /\ Head \notin Slot
      /\ Idle # Head /\ None \notin Slot /\ Slot \subseteq Node
      /\ MaxId \in Nat \ {0}
  BY SchedConstants DEF Node
<1>2. /\ next \in [Node -> Node] /\ prev = next
      /\ next[Head] = Idle /\ next[Idle] = Head
  BY <1>1 DEF Init
<1>3. Listed = {Idle} /\ ListInv
  <2>1. Encloses({Idle}, next, next[Head], Head)
    BY <1>2 DEF Encloses
  <2>2. \A S \in SUBSET Slot : Encloses(S, next, next[Head], Head) => {Idle} \subseteq S
    BY <1>1, <1>2 DEF Encloses
  <2>3. {Idle} = Circle(Slot, Head, next)
    <3>1. {Idle} \in SUBSET Slot
      BY <1>1
    <3>2. QED BY <2>1, <2>2, <3>1 DEF Circle
  <2>4. Listed = {Idle}
    BY <1>2, <2>3, ListedIsCircle, ListedByNext
  <2>5. Linked({Idle}, next, prev)
    BY <1>2, <2>3 DEF Linked, Ring, Node
  <2>6. QED BY <2>4, <2>5 DEF ListInv
<1>4. TypeOK
  <2>1. /\ id \in [Slot -> 0 .. MaxId - 1] /\ arg \in [Ctx -> 0 .. MaxId - 1]
        /\ last_task_id \in 1 .. MaxId /\ stacks \in Nat /\ spaces \in Nat
    BY <1>1 DEF Init
  <2>2. kstack \in [Slot -> BOOLEAN] /\ vm_space \in [Slot -> BOOLEAN]
    BY DEF Init
  <2>3. QED BY <1>1, <1>2, <2>1, <2>2 DEF Init, TypeOK
<1>5. CriticalSection /\ IrqInv
  BY SchedConstants, Zenon DEF Init, CriticalSection, IrqInv, Ctx, Node
<1>6. ResourcesOwned
  <2>1. {n \in heap : kstack[n]} = {}
    BY <1>1 DEF Init
  <2>2. {n \in heap : vm_space[n]} = {Idle}
    BY <1>1, Zenon DEF Init
  <2>3. stacks = 0 /\ spaces = 1
    BY DEF Init
  <2>4. QED BY <2>1, <2>2, <2>3, FS_EmptySet, FS_Singleton, Zenon DEF ResourcesOwned
<1>7. TasksInv
  BY <1>1, <1>3 DEF Init, TasksInv
<1>8. CreateInv
  BY DEF Init, CreateInv, Creating
<1>9. CurrentInv /\ PurgeInv
  BY <1>1, <1>3 DEF Init, CurrentInv, PurgeInv
<1>10. TrailInv
  <2>1. Leads({})
    BY <1>3 DEF Init, Leads, OnList
  <2>2. QED BY <2>1 DEF TrailInv
<1>11. QED BY <1>3, <1>4, <1>5, <1>6, <1>7, <1>8, <1>9, <1>10 DEF IInv

\* Every step keeps the invariant.
LEMMA NextInv == IInv /\ [Next]_vars => IInv'
<1> SUFFICES ASSUME IInv, [Next]_vars PROVE IInv'
  OBVIOUS
<1>1. CASE UNCHANGED vars
  <2>1. /\ UNCHANGED <<state, id, kstack, vm_space, next, prev, heap, stacks, spaces>>
        /\ UNCHANGED <<task_lock, page_lock, last_task_id, current, pc, arg, ptr>>
        /\ UNCHANGED <<isr, entry, tmp>>
    BY <1>1 DEF vars
  <2>2. /\ TypeOK' /\ CriticalSection' /\ ResourcesOwned' /\ ListInv' /\ TasksInv'
        /\ CreateInv' /\ Listed' = Listed /\ OnList' = OnList
    <3>1. UNCHANGED <<fields, links, memory, locks, last_task_id, current, threads>>
      BY <2>1 DEF fields, links, memory, locks, threads
    <3>2. isr \in {"off", "kbd", "purge", "pick"} /\ entry \in Node /\ tmp \in Node
      BY DEF IInv, TypeOK
    <3>3. QED BY <2>1, <3>1, <3>2, HandlerStep
  <2>3. IrqInv' /\ CurrentInv' /\ PurgeInv' /\ TrailInv'
    BY <2>1, <2>2 DEF IInv, IrqInv, CurrentInv, PurgeInv, TrailInv, Leads
  <2>4. QED BY <2>2, <2>3 DEF IInv
<1>2. ASSUME NEW x \in Ctx, Step(x) PROVE IInv'
  BY <1>2, LockInv, LookInv, MarkInv, AllocStructInv, ResourceInv, PublishInv, CleanupInv
     DEF Step
<1>3. CASE Handler
  BY <1>3, EnterLeaveInv, CursorInv, PurgeTaskInv, SwitchInv DEF Handler
<1>4. QED BY <1>1, <1>2, <1>3, CallInv, KeyboardInv, EnterLeaveInv DEF Next

\* The inductive invariant holds in every reachable state.
THEOREM Invariance == Spec => []IInv
BY InitInv, NextInv, PTL DEF Spec

\* Every variable always has the type of the C object it stands for; in particular
\* no pointer of the list or of the scheduler's cursors leaves the task structs and
\* the head.
THEOREM TypeCorrect == Spec => []TypeOK
<1>1. IInv => TypeOK
  BY DEF IInv
<1>2. QED BY <1>1, Invariance, PTL

\* task_lock is held exactly between lock() and unlock(): tasks, the keyboard
\* handler and the scheduler exclude each other there.
THEOREM Exclusion == Spec => []CriticalSection
<1>1. IInv => CriticalSection
  BY DEF IInv
<1>2. QED BY <1>1, Invariance, PTL

\* No kernel stack and no address space is lost or freed twice, on the failing
\* paths of task_create() and by task_purge().
THEOREM ResourcesAccounted == Spec => []ResourcesOwned
<1>1. IInv => ResourcesOwned
  BY DEF IInv
<1>2. QED BY <1>1, Invariance, PTL

\* The task list is a circle linked both ways of allocated, complete tasks with
\* different IDs, whatever is created, killed and purged in whatever order; and
\* the scheduler, which follows pointers left in freed memory, always gives the CPU
\* to a task of the list.
THEOREM ListSurvives == Spec => []ListIntact
<1>1. IInv => ListIntact
  <2> SUFFICES ASSUME IInv PROVE ListIntact
    OBVIOUS
  <2>1. \A n \in Listed \cup {Head} :
           next[n] \in Listed \cup {Head} /\ prev[next[n]] = n
    BY DEF IInv, ListInv, Linked, Ring
  <2>2. QED BY <2>1 DEF IInv, TasksInv, CurrentInv, ListIntact
<1>2. QED BY <1>1, Invariance, PTL

=============================================================================
