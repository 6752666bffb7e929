-------------------------------- MODULE MCVm --------------------------------
(* Instances of Vm for TLC *)
EXTENDS Vm, TLC

FiveFrames == 1 .. 5

\* The lowest frames.  Free frames differ in nothing, so that one choice stands
\* for all of them.
Lowest(F, n) ==
  {P \in {{f \in F : Cardinality({g \in F : g <= f}) <= n}} : Cardinality(P) = n}

\* A whole table and the first page of the next
ThreePages == 0 .. 2

\* Across the two tables
SomeRanges == {<<1, 3>>}

\* The spaces are interchangeable
Alike == Permutations(Space)

\* From inside the first table to inside the second; within one table
SomeCopies == {<<1, 3>>, <<2, 2>>}

NoUser == {}

AllUser == Space

\* Uncleared memory: every entry looks present
Garbage == {[i \in Pte |-> [frame |-> 1, writable |-> TRUE]]}

=============================================================================
