-------------------------------- MODULE Lists --------------------------------
(***************************************************************************)
(* The linked lists of include/rotary/list.h.  A heap is a record of two   *)
(* functions, the next and the prev pointer of every node; an operation is *)
(* the heap it leaves behind, its stores made in the order of the code.    *)
(***************************************************************************)
EXTENDS Integers, Sequences, FiniteSets, SequencesExt

CONSTANT NULL

Heaps(Node) == [next : [Node -> Node \cup {NULL}], prev : [Node -> Node \cup {NULL}]]

-----------------------------------------------------------------------------
(* Circular lists *)

clist_init(h, first) ==
  IF first = NULL THEN h ELSE [h EXCEPT !.next[first] = first, !.prev[first] = first]

clist_add(h, head, new) ==
  LET old == h.next[head]
      g == IF old # NULL THEN [h EXCEPT !.prev[old] = new] ELSE h
  IN  [g EXCEPT !.next[new] = old, !.prev[new] = head, !.next[head] = new]

clist_add_before(h, ref, new) ==
  IF ref = NULL \/ new = NULL THEN h
  ELSE LET before == h.prev[ref]
       IN  [h EXCEPT !.next[new] = ref, !.prev[new] = before, !.prev[ref] = new,
                     !.next[before] = new]

clist_add_after(h, ref, new) ==
  IF ref = NULL \/ new = NULL THEN h
  ELSE LET after == h.next[ref]
       IN  [h EXCEPT !.next[new] = after, !.prev[new] = ref, !.next[ref] = new,
                     !.prev[after] = new]

\* Mutant: only the forward link is taken out
DeleteForwardOnly(h, node) ==
  IF node = NULL THEN h ELSE [h EXCEPT !.next[h.prev[node]] = h.next[node]]

\* The node keeps its own pointers, so a walk that stands on it can go on
clist_delete_node(h, node) ==
  IF node = NULL THEN h
  ELSE [h EXCEPT !.next[h.prev[node]] = h.next[node], !.prev[h.next[node]] = h.prev[node]]

-----------------------------------------------------------------------------
(* Linear lists *)

llist_init(h, first) ==
  IF first = NULL THEN h ELSE [h EXCEPT !.next[first] = NULL, !.prev[first] = NULL]

llist_add(h, head, new) ==
  LET old == h.next[head]
      g == IF old # NULL THEN [h EXCEPT !.prev[old] = new] ELSE h
  IN  [g EXCEPT !.next[new] = old, !.prev[new] = head, !.next[head] = new]

llist_add_before(h, ref, new) ==
  IF ref = NULL \/ new = NULL THEN h
  ELSE LET before == h.prev[ref]
           g == [h EXCEPT !.next[new] = ref, !.prev[new] = before]
           f == IF before # NULL THEN [g EXCEPT !.next[before] = new] ELSE g
       IN  [f EXCEPT !.prev[ref] = new]

llist_add_after(h, ref, new) ==
  IF ref = NULL \/ new = NULL THEN h
  ELSE LET after == h.next[ref]
           g == [h EXCEPT !.next[new] = after, !.prev[new] = ref]
           f == IF after # NULL THEN [g EXCEPT !.prev[after] = new] ELSE g
       IN  [f EXCEPT !.next[ref] = new]

llist_delete_node(h, node) ==
  IF node = NULL THEN h
  ELSE LET before == h.prev[node]
           after == h.next[node]
           g == IF before # NULL THEN [h EXCEPT !.next[before] = after] ELSE h
       IN  IF after # NULL THEN [g EXCEPT !.prev[after] = before] ELSE g

\* The walk of llist_length and llist_get_last
Chain(h, start) ==
  LET From[k \in Nat, n \in DOMAIN h.next \cup {NULL}] ==
        IF n = NULL \/ k = 0 THEN <<>> ELSE <<n>> \o From[k - 1, h.next[n]]
  IN  From[Cardinality(DOMAIN h.next), start]

llist_length(h, start) == Len(Chain(h, start))

llist_get_last(h, start) == Last(Chain(h, start))

\* An empty list has no node to look from
llist_add_end(h, ref, new) ==
  IF new = NULL THEN h
  ELSE IF ref = NULL THEN llist_init(h, new)
  ELSE llist_add_after(h, llist_get_last(h, ref), new)

-----------------------------------------------------------------------------
(* What the lists are for *)

\* s is the circular list from its first element round, read both ways
Circular(h, s) ==
  \A k \in DOMAIN s :
    LET follower == s[IF k = Len(s) THEN 1 ELSE k + 1]
    IN  h.next[s[k]] = follower /\ h.prev[follower] = s[k]

\* s is the linear list, read both ways
Linear(h, s) ==
  s # <<>> =>
    /\ h.prev[s[1]] = NULL
    /\ h.next[Last(s)] = NULL
    /\ \A k \in 1 .. Len(s) - 1 : h.next[s[k]] = s[k + 1] /\ h.prev[s[k + 1]] = s[k]

\* A heap that holds the circular or the linear list s, every other pointer
\* being the stale one
CircularHeap(Node, s, stale) ==
  [next |-> [n \in Node |-> IF n \notin Range(s) THEN stale
                            ELSE LET k == CHOOSE j \in DOMAIN s : s[j] = n
                                 IN  s[IF k = Len(s) THEN 1 ELSE k + 1]],
   prev |-> [n \in Node |-> IF n \notin Range(s) THEN stale
                            ELSE LET k == CHOOSE j \in DOMAIN s : s[j] = n
                                 IN  s[IF k = 1 THEN Len(s) ELSE k - 1]]]

LinearHeap(Node, s, stale) ==
  LET c == CircularHeap(Node, s, stale)
  IN  IF s = <<>> THEN c
      ELSE [c EXCEPT !.prev[s[1]] = NULL, !.next[Last(s)] = NULL]

\* Every operation on the links of a list leaves the links of the list it is
\* meant to make, for every list of distinct nodes and whatever the pointers of
\* the other nodes hold.
ListsExact(Node) ==
  \A s \in SetToAllKPermutations(Node), stale \in Node \cup {NULL} :
    LET c == CircularHeap(Node, s, stale)
        l == LinearHeap(Node, s, stale)
    IN
    /\ Linear(l, s) /\ (s # <<>> => Circular(c, s) /\ llist_get_last(l, s[1]) = Last(s))
    /\ \A k \in DOMAIN s :
         /\ Circular(clist_delete_node(c, s[k]), RemoveAt(s, k))
         /\ Linear(llist_delete_node(l, s[k]), RemoveAt(s, k))
         /\ llist_length(l, s[k]) = Len(s) + 1 - k
    /\ \A new \in Node \ Range(s) :
         /\ Circular(clist_init(c, new), <<new>>)
         /\ Linear(llist_add_end(l, NULL, new), <<new>>)
         /\ \A k \in DOMAIN s :
              /\ Circular(clist_add(c, s[k], new), InsertAt(s, k + 1, new))
              /\ Circular(clist_add_after(c, s[k], new), InsertAt(s, k + 1, new))
              /\ Circular(clist_add_before(c, s[k], new), InsertAt(s, k, new))
              /\ Linear(llist_add(l, s[k], new), InsertAt(s, k + 1, new))
              /\ Linear(llist_add_after(l, s[k], new), InsertAt(s, k + 1, new))
              /\ Linear(llist_add_before(l, s[k], new), InsertAt(s, k, new))
              /\ Linear(llist_add_end(l, s[k], new), Append(s, new))

=============================================================================
