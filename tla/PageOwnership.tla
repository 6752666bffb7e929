---------------------------- MODULE PageOwnership ----------------------------
(***************************************************************************)
(* What the page allocator promises: frames enter a pool once, at boot;    *)
(* after that a run of frames is either in the pool or with exactly one    *)
(* holder, it is granted whole and it comes back whole.                    *)
(***************************************************************************)
CONSTANTS
  Frames,  \* the usable page frames
  Runs     \* the runs of frames that can be granted: aligned, 2^order long

VARIABLES
  pool,  \* frames that can be granted
  held   \* the runs granted and not returned

Held == UNION held

Init == pool = {} /\ held = {}

\* bootmem hands a frame to the allocator, once
Release(p) ==
  /\ p \notin pool \cup Held
  /\ pool' = pool \cup {p}
  /\ UNCHANGED held

Grant(r) ==
  /\ r \subseteq pool
  /\ pool' = pool \ r
  /\ held' = held \cup {r}

Return(r) ==
  /\ r \in held
  /\ pool' = pool \cup r
  /\ held' = held \ {r}

Next ==
  \/ \E p \in Frames : Release(p)
  \/ \E r \in Runs : Grant(r) \/ Return(r)

Spec == Init /\ [][Next]_<<pool, held>>

=============================================================================
