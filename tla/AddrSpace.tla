------------------------------ MODULE AddrSpace ------------------------------
(***************************************************************************)
(* What page tables and address spaces promise: each space is a flat map   *)
(* from virtual pages to frames.  An operation on one space leaves every   *)
(* other space alone, never replaces a translation that is in use, and     *)
(* lets a space see a frame only if nobody else saw it, if the caller owns *)
(* it, or if another space shares it at the same address.                  *)
(***************************************************************************)
CONSTANTS
  Space,  \* address spaces
  VPage,  \* virtual pages of user memory
  Frame,  \* page frames
  None    \* no translation

VARIABLES
  alive,  \* the spaces that exist
  xlate,  \* xlate[s][v]: the frame behind page v of space s, or None
  owned   \* frames that kernel code holds for itself

Nothing == [v \in VPage |-> None]

Init ==
  /\ alive = {}
  /\ xlate = [s \in Space |-> Nothing]
  /\ owned = {}

Seen(x, f) == \E s \in Space, v \in VPage : x[s][v] = f

\* With the translations x, a space may come to see frame f at v
Justified(x, v, f) == f \in owned \/ ~Seen(x, f) \/ \E r \in Space : x[r][v] = f

OthersKept(s, x, y) == \A r \in Space \ {s} : y[r] = x[r]

Create(s) ==
  /\ s \notin alive
  /\ alive' = alive \cup {s}
  /\ UNCHANGED <<xlate, owned>>

Destroy(s) ==
  /\ s \in alive
  /\ alive' = alive \ {s}
  /\ xlate' = [xlate EXCEPT ![s] = Nothing]
  /\ UNCHANGED owned

\* Pages without a translation get one
Extend(s) ==
  LET x == xlate
      y == xlate'
  IN
  /\ s \in alive
  /\ OthersKept(s, x, y)
  /\ \A v \in VPage : y[s][v] = x[s][v] \/ (x[s][v] = None /\ Justified(x, v, y[s][v]))
  /\ owned' \subseteq owned
  /\ UNCHANGED alive

\* Translations are removed; their frames may go to the caller
Remove(s) ==
  LET x == xlate
      y == xlate'
  IN
  /\ s \in alive
  /\ OthersKept(s, x, y)
  /\ \A v \in VPage : y[s][v] \in {x[s][v], None}
  /\ owned \subseteq owned'
  /\ \A f \in owned' \ owned : \E v \in VPage : x[s][v] = f
  /\ UNCHANGED alive

Take(f) ==
  /\ ~Seen(xlate, f)
  /\ owned' = owned \cup {f}
  /\ UNCHANGED <<alive, xlate>>

Release(f) ==
  /\ owned' = owned \ {f}
  /\ UNCHANGED <<alive, xlate>>

Next ==
  \/ \E s \in Space : Create(s) \/ Destroy(s) \/ Extend(s) \/ Remove(s)
  \/ \E f \in Frame : Take(f) \/ Release(f)

Spec == Init /\ [][Next]_<<alive, xlate, owned>>

=============================================================================
