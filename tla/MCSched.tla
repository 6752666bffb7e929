------------------------------- MODULE MCSched -------------------------------
(* Small instances of Sched for TLC. *)
EXTENDS Sched

CONSTANTS idle, s1, s2

TwoSlots   == {idle, s1}
ThreeSlots == {idle, s1, s2}

LifeOps    == {"create", "kill", "exit", "page"}
CreateOps  == {"create", "print"}
ExitOps    == {"create", "exit"}
ShellOps   == {"create"}
NoOps      == {}

=============================================================================
