------------------------------- MODULE MCSlab -------------------------------
(* Small instances of Slab for TLC. *)
EXTENDS Slab

CONSTANTS c1, c2

OneCtx == {c1}
TwoCtx == {c1, c2}

TwoSizes == <<1, 2>>
OneSize  == <<1>>

OneBlock    == {1}
ThreeBlocks == {1, 2, 3}

=============================================================================
