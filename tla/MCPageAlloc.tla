----------------------------- MODULE MCPageAlloc -----------------------------
(* Small instances of PageAlloc for TLC. *)
EXTENDS PageAlloc

CONSTANTS c1, c2

TwoCtx == {c1, c2}
OneCtx == {c1}

\* frames 0 to 2 are reserved, frame 0 belongs to the kernel image
HoleUsable == 3 .. PageCount - 1
KernelPages == {0}
AllUsable == 0 .. PageCount - 1
NoPages == {}

\* the memory behind the page area: anything, or zeroes
AnyOrder == -1 .. ORDER_MAX
ZeroWord == {0}

=============================================================================
