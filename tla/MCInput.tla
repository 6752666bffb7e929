------------------------------- MODULE MCInput -------------------------------
(* Instances of Input for TLC *)
EXTENDS Input

\* A line of the slave
OneDevice == {14}

\* Invalid opcode, and a page fault: the end of the one is sent to the master, that
\* of the other to both controllers
SomeExceptions == {6, 14}

\* k, t, Enter, Backspace, and Enter released: enough for a command that creates a task
SomeCodes == {37, 20, 28, 14, 156}

=============================================================================
