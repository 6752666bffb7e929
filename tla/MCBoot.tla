------------------------------- MODULE MCBoot -------------------------------
(* A small instance of Boot for TLC, with the pure operators of Strings and *)
(* Lists checked over bounded inputs before the machine is switched on.     *)
EXTENDS Boot

CONSTANT MaxAddr  \* bound: the end of memory

\* Starts are rounded up and ends down: those on a page boundary, and the ones
\* that are rounded furthest
Starts == {a \in 1 .. MaxAddr : a % PAGE_SIZE \in {0, 1}}
Ends == {a \in 1 .. MaxAddr : a % PAGE_SIZE \in {0, PAGE_SIZE - 1}}

\* The entries of memory maps, that one left out.  The kernel registers available
\* memory only, and none that begins at address 0.
AvailableMap ==
  {<<s, e, t>> \in Starts \X Ends \X {AVAILABLE} : s < e /\ ~MissedEntry(s, e)}

\* The loader's map: around the kernel, behind it, reserved, elsewhere, and past
\* the last 32-bit address with an end that is cut to nothing or to something
LoaderMap ==
  {<<4, 30, AVAILABLE>>, <<14, 31, AVAILABLE>>, <<4, 30, RESERVED>>, <<1, 8, AVAILABLE>>,
   <<1, ADDR_LIMIT + 8, AVAILABLE>>, <<5, ADDR_LIMIT + 29, AVAILABLE>>}

SomeRequests == {<<1, 1>>, <<PAGE_SIZE, 2>>}

\* The texts, a character or two each: "S", "\fO\v\n", "\rF\v\n", "U%s", "B", "A\n"
Status == <<83>>
Okay == <<12, 79, 11, 10>>
Fail == <<13, 70, 11, 10>>
UnknownText == <<85, 37, 115>>
BuiltText == <<66>>
AppleSays == <<65, 10>>
Prompt == <<62>>
Panics == <<<<0, <<33>>, <<>>>>, <<2, <<69, 37, 115>>, <<<<109>>>>>>>>

\* One letter stands for a command's name
Commands == [kt |-> <<107>>, fstype |-> <<102>>, clear |-> <<99>>, build |-> <<98>>]
Letters == {107, 102, 99, 98}

-----------------------------------------------------------------------------

Piece(f, a, o) == [fmt |-> f, args |-> a, out |-> o]

Pieces == {
  Piece(<<55>>, <<>>, <<55>>),                           \* "7"
  Piece(<<37, 37>>, <<>>, <<37>>),                       \* "%%"
  Piece(<<37, 100>>, <<-5>>, <<45, 53>>),                \* "%d"
  Piece(<<37, 51, 117>>, <<42>>, <<48, 52, 50>>),        \* "%3u"
  Piece(<<37, 120>>, <<171>>, <<97, 98>>),               \* "%x"
  Piece(<<37, 50, 99>>, <<90>>, <<48, 90>>),             \* "%2c"
  Piece(<<37, 115>>, <<<<>>>>, <<>>),                    \* "%s"
  Piece(<<37, 49, 115>>, <<<<37, 100>>>>, <<37, 100>>)}  \* "%1s"

Buffers == [1 .. 3 -> {0, 65}] \cup [1 .. 5 -> {0, 65}]
Texts == BoundedSeq({65, 66}, 3)

\* The number conversions give the numeral of every number of a word and read it
\* back (INT_MIN, whose digits come out negative, is left out), udivmod64()
\* divides while its shifted remainder fits, string copies and comparisons do
\* what their names say, and a format prints its pieces one by one.
StringsExact ==
  phase = "off" =>
    /\ NumbersExact({1, 2, 3, 10, 2^(WORD - 1) - 1, 2^(WORD - 1)})
    /\ BuffersExact(Buffers, Texts)
    /\ FormatsExact(Pieces)

\* Each operation of list.h turns the links of a list into the links of the list
\* it should make: every list of up to four nodes, every place in it.
ListOpsFaithful == phase = "off" => ListsExact(1 .. 4)

=============================================================================
