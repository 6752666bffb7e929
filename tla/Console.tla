------------------------------- MODULE Console -------------------------------
(***************************************************************************)
(* The text screen: arch/x86/kernel/vga.c, vga_printf() and printk(), and  *)
(* the panic screen.  An operation is the screen it leaves; colours and    *)
(* the hardware cursor are left out.                                       *)
(***************************************************************************)
EXTENDS Strings

CONSTANTS
  VGA_WIDTH, VGA_HEIGHT,  \* 80, 25
  TOP_LINE,               \* 3: the first line that scrolls
  shell_prompt,           \* "shell> "
  PanicLines              \* the lines of the panic screen: <<y, format, arguments>>

ASSUME ConsoleConstants ==
  /\ VGA_WIDTH \in Nat /\ VGA_HEIGHT \in Nat /\ TOP_LINE \in 1 .. VGA_HEIGHT - 2
  /\ Len(shell_prompt) \in 1 .. VGA_WIDTH - 1

Newline == 10
Space == 32
\* '\f', '\r' and '\v' choose the colour
ColourCodes == {12, 13, 11}

BlankLine == [x \in 1 .. VGA_WIDTH |-> Space]

\* The screen when the kernel starts, what the loader left shown as blanks.  Line
\* y and column x are lines[y + 1][x + 1].
vga_state0 == [lines |-> [y \in 1 .. VGA_HEIGHT |-> BlankLine], x |-> 0, y |-> TOP_LINE]

\* Video memory has no lines: a column past the width is a cell of a line below,
\* and what lies past the last cell is not shown
vga_set_character(v, c, x, y) ==
  LET p == y * VGA_WIDTH + x
  IN  IF p >= VGA_WIDTH * VGA_HEIGHT THEN v
      ELSE [v EXCEPT !.lines[(p \div VGA_WIDTH) + 1][(p % VGA_WIDTH) + 1] = c]

vga_set_cursor(v, x, y) == [v EXCEPT !.x = x, !.y = y]

vga_clear_line(v, line) == [v EXCEPT !.lines[line + 1] = BlankLine]

vga_clear_screen(v) == [v EXCEPT !.lines = vga_state0.lines]

\* Each time, every line from the top one on moves up by one, over the line
\* before the top one, and the last line is cleared
vga_scroll_up(v, line_count, top_line) ==
  LET After[k \in 0 .. line_count] ==
        IF k = 0 THEN v.lines
        ELSE LET lines == After[k - 1]
             IN  SubSeq(lines, 1, top_line - 1) \o SubSeq(lines, top_line + 1, VGA_HEIGHT)
                   \o <<BlankLine>>
  IN  [v EXCEPT !.lines = After[line_count]]

\* A new line: back to the first column; the cursor stays on its line, the
\* screen moves
NewLine(v) == [vga_scroll_up(v, 1, TOP_LINE) EXCEPT !.x = 0]

\* Mutant: the line is taken for full one column late
BeforeCharLate(v) == IF v.x = VGA_WIDTH + 1 THEN NewLine(v) ELSE v

\* Room for the next character on the cursor's line
BeforeChar(v) == IF v.x = VGA_WIDTH THEN NewLine(v) ELSE v

\* Whether a character takes a cell
Visible(c) == c # Newline /\ c \notin ColourCodes

vga_print_char_at_cursor(v, c) ==
  CASE c = Newline -> NewLine(v)
    [] c \in ColourCodes -> v
    [] Visible(c) ->
         LET u == BeforeChar(v)
         IN  [vga_set_character(u, c, u.x, u.y) EXCEPT !.x = @ + 1]

\* Mutant: the cursor does not go back
DeleteKeepsCursor(v) ==
  IF v.x = 0 THEN v ELSE vga_set_character(v, Space, v.x - 1, v.y)

vga_delete_char_at_cursor(v) ==
  IF v.x = 0 THEN v
  ELSE [vga_set_character(v, Space, v.x - 1, v.y) EXCEPT !.x = @ - 1]

vga_write(v, string) ==
  FoldLeft(vga_print_char_at_cursor, v, SubSeq(string, 1, strlen(string)))

vga_overwrite_line(v, string, y) ==
  LET Set(u, k) == vga_set_character(u, string[k], k - 1, y)
  IN  FoldLeft(Set, vga_clear_line(v, y), [k \in 1 .. strlen(string) |-> k])

vga_printf(v, fmt_str, args) == vga_write(v, sprintf(fmt_str, args))

vga_printf_pos(v, x, y, fmt_str, args) ==
  vga_write(vga_set_cursor(v, x, y), sprintf(fmt_str, args))

\* printk() at LOG_INFO: _printk() copies the formatted message, and has
\* vga_printf() format the copy once more
printk(v, fmt_str, args) ==
  LET message == sprintf(fmt_str, args)
  IN  vga_printf(v, SubSeq(message, 1, strlen(message)), <<>>)

\* kernel_panic()
kernel_panic(v) ==
  LET PrintLine(u, l) == vga_printf_pos(u, 0, l[1], l[2], l[3])
  IN  FoldLeft(PrintLine, vga_clear_screen(v), PanicLines)

shell_print_prompt(v) ==
  vga_set_cursor(vga_overwrite_line(v, shell_prompt, VGA_HEIGHT - 1),
                 Len(shell_prompt), VGA_HEIGHT - 1)

=============================================================================
