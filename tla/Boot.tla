--------------------------------- MODULE Boot ---------------------------------
(***************************************************************************)
(* arch_init() of arch/x86/kernel/init.c from the boot loader to the       *)
(* kernel shell: the memory map is parsed (multiboot.c) and turned into    *)
(* free pages (Bootmem), the terminal and the root file system are set up  *)
(* (Vfs), and the shell of kernel/core/shell.c runs on the screen          *)
(* (Console), its keyboard handler interrupting whatever prints.           *)
(*                                                                         *)
(* "loader" tells who registers memory: multiboot_parse(), or other code   *)
(* (the unit tests, another port), which is not bound to its filter and    *)
(* goes no further than bootmem_mark_free().                               *)
(***************************************************************************)
EXTENDS Bootmem, Vfs, Console

CONSTANTS
  MmapEntries,   \* entries of the loader's map: <<addr, addr + len, type>>, 64 bits wide
  KmapTables,    \* page tables that paging_init() takes from bootmem
  Keys,          \* the characters typed
  MaxKeys,       \* bound: key presses
  Command,       \* what is typed for "kt", "fstype", "clear" and "build"
  StatusLine, OK_STR, FAIL_STR, UnknownCommand, KernelBuilt, AppleText  \* texts

ASSUME BootConstants ==
  /\ MmapEntries \subseteq Nat \X Nat \X {RESERVED, AVAILABLE}
  /\ KmapTables \in Nat \ {0} /\ MaxKeys \in Nat
  /\ Keys \subseteq 1 .. 255

VARIABLES
  loader,         \* "multiboot" or "other"
  vga,            \* the screen and vga_state
  input_buffer,   \* the line typed
  shell,          \* where shell_init() is
  apple,          \* the printk() of the task "kt" starts: [text, at]
  command_at,     \* where the fstype command is
  typed,          \* key presses so far
  torn,           \* a key was echoed amid a character of a task, since the last Enter
  untouched       \* since the prompt, only the line has been written to the screen

shellVars == <<input_buffer, shell, apple, command_at, typed, torn, untouched>>
vars == <<bootmemVars, phase, vfsVars, vga, loader, shellVars>>

Idle == [text |-> <<>>, at |-> "test"]

Init ==
  /\ BootmemInit /\ VfsInit
  /\ phase = "off"
  /\ loader \in {"multiboot", "other"}
  /\ vga = vga_state0
  /\ input_buffer = <<>>
  /\ shell = "new"
  /\ apple = Idle
  /\ command_at = "none"
  /\ typed = 0
  /\ torn = FALSE
  /\ untouched = FALSE

-----------------------------------------------------------------------------
(* arch_init(): what a step reports on the screen.  The steps that change  *)
(* nothing modelled here (cpuid_init() after the parser, cpu_init() to      *)
(* task_init() before the terminals) report like the one they follow.       *)

Finished(v, ok) == printk(v, IF ok THEN OK_STR ELSE FAIL_STR, <<>>)
Started(v) == printk(v, StatusLine, <<>>)

\* A step ends and the next one begins, or the kernel stops
Report ==
  vga' = CASE phase' = phase \/ loader = "other" -> vga
           [] phase' # phase /\ phase' = "panic" /\ loader = "multiboot" -> kernel_panic(vga)
           [] OTHER -> Started(Finished(vga, TRUE))

\* The screen, the serial ports, and the check of the loader's magic number;
\* arch_init() returns E_ERROR without it
power_on(magic) ==
  LET v == Started(Finished(Started(
             vga_set_cursor(vga_clear_screen(vga), 0, VGA_HEIGHT - 2)), TRUE))
  IN
  /\ phase = "off"
  /\ IF loader = "other" THEN phase' = "map" /\ UNCHANGED vga
     ELSE IF magic THEN phase' = "map" /\ vga' = v
     ELSE phase' = "error" /\ vga' = Finished(v, FALSE)
  /\ UNCHANGED <<bootmemVars, vfsVars, loader, shellVars>>

-----------------------------------------------------------------------------
(* multiboot_parse() *)

\* The entry that holds the end of the kernel; sums have 64 bits
Appropriate(r) ==
  r[1] <= KERNEL_PHYS_END /\ r[2] >= KERNEL_PHYS_END /\ r[3] = AVAILABLE

\* The addresses are cut to 32 bits, the type is the entry's; an entry that is
\* not appropriate is only logged
mmap_entry(r) ==
  /\ loader = "multiboot"
  /\ Appropriate(r)
  /\ register(r, r[1] % ADDR_LIMIT, r[2] % ADDR_LIMIT, AVAILABLE)
  /\ UNCHANGED <<vfsVars, vga, loader, shellVars>>

add_region(r) ==
  /\ loader = "other"
  /\ register(r, r[1], r[2], r[3])
  /\ UNCHANGED <<vfsVars, vga, loader, shellVars>>

-----------------------------------------------------------------------------
(* paging_init(), buddy_init(), bootmem_mark_free() *)

\* paging_setup_kernel_pgd(): a page for each table, or a panic
kmap_table ==
  /\ phase = "paging"
  /\ loader = "multiboot"
  /\ Cardinality(allocs) < KmapTables
  /\ IF Possible(PAGE_SIZE, PAGE_SIZE)
       THEN bootmem_alloc(PAGE_SIZE, PAGE_SIZE) /\ UNCHANGED phase
       ELSE phase' = "panic" /\ UNCHANGED <<mem_regions, allocs>>
  /\ UNCHANGED <<region_count, highest_pfn, i, first_page, map, freed>>

other_alloc == loader = "other" /\ \E q \in Requests : early_alloc(q[1], q[2])

after_paging ==
  /\ loader = "multiboot" => Cardinality(allocs) = KmapTables
  /\ buddy_init

memory_call ==
  \/ paging_start
  \/ kmap_table
  \/ after_paging
  \/ mark_free_start
  \/ mark_free_page
  \/ mark_free_next
  \/ mark_free_done

memory_step ==
  /\ memory_call
  /\ Report
  /\ UNCHANGED <<vfsVars, loader, shellVars>>

\* Only the tests use these
test_step ==
  /\ loader = "other"
  /\ other_alloc \/ bootmem_reset
  /\ UNCHANGED <<vfsVars, vga, loader, shellVars>>

-----------------------------------------------------------------------------
(* tty_init(), mount_root_testing(), task_create("shell") *)

\* Address 0 is not mapped in the kernel's page directory: where tty_create()
\* writes to NULL the fault is not resolved and comes back for ever
start_tty(memory) ==
  /\ phase = "done" /\ loader = "multiboot"
  /\ tty_init(memory)
  /\ phase' = IF memory THEN "root" ELSE "fault"
  /\ vga' = IF memory THEN Started(Finished(vga, TRUE)) ELSE vga
  /\ UNCHANGED <<bootmemVars, loader, shellVars>>

\* The root is mounted without a report, and the shell's task is created
start_root(memory) ==
  /\ phase = "root"
  /\ \E panic \in BOOLEAN :
       /\ mount_root_testing(memory, panic)
       /\ phase' = IF panic THEN "panic" ELSE "shell"
       /\ vga' = IF panic THEN kernel_panic(vga) ELSE vga
  /\ UNCHANGED <<bootmemVars, loader, shellVars>>

-----------------------------------------------------------------------------
(* Tasks that print.  A character of apple() takes three steps: room for it *)
(* on the line, its cell, and the cursor; everything else one step.         *)

MidCharacter == apple.at # "test"

\* No interrupt handler runs
TaskLevel == phase = "shell" /\ command_at = "none"

\* The scroll of shell_init(), the keyboard handler, the prompt's two calls
shell_init ==
  /\ TaskLevel
  /\ \/ /\ shell = "new"
        /\ shell' = "scrolled"
        /\ vga' = vga_scroll_up(vga, 1, TOP_LINE)
        /\ UNCHANGED untouched
     \/ /\ shell = "scrolled"
        /\ shell' = "registered"
        /\ UNCHANGED <<vga, untouched>>
     \/ /\ shell = "registered"
        /\ shell' = "written"
        /\ vga' = vga_overwrite_line(vga, shell_prompt, VGA_HEIGHT - 1)
        /\ untouched' = FALSE
     \/ /\ shell = "written"
        /\ shell' = "spins"
        /\ vga' = vga_set_cursor(vga, Len(shell_prompt), VGA_HEIGHT - 1)
        /\ untouched' = (typed = 0)
  /\ UNCHANGED <<bootmemVars, phase, vfsVars, loader, input_buffer, apple, command_at,
                 typed, torn>>

apple_print ==
  LET c == Head(apple.text) IN
  /\ TaskLevel
  /\ apple.text # <<>>
  /\ \/ /\ apple.at = "test" /\ ~Visible(c)
        /\ vga' = vga_print_char_at_cursor(vga, c)
        /\ apple' = [apple EXCEPT !.text = Tail(@)]
     \/ /\ apple.at = "test" /\ Visible(c)
        /\ vga' = BeforeChar(vga)
        /\ apple' = [apple EXCEPT !.at = "store"]
     \/ /\ apple.at = "store"
        /\ vga' = vga_set_character(vga, c, vga.x, vga.y)
        /\ apple' = [apple EXCEPT !.at = "count"]
     \/ /\ apple.at = "count"
        /\ vga' = [vga EXCEPT !.x = @ + 1]
        /\ apple' = [text |-> Tail(apple.text), at |-> "test"]
  /\ untouched' = FALSE
  /\ UNCHANGED <<bootmemVars, phase, vfsVars, loader, input_buffer, shell, command_at,
                 typed, torn>>

-----------------------------------------------------------------------------
(* shell_keyboard_handler(), with interrupts off *)

KeyArrives ==
  /\ TaskLevel
  /\ shell \in {"registered", "written", "spins"}
  /\ typed < MaxKeys
  /\ typed' = typed + 1
  /\ UNCHANGED <<bootmemVars, phase, loader, shell>>

\* A character: strcat() and its echo.  A full line makes the screen scroll.
key_char(key) ==
  /\ KeyArrives
  /\ input_buffer' = input_buffer \o <<key>>
  /\ vga' = vga_print_char_at_cursor(vga, key)
  /\ untouched' = (untouched /\ vga.x < VGA_WIDTH)
  /\ torn' = (torn \/ MidCharacter)
  /\ UNCHANGED <<vfsVars, apple, command_at>>

\* shell_delete_from_input_buffer(); on an empty line the byte before the
\* buffer is cleared, and the prompt loses a character
key_backspace ==
  /\ KeyArrives
  /\ input_buffer' = IF input_buffer = <<>> THEN <<>> ELSE Front(input_buffer)
  /\ vga' = vga_delete_char_at_cursor(vga)
  /\ untouched' = (untouched /\ input_buffer # <<>>)
  /\ torn' = (torn \/ MidCharacter)
  /\ UNCHANGED <<vfsVars, apple, command_at>>

\* What Enter does first
Submitted == NewLine(vga)

Is(name) == strcmp(input_buffer, Command[name]) = 0

\* shell_process_command() of the commands that write to the screen or to no
\* registry; those it does not know, and those that do not return, end with the
\* message of an unknown command
ClearFrom == TOP_LINE + 1

ClearLines(v) ==
  FoldLeft(vga_clear_line, v, [k \in 1 .. VGA_HEIGHT - ClearFrom |-> ClearFrom + k - 1])

Unknown(v) == vga_printf(v, UnknownCommand, <<input_buffer>>)

shell_process_command(v) ==
  CASE Is("kt") -> v
    [] Is("clear") -> ClearLines(v)
    [] Is("build") -> vga_printf(v, KernelBuilt, <<>>)
    [] OTHER -> Unknown(v)

\* The end of the handler: the buffer is cleared, the prompt is printed
Prompted(v) ==
  /\ input_buffer' = <<>>
  /\ vga' = shell_print_prompt(v)
  /\ untouched' = TRUE
  /\ torn' = FALSE

\* "kt" creates the task that prints; bound: one that has not finished
key_enter ==
  /\ KeyArrives
  /\ ~Is("fstype")
  /\ Is("kt") => apple = Idle
  /\ apple' = IF Is("kt") THEN [text |-> AppleText, at |-> "test"] ELSE apple
  /\ Prompted(shell_process_command(Submitted))
  /\ UNCHANGED <<vfsVars, command_at>>

\* The fstype command: it registers the object on its stack, finds it,
\* unregisters it, looks for it again, and goes on to the unknown commands
key_enter_fstype ==
  /\ KeyArrives
  /\ Is("fstype")
  /\ vga' = Submitted
  /\ fstype_register
  /\ command_at' = "registered"
  /\ untouched' = FALSE
  /\ UNCHANGED <<input_buffer, apple, torn>>

fstype_remove ==
  /\ command_at = "registered"
  /\ fstype_unregister
  /\ command_at' = "unregistered"
  /\ UNCHANGED <<bootmemVars, phase, vga, loader, input_buffer, shell, apple, typed, torn,
                 untouched>>

fstype_return ==
  /\ command_at = "unregistered"
  /\ command_at' = "none"
  /\ Prompted(shell_process_command(vga))
  /\ UNCHANGED <<bootmemVars, phase, vfsVars, loader, shell, apple, typed>>

-----------------------------------------------------------------------------

Next ==
  \/ \E magic \in BOOLEAN : power_on(magic)
  \/ \E r \in MmapEntries : mmap_entry(r)
  \/ \E r \in Regions : add_region(r)
  \/ memory_step
  \/ test_step
  \/ \E memory \in BOOLEAN : start_tty(memory)
  \/ \E memory \in BOOLEAN : start_root(memory)
  \/ shell_init
  \/ apple_print
  \/ \E key \in Keys : key_char(key)
  \/ key_backspace
  \/ key_enter
  \/ key_enter_fstype
  \/ fstype_remove
  \/ fstype_return

Spec == Init /\ [][Next]_vars

Phases == {"off", "map", "paging", "alloc", "free", "done", "root", "shell", "panic",
           "error", "fault"}

\* The processor carries on with arch_init(), with shell_init() (its task keeps
\* getting its turn, module Sched) and with the handler in progress.  Each is
\* told by the variable that says where it is: only its own steps move that.
FairSpec ==
  /\ Spec
  /\ WF_<<bootmemVars, phase>>(memory_call)
  /\ WF_phase(/\ phase \in {"off", "root"} \/ (phase = "done" /\ loader = "multiboot")
              /\ phase' \in Phases \ {phase})
  /\ WF_shell(/\ TaskLevel /\ shell # "spins"
              /\ shell' \in {"scrolled", "registered", "written", "spins"} \ {shell})
  /\ WF_command_at(/\ command_at # "none"
                   /\ command_at' \in {"unregistered", "none"} \ {command_at})

-----------------------------------------------------------------------------
(* Properties *)

Stopped == {"panic", "error", "fault"}

\* Every variable has the type of the C object it stands for, and bootmem's
\* count never passes the size of its array.
TypeOK ==
  /\ BootmemTypeOK
  /\ phase \in Phases
  /\ loader \in {"multiboot", "other"}
  /\ links \in Heaps(Node) /\ registered \in Seq(Node) /\ root_sb \in Node \cup {NULL}
  /\ vga \in [lines : Seq(Seq(0 .. 255)), x : Nat, y : Nat]
  /\ input_buffer \in Seq(Keys)
  /\ shell \in {"new", "scrolled", "registered", "written", "spins"}
  /\ apple \in [text : Seq(0 .. 255), at : {"test", "store", "count"}]
  /\ command_at \in {"none", "registered", "unregistered"}
  /\ typed \in 0 .. MaxKeys
  /\ torn \in BOOLEAN /\ untouched \in BOOLEAN

\* Booting ends: with other code all memory is released; with multiboot the
\* shell prompts, or the kernel has stopped with a panic, an error or a fault.
BootEnds ==
  phase = "alloc" ~>
    IF loader = "other" THEN phase = "done"
    ELSE phase \in Stopped \/ (phase = "shell" /\ shell = "spins")

\* Walked either way from its head, the list of file system types holds what was
\* registered and not unregistered by name, the last registered first; the object
\* on the stack of the fstype command is not on it once the command has returned,
\* not even after the command was used again; lookups find a type while it is
\* registered and not after; the root file system stays registered, and its
\* super block is of its type.  The terminal hangs off its own list head.
RegistryFaithful ==
  /\ Circular(links, <<"fs_list_head">> \o registered)
  /\ command_at = "none" => "fs_type" \notin Range(Entries(links))
  /\ (file_system_type_get(links, "test123") = "fs_type") <=> (command_at = "registered")
  /\ phase = "shell" =>
       /\ file_system_type_get(links, "testfs") = "testfs_type"
       /\ root_sb = "testfs_type"
       /\ Linear(links, <<"tty_list_head", "tty">>)

\* Unless a key was echoed in the middle of a task's character since the last
\* Enter, the cursor is on the screen or just behind the end of its line, so no
\* character is stored outside video memory; vga_print_char_at_cursor() tests
\* the column for equality only, and print_lock is commented out.
CursorOnScreen ==
  ~torn => vga.x <= VGA_WIDTH /\ vga.y < VGA_HEIGHT

\* While only the line is being typed, and it fits, the last line of the screen
\* shows the prompt, exactly the bytes shell_process_command() will be given, and
\* blanks, with the cursor behind them.
EchoFaithful ==
  untouched =>
    LET shown == shell_prompt \o input_buffer IN
    /\ vga.lines[VGA_HEIGHT]
         = shown \o [k \in 1 .. VGA_WIDTH - Len(shown) |-> Space]
    /\ vga.x = Len(shown) /\ vga.y = VGA_HEIGHT - 1

=============================================================================
