-------------------------------- MODULE Input --------------------------------
(***************************************************************************)
(* From a key to a command: the interrupt controller                       *)
(* (arch/x86/kernel/pic8259.c), the dispatch of interrupts (isr.asm,       *)
(* interrupts.c), the keyboard driver and the line buffer of the kernel    *)
(* shell, with timer interrupts that switch tasks inside the dispatch.     *)
(*                                                                         *)
(* Which task the timer picks is left open here, Sched has the choice.     *)
(* Keys and characters are the bytes of the code.                          *)
(***************************************************************************)
EXTENDS Integers, Sequences, FiniteSets, SequencesExt

CONSTANTS
  Task,            \* the tasks there may be
  Idle, Shell,     \* two of them: the boot task and the one that runs shell_init()
  Device,          \* interrupt lines of devices without a driver
  Exception,       \* exceptions that tasks raise, the page fault among them
  Code,            \* scan codes the keyboard sends
  MAX_INTERRUPT_HANDLERS,
  MaxKeys          \* bound: scan codes sent; below the 256 bytes of the buffer

PIT == 0
KEYBOARD == 1
Cascade == 2   \* the line of the master to which the slave is connected
Master == 0 .. 7
Slave == 8 .. 15
PIC_MASTER_OFFSET == 32
Exceptions == 0 .. 31
INT_SYSCALL == 64

\* Interrupts with a handler; registered before the first task is created
interrupt_handlers == {PIC_MASTER_OFFSET + PIT, PIC_MASTER_OFFSET + KEYBOARD}

ASSUME InputConstants ==
  /\ IsFiniteSet(Task) /\ {Idle, Shell} \subseteq Task /\ Idle # Shell
  /\ Device \subseteq (Master \cup Slave) \ {PIT, KEYBOARD, Cascade}
  /\ Exception \subseteq Exceptions
  /\ Code \subseteq 1 .. 255
  /\ MAX_INTERRUPT_HANDLERS \in Nat \ {0}
  /\ MaxKeys \in 0 .. 254

VARIABLES
  irr,        \* interrupt requests that wait in the controllers
  isr,        \* interrupts in service
  eflags_if,  \* the CPU's interrupt flag
  at,         \* the CPU: "task", in isr_handler(): "enter", "call", "end", or "syscall"
  int_num,    \* registers->int_num of the interrupt in progress
  current,    \* the task on the CPU
  thread,     \* the others: "none", "new", or "isr" (switched away in the timer)
  fifo,       \* scan codes in the keyboard, the first one at the port
  keyboard_event_handlers,
  line,       \* input_buffer of the shell, up to its '\0'
  heard       \* history: what the driver passed to the shell

pic == <<irr, isr>>
cpu == <<eflags_if, at, int_num, current, thread>>
shell == <<line, heard>>
vars == <<irr, isr, eflags_if, at, int_num, current, thread, fifo, keyboard_event_handlers,
          line, heard>>

-----------------------------------------------------------------------------
(* The controllers, two cascaded 8259 in fully nested mode *)

\* Lines by falling priority: those of the slave stand at line 2 of the master
Rank(i) == IF i \in Slave THEN Cascade ELSE i

Before(i, j) == Rank(i) < Rank(j) \/ ({i, j} \subseteq Slave /\ i < j)

Highest(S) == {i \in S : \A j \in S \ {i} : Before(i, j)}

\* The request that the CPU is told of
Delivered == {i \in Highest(irr) : \A j \in isr : Before(i, j)}

InService(i) == IF i \in Slave THEN {i, Cascade} ELSE {i}

\* Mutant: the end of a slave's interrupt is not sent to the master
EoiOnce(n, S) ==
  IF n >= 8 THEN S \ Highest(S \cap Slave) ELSE S \ Highest(S \cap Master)

\* What pic_send_eoi() leaves in service of S.  It compares the interrupt number,
\* not the line, with 8, so that the slave is sent nearly every end of interrupt.
pic_send_eoi(n, S) ==
  S \ (Highest(S \cap Master) \cup IF n >= 8 THEN Highest(S \cap Slave) ELSE {})

-----------------------------------------------------------------------------

Init ==
  /\ irr = {} /\ isr = {}
  /\ eflags_if = TRUE
  /\ at = "task" /\ int_num = 0
  /\ current = Idle
  /\ thread = [t \in Task |-> IF t = Shell THEN "new" ELSE "none"]
  /\ fifo = <<>>
  /\ keyboard_event_handlers = [k \in 1 .. MAX_INTERRUPT_HANDLERS |-> "NULL"]
  /\ line = <<>> /\ heard = <<>>

(* The devices *)

tick ==
  /\ PIT \notin irr
  /\ irr' = irr \cup {PIT}
  /\ UNCHANGED <<isr, cpu, fifo, keyboard_event_handlers, shell>>

device(i) ==
  /\ i \notin irr
  /\ irr' = irr \cup {i}
  /\ UNCHANGED <<isr, cpu, fifo, keyboard_event_handlers, shell>>

press(c) ==
  /\ Len(heard) + Len(fifo) < MaxKeys
  /\ fifo' = Append(fifo, c)
  /\ irr' = IF fifo = <<>> THEN irr \cup {KEYBOARD} ELSE irr
  /\ UNCHANGED <<isr, cpu, keyboard_event_handlers, shell>>

-----------------------------------------------------------------------------
(* Entering isr_handler() and syscall_handler() *)

\* idt_init(): the lowest privilege that may use a gate by an instruction
idt == [n \in Exceptions \cup (32 .. 47) \cup {INT_SYSCALL} |->
          IF n = INT_SYSCALL THEN "user" ELSE "kernel"]

\* Mutant: a trap gate
TrapGate == eflags_if

\* All are interrupt gates (set_idt_gate()), and isr_dispatch starts with cli
Gate == FALSE

accept(i) ==
  /\ eflags_if /\ at = "task"
  /\ i \in Delivered
  /\ irr' = irr \ {i}
  /\ isr' = isr \cup InService(i)
  /\ eflags_if' = Gate
  /\ at' = "enter"
  /\ int_num' = PIC_MASTER_OFFSET + i
  /\ UNCHANGED <<current, thread, fifo, keyboard_event_handlers, shell>>

\* A fault or trap of the running task, as when it touches a page it does not have
exception(n) ==
  /\ at = "task"
  /\ n \in DOMAIN idt
  /\ eflags_if' = Gate
  /\ at' = "enter"
  /\ int_num' = n
  /\ UNCHANGED <<pic, current, thread, fifo, keyboard_event_handlers, shell>>

\* A user task's int $0x40 (user/syscall.h), through isr64
syscall ==
  /\ at = "task" /\ current \notin {Idle, Shell}
  /\ idt[INT_SYSCALL] = "user"
  /\ eflags_if' = Gate
  /\ at' = "syscall"
  /\ UNCHANGED <<pic, int_num, current, thread, fifo, keyboard_event_handlers, shell>>

\* Every call is only logged; no interrupt is in service, so none is ended
syscall_handler ==
  /\ at = "syscall"
  /\ at' = "task"
  /\ eflags_if' = TRUE
  /\ UNCHANGED <<pic, int_num, current, thread, fifo, keyboard_event_handlers, shell>>

\* Mutant: the timer's end of interrupt only at the end
NoEarlyEoi(S) == S

\* Sent at once for the timer, whose handler may not come back for long
EarlyEoi(S) ==
  IF int_num = PIC_MASTER_OFFSET + PIT THEN pic_send_eoi(int_num, S) ELSE S

isr_enter ==
  /\ at = "enter"
  /\ isr' = EarlyEoi(isr)
  /\ at' = "call"
  /\ UNCHANGED <<irr, eflags_if, int_num, current, thread, fifo, keyboard_event_handlers, shell>>

-----------------------------------------------------------------------------
(* timer_tick(), task_schedule(), task_context_switch() *)

\* What arch_task_create() leaves on the stack of a new task: it starts at isr_exit,
\* which returns from an interrupt that never was.
NewContext == [at |-> "task", eflags_if |-> TRUE, int_num |-> 0]

\* The next task goes on where its own timer interrupt called the scheduler
timer_tick(t) ==
  /\ at = "call" /\ int_num = PIC_MASTER_OFFSET + PIT
  /\ \/ t = current /\ at' = "end" /\ UNCHANGED <<eflags_if, int_num, current, thread>>
     \/ /\ t # current /\ thread[t] # "none"
        /\ current' = t
        /\ thread' = [thread EXCEPT ![current] = "isr", ![t] = "none"]
        /\ IF thread[t] = "new"
             THEN /\ at' = NewContext.at
                  /\ eflags_if' = NewContext.eflags_if
                  /\ int_num' = NewContext.int_num
             ELSE at' = "end" /\ UNCHANGED <<eflags_if, int_num>>
  /\ UNCHANGED <<pic, fifo, keyboard_event_handlers, shell>>

-----------------------------------------------------------------------------
(* Keyboard and shell *)

KEY_ENTER == 28
KEY_BACKSPACE == 14

\* ASCII for the scan codes 1 to 60: digits, three rows of letters, and the keys
\* that the code passes on as they are
Ascii == <<
  0, 2, 50, 51, 52, 53, 54, 55, 56, 57, 48, 45, 61, 14, 15,
  113, 119, 101, 114, 116, 121, 117, 105, 111, 112, 91, 93, 28, 29,
  97, 115, 100, 102, 103, 104, 106, 107, 108, 59, 39, 96, 42, 92,
  122, 120, 99, 118, 98, 110, 109, 44, 46, 47, 54, 42, 56, 32, 58, 59, 60>>

\* Also for the codes of keys that are released
keyboard_translate_scan_code(c) == IF c \in DOMAIN Ascii THEN Ascii[c] ELSE 0

\* "kt" and "ut" create a task; other commands print or run tests
CreatesTask(command) == command \in {<<107, 116>>, <<117, 116>>}

shell_process_command(command) ==
  \/ /\ CreatesTask(command)
     /\ \E t \in Task \ {current} :
          thread[t] = "none" /\ thread' = [thread EXCEPT ![t] = "new"]
  \/ ~CreatesTask(command) /\ UNCHANGED thread

shell_clear_input_buffer == line' = <<>>

\* Mutant: backspace takes the first character
DeleteFirst == line' = IF line = <<>> THEN <<>> ELSE Tail(line)

\* On an empty line the code stores a '\0' before the buffer; the line stays empty
shell_delete_from_input_buffer ==
  line' = IF line = <<>> THEN <<>> ELSE Front(line)

shell_keyboard_handler(key) ==
  \/ key = KEY_ENTER /\ shell_process_command(line) /\ shell_clear_input_buffer
  \/ key = KEY_BACKSPACE /\ shell_delete_from_input_buffer /\ UNCHANGED thread
  \/ /\ key \notin {KEY_ENTER, KEY_BACKSPACE}
     /\ line' = IF key = 0 THEN line ELSE Append(line, key)
     /\ UNCHANGED thread

Registered == \E k \in DOMAIN keyboard_event_handlers : keyboard_event_handlers[k] # "NULL"

\* x86_driver_keyboard_isr(), keyboard_handle_input().  Reading the port lets the
\* keyboard send the next code.
keyboard_isr ==
  /\ at = "call" /\ int_num = PIC_MASTER_OFFSET + KEYBOARD
  /\ fifo' = Tail(fifo)
  /\ irr' = IF Len(fifo) > 1 THEN irr \cup {KEYBOARD} ELSE irr
  /\ LET key == keyboard_translate_scan_code(Head(fifo)) IN
     \/ /\ Registered
        /\ shell_keyboard_handler(key)
        /\ heard' = Append(heard, key)
     \/ ~Registered /\ UNCHANGED <<shell, thread>>
  /\ at' = "end"
  /\ UNCHANGED <<isr, eflags_if, int_num, current, keyboard_event_handlers>>

\* The first free entry; with none the caller is told of a success
keyboard_register_handler(h) ==
  LET free == {k \in DOMAIN keyboard_event_handlers : keyboard_event_handlers[k] = "NULL"} IN
  keyboard_event_handlers' =
    IF free = {} THEN keyboard_event_handlers
    ELSE [keyboard_event_handlers EXCEPT ![Min(free)] = h]

\* Once, by the task of the shell, which then spins
shell_init ==
  /\ at = "task" /\ current = Shell
  /\ ~Registered
  /\ keyboard_register_handler("shell")
  /\ UNCHANGED <<pic, cpu, fifo, shell>>

\* No handler is registered.  A page fault is resolved (see Vm), other exceptions are
\* printed; after one of those the task meets it again.
no_handler ==
  /\ at = "call"
  /\ int_num \notin interrupt_handlers
  /\ at' = "end"
  /\ UNCHANGED <<pic, eflags_if, int_num, current, thread, fifo, keyboard_event_handlers, shell>>

\* The end of isr_handler(), and isr_exit
isr_exit ==
  /\ at = "end"
  /\ isr' = pic_send_eoi(int_num, isr)
  /\ at' = "task"
  /\ eflags_if' = TRUE
  /\ int_num' = 0
  /\ UNCHANGED <<irr, current, thread, fifo, keyboard_event_handlers, shell>>

-----------------------------------------------------------------------------

Handler ==
  isr_enter \/ (\E t \in Task : timer_tick(t)) \/ keyboard_isr \/ no_handler \/ isr_exit
    \/ syscall_handler

Next ==
  \/ tick
  \/ \E i \in Device : device(i)
  \/ \E c \in Code : press(c)
  \/ \E i \in Master \cup Slave : accept(i)
  \/ \E n \in Exception : exception(n)
  \/ syscall
  \/ syscall_handler
  \/ shell_init
  \/ isr_enter
  \/ \E t \in Task : timer_tick(t)
  \/ keyboard_isr
  \/ no_handler
  \/ isr_exit

Spec == Init /\ [][Next]_vars

\* A handler runs on, and the CPU takes a request that it is told of again and again.
FairSpec ==
  /\ Spec
  /\ WF_vars(Handler)
  /\ \A i \in {PIT, KEYBOARD} : SF_vars(accept(i))

-----------------------------------------------------------------------------
(* Properties *)

\* Every variable has its type; interrupts are off exactly while isr_handler() or
\* syscall_handler() runs, so that a handler is never entered twice.
TypeOK ==
  /\ irr \subseteq Master \cup Slave
  /\ isr \subseteq Master \cup Slave
  /\ at \in {"task", "enter", "call", "end", "syscall"}
  /\ eflags_if = (at = "task")
  /\ int_num \in 0 .. 255
  /\ current \in Task
  /\ thread \in [Task -> {"none", "new", "isr"}]
  /\ thread[current] = "none"
  /\ fifo \in Seq(1 .. 255)
  /\ line \in Seq(1 .. 255)

\* While a task runs no interrupt is in service: whatever mixture of ticks, keys,
\* exceptions, system calls, switches to old tasks and first runs of new ones came
\* before, each end of interrupt reached the controller it was meant for, and none is
\* missing.
NothingInService == at = "task" => isr = {}

\* The keys of the present line: those after the last Enter
Recent == {i \in DOMAIN heard : \A j \in i .. Len(heard) : heard[j] # KEY_ENTER}

Typed(i) == heard[i] \notin {0, KEY_BACKSPACE}

\* A key is kept if at no time later there were more deletions than new keys
Kept(i) ==
  /\ Typed(i)
  /\ \A j \in i + 1 .. Len(heard) :
       Cardinality({k \in i + 1 .. j : heard[k] = KEY_BACKSPACE})
         <= Cardinality({k \in i + 1 .. j : Typed(k)})

\* input_buffer holds the keys since the last Enter that were not deleted again, each
\* once and in the order in which they were typed.
LineFaithful ==
  LET keep == {i \in Recent : Kept(i)} IN
  /\ Len(line) = Cardinality(keep)
  /\ \A i \in keep : line[Cardinality({j \in keep : j <= i})] = heard[i]

\* Time and again a task runs and no tick waits: the timer's period is longer than
\* its handler takes.  Without this its higher priority keeps the keyboard out.
TicksLeaveTime == []<>(at = "task" /\ PIT \notin irr)

\* If ticks leave time, reading does not stop while the keyboard holds keys, however
\* long the typing goes on: no request is lost while another interrupt is in service
\* or while the keyboard's own handler runs.
KeysRead ==
  TicksLeaveTime => []<>(fifo = <<>>) \/ []<><<Len(fifo') < Len(fifo)>>_fifo

\* A request of the timer is served, so that round robin goes on.
TicksServed == (PIT \in irr) ~> (PIT \notin irr)

=============================================================================
