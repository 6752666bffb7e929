----------------------------- MODULE InputProofs -----------------------------
(***************************************************************************)
(* Type correctness, the end of every interrupt and the line the shell     *)
(* reads, for any tasks, devices and exceptions, and any number of keys.   *)
(*                                                                         *)
(* NothingInService is not inductive: what is in service while a handler   *)
(* runs has to be told from int_num, and for the timer from whether its    *)
(* end of interrupt was sent already.  A thread that resumes a switched    *)
(* timer interrupt, perhaps much later, finds the state the other timer    *)
(* interrupt left, so that the strengthening need not mention the threads  *)
(* that wait.                                                              *)
(*                                                                         *)
(* LineFaithful says which key presses the line consists of, without       *)
(* saying how the shell computes it.  To show that a backspace deletes the *)
(* key it should, the invariant counts, after each key that is kept, the   *)
(* keys entered, those deleted and those kept.                             *)
(***************************************************************************)
EXTENDS Input, FiniteSetTheorems, SequenceTheorems, WellFoundedInduction, TLAPS

Line == Master \cup Slave

\* What is in service while isr_handler() runs for line n
During(n) == IF n = PIT /\ at # "enter" THEN {} ELSE InService(n)

ServiceInv ==
  /\ at \in {"task", "syscall"} => isr = {}
  /\ at \in {"enter", "call", "end"} =>
       \/ int_num \in Exceptions /\ isr = {}
       \/ \E n \in Line : int_num = PIC_MASTER_OFFSET + n /\ isr = During(n)

\* The keyboard's handler finds a scan code: a request waits only while there is one,
\* and none waits from its acceptance to the read of the port.
KeyInv ==
  /\ KEYBOARD \in irr => fifo # <<>>
  /\ at \in {"enter", "call"} /\ int_num = PIC_MASTER_OFFSET + KEYBOARD =>
       fifo # <<>> /\ KEYBOARD \notin irr

IInv == TypeOK /\ ServiceInv /\ KeyInv

-----------------------------------------------------------------------------

\* pic_send_eoi() ends exactly the interrupt of a line that is alone in service.
LEMMA EoiEnds ==
  ASSUME NEW n \in Line
  PROVE  pic_send_eoi(PIC_MASTER_OFFSET + n, InService(n)) = {}
<1>1. CASE n \in Master
  <2>1. InService(n) \cap Master = {n} /\ InService(n) \cap Slave = {}
    BY <1>1 DEF InService, Master, Slave
  <2>2. Highest({n}) = {n}
    BY Zenon DEF Highest
  <2>3. InService(n) = {n}
    BY <1>1 DEF InService, Master, Slave
  <2>4. QED BY <2>1, <2>2, <2>3, Zenon DEF pic_send_eoi
<1>2. CASE n \in Slave
  <2>1. InService(n) = {n, Cascade}
    BY <1>2, Zenon DEF InService
  <2>2. InService(n) \cap Master = {Cascade} /\ InService(n) \cap Slave = {n}
    <3>1. n \notin Master /\ Cascade \in Master /\ Cascade \notin Slave
      BY <1>2 DEF Master, Slave, Cascade
    <3>2. QED BY <1>2, <2>1, <3>1
  <2>3. Highest({n}) = {n} /\ Highest({Cascade}) = {Cascade}
    BY DEF Highest
  <2>4. PIC_MASTER_OFFSET + n >= 8
    BY <1>2 DEF PIC_MASTER_OFFSET, Slave
  <2>5. QED BY <2>1, <2>2, <2>3, <2>4, Zenon DEF pic_send_eoi
<1>3. QED BY <1>1, <1>2 DEF Line

\* With nothing in service an end of interrupt does nothing.
LEMMA EoiIdle == \A n : pic_send_eoi(n, {}) = {}
BY DEF pic_send_eoi

\* The translation of a scan code is a byte.
LEMMA TranslationIsByte == \A c \in 1 .. 255 : keyboard_translate_scan_code(c) \in 0 .. 255
<1>1. \A c \in DOMAIN Ascii : Ascii[c] \in 0 .. 255
  BY DEF Ascii
<1>2. QED BY <1>1 DEF keyboard_translate_scan_code

\* Front() of a sequence is a sequence over the same set.
LEMMA FrontTyped ==
  ASSUME NEW S, NEW s \in Seq(S), s # <<>>
  PROVE  Front(s) \in Seq(S)
<1>1. Len(s) \in Nat
  BY LenProperties
<1>2. \A k \in 1 .. Len(s) - 1 : s[k] \in S
  <2>1. SUFFICES ASSUME NEW k \in 1 .. Len(s) - 1 PROVE s[k] \in S
    OBVIOUS
  <2>2. k \in 1 .. Len(s)
    BY <1>1
  <2>3. QED BY <2>2, ElementOfSeq
<1>3. SubSeq(s, 1, Len(s) - 1) \in Seq(S)
  BY <1>1, <1>2, SubSeqProperties
<1>4. QED BY <1>3, Zenon DEF Front

\* The line stays a sequence of bytes whatever key arrives.
LEMMA LineTyped ==
  ASSUME NEW key \in 0 .. 255, line \in Seq(1 .. 255), shell_keyboard_handler(key)
  PROVE  line' \in Seq(1 .. 255)
<1>1. CASE key = KEY_ENTER
  BY <1>1 DEF shell_keyboard_handler, shell_clear_input_buffer, KEY_ENTER, KEY_BACKSPACE
<1>2. CASE key = KEY_BACKSPACE
  <2>1. line' = IF line = <<>> THEN <<>> ELSE Front(line)
    BY <1>2 DEF shell_keyboard_handler, shell_delete_from_input_buffer, KEY_ENTER,
                KEY_BACKSPACE
  <2>2. line # <<>> => Front(line) \in Seq(1 .. 255)
    BY FrontTyped
  <2>3. QED BY <2>1, <2>2
<1>3. CASE key \notin {KEY_ENTER, KEY_BACKSPACE}
  <2>1. line' = IF key = 0 THEN line ELSE Append(line, key)
    BY <1>3 DEF shell_keyboard_handler
  <2>2. key # 0 => Append(line, key) \in Seq(1 .. 255)
    BY AppendProperties
  <2>3. QED BY <2>1, <2>2, Zenon
<1>4. QED BY <1>1, <1>2, <1>3

-----------------------------------------------------------------------------

\* Initially no request waits and none is in service.
LEMMA InitInv == Init => IInv
<1> SUFFICES ASSUME Init PROVE IInv
  OBVIOUS
<1>1. eflags_if = (at = "task")
  BY Zenon DEF Init
<1>2. /\ irr = {} /\ isr = {} /\ at = "task" /\ int_num = 0 /\ current = Idle
      /\ thread = [t \in Task |-> IF t = Shell THEN "new" ELSE "none"]
      /\ fifo = <<>> /\ line = <<>>
  BY DEF Init
<1>3. TypeOK
  BY <1>1, <1>2, InputConstants DEF TypeOK
<1>4. ServiceInv /\ KeyInv
  BY <1>2, Zenon DEF ServiceInv, KeyInv, KEYBOARD
<1>5. QED BY <1>3, <1>4 DEF IInv

\* Requests of the devices.
LEMMA DeviceInv ==
  ASSUME IInv, tick \/ (\E n \in Device : device(n)) \/ (\E c \in Code : press(c))
  PROVE  IInv'
<1>1. isr' = isr /\ UNCHANGED cpu
  BY Zenon DEF tick, device, press
<1>2. ServiceInv'
  BY <1>1 DEF IInv, ServiceInv, During, cpu
<1>3. irr' \subseteq Line /\ fifo' \in Seq(1 .. 255) /\ KeyInv'
  <2>1. CASE tick
    BY <2>1 DEF tick, IInv, TypeOK, KeyInv, cpu, Line, PIT, KEYBOARD, Master
  <2>2. CASE \E n \in Device : device(n)
    BY <2>2, InputConstants DEF device, IInv, TypeOK, KeyInv, cpu, Line
  <2>3. CASE \E c \in Code : press(c)
    <3>1. PICK c \in Code : press(c)
      BY <2>3, Zenon
    <3>2. fifo' = Append(fifo, c) /\ c \in 1 .. 255 /\ fifo \in Seq(1 .. 255)
      BY <3>1, InputConstants DEF press, IInv, TypeOK
    <3>3. fifo' \in Seq(1 .. 255) /\ fifo' # <<>>
      BY <3>2, AppendProperties
    <3>4. irr' \subseteq Line /\ (fifo # <<>> => irr' = irr)
      BY <3>1 DEF press, IInv, TypeOK, Line, KEYBOARD, Master
    <3>5. QED BY <1>1, <3>3, <3>4 DEF IInv, KeyInv, cpu
  <2>4. QED BY <2>1, <2>2, <2>3, Zenon
<1>4. UNCHANGED line
  BY Zenon DEF tick, device, press, shell
<1>5. TypeOK'
  BY <1>1, <1>3, <1>4 DEF IInv, TypeOK, cpu, Line
<1>6. QED BY <1>2, <1>3, <1>5 DEF IInv

\* The CPU accepts an interrupt: nothing else is in service.
LEMMA AcceptInv ==
  ASSUME IInv, NEW n \in Line, accept(n)
  PROVE  IInv'
<1>1. /\ isr' = InService(n)
      /\ at' = "enter" /\ int_num' = PIC_MASTER_OFFSET + n /\ eflags_if' = FALSE
      /\ irr' = irr \ {n} /\ n \in irr
      /\ UNCHANGED <<current, thread, fifo, line>>
  BY DEF accept, IInv, ServiceInv, Gate, Delivered, Highest, shell
<1>2. isr' \subseteq Line
  BY <1>1 DEF InService, Line, Master, Slave, Cascade
<1>3. TypeOK'
  <2>1. eflags_if' = (at' = "task")
    BY <1>1, Zenon
  <2>2. int_num' \in 0 .. 255
    BY <1>1 DEF PIC_MASTER_OFFSET, Line, Master, Slave
  <2>3. QED BY <1>1, <1>2, <2>1, <2>2, Zenon DEF IInv, TypeOK, Line
<1>4. ServiceInv'
  BY <1>1 DEF ServiceInv, During
<1>5. KeyInv'
  BY <1>1 DEF KeyInv, IInv, PIC_MASTER_OFFSET, KEYBOARD, Line, Master, Slave
<1>6. QED BY <1>3, <1>4, <1>5 DEF IInv

\* An exception or a system call enters its handler with nothing in service.
LEMMA TrapInv ==
  ASSUME IInv, (\E n \in Exception : exception(n)) \/ syscall
  PROVE  IInv'
<1>1. /\ at = "task" /\ isr = {}
      /\ UNCHANGED <<irr, isr, current, thread, fifo, line>>
      /\ eflags_if' = FALSE
      /\ \/ at' = "enter" /\ int_num' \in Exceptions
         \/ at' = "syscall" /\ int_num' = int_num
  BY InputConstants DEF exception, syscall, IInv, ServiceInv, Gate, pic, shell
<1>2. eflags_if' = (at' = "task")
  BY <1>1, Zenon
<1>3. TypeOK'
  <2> int_num \in 0 .. 255
    BY DEF IInv, TypeOK
  <2>1. int_num' \in 0 .. 255
    BY <1>1 DEF Exceptions
  <2>2. at' \in {"enter", "syscall"}
    BY <1>1, Zenon
  <2>3. QED BY <1>1, <1>2, <2>1, <2>2 DEF IInv, TypeOK
<1>4. ServiceInv'
  BY <1>1, Zenon DEF ServiceInv
<1>5. KeyInv'
  <2>1. at' = "syscall" \/ int_num' # PIC_MASTER_OFFSET + KEYBOARD
    BY <1>1 DEF Exceptions, PIC_MASTER_OFFSET, KEYBOARD
  <2>2. QED BY <1>1, <2>1, Zenon DEF KeyInv, IInv
<1>6. QED BY <1>3, <1>4, <1>5 DEF IInv

\* A system call returns to its task with nothing in service.
LEMMA SyscallReturnInv ==
  ASSUME IInv, syscall_handler
  PROVE  IInv'
<1>1. /\ at' = "task" /\ eflags_if' = TRUE /\ isr = {}
      /\ UNCHANGED <<irr, isr, int_num, current, thread, fifo, line>>
  BY DEF syscall_handler, IInv, ServiceInv, pic, shell
<1>2. eflags_if' = (at' = "task")
  BY <1>1, Zenon
<1>3. TypeOK'
  BY <1>1, <1>2 DEF IInv, TypeOK
<1>4. ServiceInv' /\ KeyInv'
  BY <1>1 DEF ServiceInv, KeyInv, IInv
<1>5. QED BY <1>3, <1>4 DEF IInv

\* The early end of interrupt of the timer.
LEMMA EnterInv ==
  ASSUME IInv, isr_enter
  PROVE  IInv'
<1>1. /\ at = "enter" /\ at' = "call" /\ isr' = EarlyEoi(isr)
      /\ UNCHANGED <<irr, eflags_if, int_num, current, thread, fifo, line>>
  BY DEF isr_enter, shell
<1>2. CASE int_num \in Exceptions /\ isr = {}
  <2>1. isr' = {}
    BY <1>1, <1>2, EoiIdle, Zenon DEF EarlyEoi
  <2>2. QED
    <3>1. TypeOK'
      BY <1>1, <2>1 DEF IInv, TypeOK
    <3>2. ServiceInv' /\ KeyInv'
      BY <1>1, <1>2, <2>1 DEF ServiceInv, KeyInv, IInv
    <3>3. QED BY <3>1, <3>2 DEF IInv
<1>3. CASE \E n \in Line : int_num = PIC_MASTER_OFFSET + n /\ isr = During(n)
  <2>1. PICK n \in Line : int_num = PIC_MASTER_OFFSET + n /\ isr = InService(n)
    BY <1>1, <1>3, Zenon DEF During
  <2>2. isr' = IF n = PIT THEN {} ELSE InService(n)
    <3>1. n \in Nat
      BY DEF Line, Master, Slave
    <3>2. CASE n = PIT
      BY <1>1, <2>1, <3>2, EoiEnds, Zenon DEF EarlyEoi
    <3>3. CASE n # PIT
      BY <1>1, <2>1, <3>1, <3>3 DEF EarlyEoi, PIC_MASTER_OFFSET, PIT
    <3>4. QED BY <3>2, <3>3
  <2>3. isr' \subseteq Line
    BY <2>1, <2>2 DEF IInv, TypeOK, Line
  <2>4. TypeOK'
    BY <1>1, <2>3 DEF IInv, TypeOK, Line
  <2>5. ServiceInv'
    BY <1>1, <2>1, <2>2, Zenon DEF ServiceInv, During
  <2>6. KeyInv'
    BY <1>1, Zenon DEF KeyInv, IInv
  <2>7. QED BY <2>4, <2>5, <2>6, Zenon DEF IInv
<1>4. QED BY <1>1, <1>2, <1>3, Zenon DEF IInv, ServiceInv

\* The timer's handler leaves one timer interrupt for another, or for a new task: in
\* each of them nothing is in service.
LEMMA TimerInv ==
  ASSUME IInv, NEW t \in Task, timer_tick(t)
  PROVE  IInv'
<1>1. /\ at = "call" /\ int_num = PIC_MASTER_OFFSET + PIT /\ ~eflags_if
      /\ UNCHANGED <<irr, isr, fifo, line>>
  BY Zenon DEF timer_tick, pic, shell, IInv, TypeOK
<1>2. isr = {}
  BY <1>1 DEF IInv, ServiceInv, During, Line, Master, Slave, Exceptions, PIC_MASTER_OFFSET, PIT
<1>3. /\ current' \in Task /\ thread' \in [Task -> {"none", "new", "isr"}]
      /\ thread'[current'] = "none"
  BY DEF timer_tick, IInv, TypeOK
<1>4. \/ at' = "end" /\ int_num' = int_num
      \/ at' = "task" /\ int_num' = 0
  BY Zenon DEF timer_tick, NewContext
<1>5. eflags_if' = (at' = "task")
  <2>1. \/ at' = "end" /\ eflags_if' = eflags_if
        \/ at' = "task" /\ eflags_if' = TRUE
    BY Zenon DEF timer_tick, NewContext
  <2>2. CASE at' = "end" /\ eflags_if' = eflags_if
    BY <1>1, <2>2 DEF IInv, TypeOK
  <2>3. CASE at' = "task" /\ eflags_if' = TRUE
    BY <2>3, Zenon
  <2>4. QED BY <2>1, <2>2, <2>3, Zenon
<1>6. TypeOK'
  <2> int_num \in 0 .. 255
    BY DEF IInv, TypeOK
  <2>1. int_num' \in 0 .. 255 /\ at' \in {"end", "task"}
    BY <1>4
  <2>2. QED BY <1>1, <1>3, <1>5, <2>1, Zenon DEF IInv, TypeOK
<1>7. ServiceInv'
  <2>1. CASE at' = "end" /\ int_num' = PIC_MASTER_OFFSET + PIT
    <3>1. PIT \in Line
      BY DEF Line, Master, PIT
    <3>2. QED BY <1>1, <1>2, <2>1, <3>1, Zenon DEF ServiceInv, During
  <2>2. CASE at' = "task"
    BY <1>1, <1>2, <2>2, Zenon DEF ServiceInv
  <2>3. QED BY <1>1, <1>4, <2>1, <2>2, Zenon
<1>8. KeyInv'
  <2>1. at' \in {"end", "task"}
    BY <1>4, Zenon
  <2>2. QED BY <1>1, <2>1, Zenon DEF KeyInv, IInv
<1>9. QED BY <1>6, <1>7, <1>8 DEF IInv

\* The shell touches only the threads of tasks other than the running one.
LEMMA ThreadsTyped ==
  ASSUME IInv, NEW key, shell_keyboard_handler(key)
  PROVE  thread' \in [Task -> {"none", "new", "isr"}] /\ thread'[current] = "none"
BY DEF IInv, TypeOK, shell_keyboard_handler, shell_process_command

\* The keyboard's handler reads a scan code that is there, and passes on a byte.
LEMMA KeyboardInv ==
  ASSUME IInv, keyboard_isr
  PROVE  IInv'
<1>1. /\ at = "call" /\ int_num = PIC_MASTER_OFFSET + KEYBOARD /\ at' = "end"
      /\ fifo' = Tail(fifo)
      /\ irr' = IF Len(fifo) > 1 THEN irr \cup {KEYBOARD} ELSE irr
      /\ UNCHANGED <<isr, eflags_if, int_num, current>>
  BY DEF keyboard_isr
<1>2. fifo # <<>> /\ KEYBOARD \notin irr /\ fifo \in Seq(1 .. 255)
  BY <1>1 DEF IInv, KeyInv, TypeOK
<1>3. /\ Head(fifo) \in 1 .. 255 /\ Tail(fifo) \in Seq(1 .. 255)
      /\ Len(Tail(fifo)) = Len(fifo) - 1 /\ Len(fifo) \in Nat
  BY <1>2, HeadTailProperties, LenProperties
<1>4. /\ line' \in Seq(1 .. 255)
      /\ thread' \in [Task -> {"none", "new", "isr"}] /\ thread'[current] = "none"
  <2> DEFINE key == keyboard_translate_scan_code(Head(fifo))
  <2>1. key \in 0 .. 255
    BY <1>3, TranslationIsByte, Zenon
  <2>2. shell_keyboard_handler(key) \/ UNCHANGED <<line, thread>>
    BY Zenon DEF keyboard_isr, shell
  <2>3. CASE shell_keyboard_handler(key)
    <3>1. line \in Seq(1 .. 255)
      BY DEF IInv, TypeOK
    <3> HIDE DEF key
    <3>2. QED BY <2>1, <2>3, <3>1, LineTyped, ThreadsTyped, Zenon
  <2>4. CASE UNCHANGED <<line, thread>>
    BY <2>4 DEF IInv, TypeOK
  <2>5. QED BY <2>2, <2>3, <2>4, Zenon
<1>5. eflags_if' = (at' = "task")
  BY <1>1 DEF IInv, TypeOK
<1>6. TypeOK'
  <2>1. irr' \subseteq Line
    BY <1>1 DEF IInv, TypeOK, Line, Master, KEYBOARD
  <2>2. QED BY <1>1, <1>3, <1>4, <1>5, <2>1, Zenon DEF IInv, TypeOK, Line
<1>7. ServiceInv'
  BY <1>1, Zenon DEF ServiceInv, IInv, During
<1>8. KeyInv'
  <2>1. KEYBOARD \in irr' => Len(Tail(fifo)) # 0
    BY <1>1, <1>2, <1>3
  <2>2. KEYBOARD \in irr' => fifo' # <<>>
    BY <1>1, <2>1, LenProperties, Zenon
  <2>3. QED BY <1>1, <2>2, Zenon DEF KeyInv
<1>9. QED BY <1>6, <1>7, <1>8, Zenon DEF IInv

\* The shell registers its handler.
LEMMA ShellInitInv ==
  ASSUME IInv, shell_init
  PROVE  IInv'
<1>1. UNCHANGED <<irr, isr, at, int_num, current, thread, fifo, line>>
  BY DEF shell_init, pic, cpu, shell
<1>2. eflags_if' = eflags_if
  BY DEF shell_init, cpu
<1>3. eflags_if' = (at' = "task")
  BY <1>1, <1>2 DEF IInv, TypeOK
<1>4. TypeOK'
  BY <1>1, <1>3 DEF IInv, TypeOK
<1>5. ServiceInv' /\ KeyInv'
  BY <1>1 DEF IInv, ServiceInv, KeyInv, During
<1>6. QED BY <1>4, <1>5, Zenon DEF IInv

\* An exception, or an interrupt of a device without a driver.
LEMMA NoHandlerInv ==
  ASSUME IInv, no_handler
  PROVE  IInv'
<1>1. /\ at = "call" /\ at' = "end"
      /\ UNCHANGED <<irr, isr, int_num, current, thread, fifo, line>>
  BY DEF no_handler, pic, shell
<1>2. eflags_if' = eflags_if
  BY DEF no_handler
<1>3. eflags_if' = (at' = "task")
  BY <1>1, <1>2 DEF IInv, TypeOK
<1>4. TypeOK'
  BY <1>1, <1>3 DEF IInv, TypeOK
<1>5. ServiceInv' /\ KeyInv'
  BY <1>1, Zenon DEF IInv, ServiceInv, KeyInv, During
<1>6. QED BY <1>4, <1>5 DEF IInv

\* The last end of interrupt leaves nothing in service.
LEMMA ExitInv ==
  ASSUME IInv, isr_exit
  PROVE  IInv'
<1>1. /\ at = "end" /\ at' = "task" /\ int_num' = 0 /\ isr' = pic_send_eoi(int_num, isr)
      /\ UNCHANGED <<irr, current, thread, fifo, line>>
  BY Zenon DEF isr_exit, shell
<1>2. isr' = {}
  <2>1. CASE isr = {}
    BY <1>1, <2>1, EoiIdle
  <2>2. CASE \E n \in Line : int_num = PIC_MASTER_OFFSET + n /\ isr = During(n)
    BY <1>1, <2>2, EoiEnds, EoiIdle DEF During
  <2>3. QED BY <1>1, <2>1, <2>2 DEF IInv, ServiceInv
<1>3. eflags_if' = (at' = "task")
  BY Zenon DEF isr_exit
<1>4. TypeOK'
  BY <1>1, <1>2, <1>3 DEF IInv, TypeOK
<1>5. ServiceInv' /\ KeyInv'
  BY <1>1, <1>2 DEF IInv, ServiceInv, KeyInv
<1>6. QED BY <1>4, <1>5, Zenon DEF IInv

-----------------------------------------------------------------------------

\* The invariant is inductive.
LEMMA NextInv == IInv /\ [Next]_vars => IInv'
<1> SUFFICES ASSUME IInv, [Next]_vars PROVE IInv'
  OBVIOUS
<1>1. CASE UNCHANGED vars
  <2>1. UNCHANGED <<irr, isr, at, int_num, current, thread, fifo, line>>
    BY <1>1 DEF vars
  <2>2. eflags_if' = eflags_if
    BY <1>1 DEF vars
  <2>3. eflags_if' = (at' = "task")
    BY <2>1, <2>2 DEF IInv, TypeOK
  <2>4. TypeOK'
    BY <2>1, <2>3 DEF IInv, TypeOK
  <2>5. ServiceInv' /\ KeyInv'
    BY <2>1, Zenon DEF IInv, ServiceInv, KeyInv, During
  <2>6. QED BY <2>4, <2>5 DEF IInv
<1>2. CASE Next
  <2>1. CASE tick \/ (\E i \in Device : device(i)) \/ (\E c \in Code : press(c))
    BY <2>1, DeviceInv
  <2>2. CASE \E i \in Master \cup Slave : accept(i)
    BY <2>2, AcceptInv DEF Line
  <2>3. CASE (\E n \in Exception : exception(n)) \/ syscall
    BY <2>3, TrapInv, Zenon
  <2>4. CASE syscall_handler
    BY <2>4, SyscallReturnInv, Zenon
  <2>5. CASE shell_init
    BY <2>5, ShellInitInv, Zenon
  <2>6. CASE isr_enter
    BY <2>6, EnterInv
  <2>7. CASE \E t \in Task : timer_tick(t)
    BY <2>7, TimerInv
  <2>8. CASE keyboard_isr
    BY <2>8, KeyboardInv
  <2>9. CASE no_handler
    BY <2>9, NoHandlerInv
  <2>10. CASE isr_exit
    BY <2>10, ExitInv, Zenon
  <2>11. QED BY <1>2, <2>1, <2>2, <2>3, <2>4, <2>5, <2>6, <2>7, <2>8, <2>9, <2>10, Zenon DEF
                Next
<1>3. QED BY <1>1, <1>2

\* Every variable keeps its type, and interrupts are off exactly while isr_handler() or
\* syscall_handler() runs: the gates of idt_init(), cli and iret agree for every mixture
\* of interrupts, exceptions, system calls and switches.
THEOREM TypeCorrectInput == Spec => []TypeOK
<1>1. IInv => TypeOK
  BY DEF IInv
<1>2. QED BY InitInv, NextInv, <1>1, PTL DEF Spec

\* While a task runs nothing is in service: pic_send_eoi(), called early for the timer
\* and once more at the end, and comparing the interrupt number rather than the line
\* with 8, ends each interrupt of either controller, although the timer's handler comes
\* back in another task or in none.
THEOREM NothingLeftInService == Spec => []NothingInService
<1>1. IInv => NothingInService
  BY Zenon DEF IInv, ServiceInv, NothingInService
<1>2. QED BY InitInv, NextInv, <1>1, PTL DEF Spec

\* The keyboard's handler never reads the port without a scan code.
THEOREM KeyWaits == Spec => [](at = "call" /\ int_num = PIC_MASTER_OFFSET + KEYBOARD
                                 => fifo # <<>>)
<1> DEFINE Waits == at = "call" /\ int_num = PIC_MASTER_OFFSET + KEYBOARD => fifo # <<>>
<1>1. IInv => Waits
  BY DEF IInv, KeyInv
<1> HIDE DEF Waits
<1>2. Spec => []Waits
  BY InitInv, NextInv, <1>1, PTL DEF Spec
<1>3. QED BY <1>2 DEF Waits

-----------------------------------------------------------------------------
(* The line typed *)

Keep == {i \in Recent : Kept(i)}

\* The deletions and the new keys since key i, and the kept ones among these
Deleted(i) == {k \in i + 1 .. Len(heard) : heard[k] = KEY_BACKSPACE}
Entered(i) == {k \in i + 1 .. Len(heard) : Typed(k)}
After(i) == {k \in Keep : i < k}

UpTo(i) == {j \in Keep : j <= i}

\* A deletion that spares key i undoes a later key
LineInv ==
  /\ heard \in Seq(Nat)
  /\ LineFaithful
  /\ \A i \in Keep :
       Cardinality(Entered(i)) = Cardinality(Deleted(i)) + Cardinality(After(i))

LEMMA LeastMember ==
  ASSUME NEW S, S \subseteq Nat, S # {}
  PROVE  \E m \in S : \A k \in S : m <= k
<1>1. PICK x \in S : \A y \in S : ~ (<<y, x>> \in OpToRel(<, Nat))
  BY WFMin, NatLessThanWellFounded, Zenon
<1>2. \A y \in S : ~ (y < x)
  BY <1>1, Zenon DEF OpToRel
<1>3. \A y \in S : x <= y
  BY <1>2
<1>4. QED BY <1>3

\* There is a walk of every length.
\* The greatest of finitely many numbers.
LEMMA GreatestMember ==
  ASSUME NEW n \in Nat, NEW S, S \subseteq 1 .. n, S # {}
  PROVE  \E m \in S : \A k \in S : k <= m
<1> DEFINE T == {n - k : k \in S}
<1>1. T \subseteq Nat /\ T # {}
  <2>1. \A k \in S : n - k \in Nat
    OBVIOUS
  <2>2. QED BY <2>1, Zenon
<1>2. PICK t \in T : \A u \in T : t <= u
  BY <1>1, LeastMember, Zenon
<1>3. PICK m \in S : t = n - m
  BY <1>2
<1>4. ASSUME NEW k \in S PROVE k <= m
  <2>1. n - m <= n - k
    BY <1>2, <1>3, Zenon
  <2>2. QED BY <2>1
<1>5. QED BY <1>4

\* Subsets of an interval of numbers are finite.
LEMMA PartFinite ==
  ASSUME NEW a \in Nat, NEW b \in Nat, NEW S, S \subseteq a .. b
  PROVE  IsFiniteSet(S) /\ Cardinality(S) \in Nat
<1>1. IsFiniteSet(a .. b)
  BY FS_Interval
<1>2. IsFiniteSet(S)
  BY <1>1, FS_Subset, Zenon
<1>3. QED BY <1>2, FS_CardinalityType

\* One key more: what is deleted and entered after key i, and which keys are recent.
LEMMA OneMore ==
  ASSUME heard \in Seq(Nat), NEW key \in Nat, heard' = Append(heard, key)
  PROVE  /\ Len(heard) \in Nat /\ Len(heard') = Len(heard) + 1
         /\ heard' \in Seq(Nat)
         /\ heard'[Len(heard) + 1] = key
         /\ \A k \in 1 .. Len(heard) : heard'[k] = heard[k]
         /\ Recent \subseteq 1 .. Len(heard)
         /\ Recent' = IF key = KEY_ENTER THEN {} ELSE Recent \cup {Len(heard) + 1}
<1> DEFINE n == Len(heard)
<1>1. /\ n \in Nat /\ Len(heard') = n + 1 /\ heard' \in Seq(Nat) /\ heard'[n + 1] = key
      /\ \A k \in 1 .. n : heard'[k] = heard[k]
  BY LenProperties, AppendProperties
<1>2. DOMAIN heard = 1 .. n /\ DOMAIN heard' = 1 .. n + 1
  BY <1>1, LenProperties
<1>3. Recent \subseteq 1 .. n
  BY <1>2, Zenon DEF Recent
<1>4. CASE key = KEY_ENTER
  <2>1. \A i \in 1 .. n + 1 : n + 1 \in i .. n + 1
    BY <1>1
  <2>2. Recent' = {}
    BY <1>1, <1>2, <1>4, <2>1, Zenon DEF Recent
  <2>3. QED BY <1>1, <1>3, <1>4, <2>2, Zenon
<1>5. CASE key # KEY_ENTER
  <2>1. ASSUME NEW i \in 1 .. n
        PROVE  (\A j \in i .. n + 1 : heard'[j] # KEY_ENTER)
                 <=> \A j \in i .. n : heard[j] # KEY_ENTER
    BY <1>1, <1>5
  <2>2. \A j \in n + 1 .. n + 1 : heard'[j] # KEY_ENTER
    BY <1>1, <1>5
  <2>3. \A i \in 1 .. n + 1 : i = n + 1 \/ i \in 1 .. n
    BY <1>1
  <2>4. n + 1 \in 1 .. n + 1 /\ \A i \in 1 .. n : i \in 1 .. n + 1
    BY <1>1
  <2> DEFINE m == n + 1
  <2>5. Recent' = {i \in 1 .. m : \A j \in i .. m : heard'[j] # KEY_ENTER}
    BY <1>1, <1>2, Zenon DEF Recent
  <2>6. Recent = {i \in 1 .. n : \A j \in i .. n : heard[j] # KEY_ENTER}
    BY <1>2, Zenon DEF Recent
  <2> HIDE DEF n, m
  <2>7. Recent' = Recent \cup {m}
    BY <2>1, <2>2, <2>3, <2>4, <2>5, <2>6, Zenon DEF m
  <2>8. QED BY <1>1, <1>3, <1>5, <2>7, Zenon DEF n, m
<1>6. QED BY <1>4, <1>5, Zenon

\* Deletions and entered keys after an earlier key.
LEMMA OneMoreCounted ==
  ASSUME heard \in Seq(Nat), NEW key \in Nat, heard' = Append(heard, key),
         NEW i \in 1 .. Len(heard)
  PROVE  /\ Cardinality(Deleted(i)) \in Nat /\ Cardinality(Entered(i)) \in Nat
         /\ Cardinality(Deleted(i)') =
              Cardinality(Deleted(i)) + IF key = KEY_BACKSPACE THEN 1 ELSE 0
         /\ Cardinality(Entered(i)') =
              Cardinality(Entered(i)) + IF key \in {0, KEY_BACKSPACE} THEN 0 ELSE 1
         /\ Kept(i) => Cardinality(Deleted(i)) <= Cardinality(Entered(i))
         /\ Kept(i)' <=> Kept(i) /\ Cardinality(Deleted(i)') <= Cardinality(Entered(i)')
<1>0. PICK n \in Nat, m \in Nat : n = Len(heard) /\ m = n + 1
  BY LenProperties
<1>1. /\ n \in Nat /\ m = n + 1 /\ Len(heard) = n /\ Len(heard') = m /\ heard'[m] = key
      /\ i \in 1 .. n /\ \A k \in 1 .. n : heard'[k] = heard[k]
  BY <1>0, OneMore
<1>2. /\ i \in Nat /\ i + 1 \in Nat /\ Deleted(i) \subseteq i + 1 .. n
      /\ Entered(i) \subseteq i + 1 .. n /\ m \notin i + 1 .. n
  BY <1>1 DEF Deleted, Entered
<1>3. /\ IsFiniteSet(Deleted(i)) /\ Cardinality(Deleted(i)) \in Nat
      /\ IsFiniteSet(Entered(i)) /\ Cardinality(Entered(i)) \in Nat
  BY <1>1, <1>2, PartFinite, Zenon
<1>4. \A k \in i + 1 .. m : k = m \/ k \in i + 1 .. n
  BY <1>1, <1>2
<1>5. m \in i + 1 .. m /\ \A k \in i + 1 .. n : k \in i + 1 .. m /\ k \in 1 .. n
  BY <1>1, <1>2
<1>6. Deleted(i)' = IF key = KEY_BACKSPACE THEN Deleted(i) \cup {m} ELSE Deleted(i)
  <2>1. Deleted(i)' = {k \in i + 1 .. m : heard'[k] = KEY_BACKSPACE}
    BY <1>1, Zenon DEF Deleted
  <2>2. QED BY <1>1, <1>4, <1>5, <2>1, Zenon DEF Deleted
<1>7. Entered(i)' = IF key \in {0, KEY_BACKSPACE} THEN Entered(i) ELSE Entered(i) \cup {m}
  <2>1. Entered(i)' = {k \in i + 1 .. m : heard'[k] \notin {0, KEY_BACKSPACE}}
    BY <1>1, Zenon DEF Entered, Typed
  <2>2. QED BY <1>1, <1>4, <1>5, <2>1, Zenon DEF Entered, Typed
<1>8. /\ Cardinality(Deleted(i)') =
           Cardinality(Deleted(i)) + IF key = KEY_BACKSPACE THEN 1 ELSE 0
      /\ Cardinality(Entered(i)') =
           Cardinality(Entered(i)) + IF key \in {0, KEY_BACKSPACE} THEN 0 ELSE 1
  <2>1. m \notin Deleted(i) /\ m \notin Entered(i)
    BY <1>2, Zenon
  <2>2. /\ Cardinality(Deleted(i) \cup {m}) = Cardinality(Deleted(i)) + 1
        /\ Cardinality(Entered(i) \cup {m}) = Cardinality(Entered(i)) + 1
    BY <1>3, <2>1, FS_AddElement, Zenon
  <2>3. QED BY <1>3, <1>6, <1>7, <2>2
<1>9. Kept(i) => Cardinality(Deleted(i)) <= Cardinality(Entered(i))
  <2>1. CASE i = n
    <3>1. Deleted(i) = {} /\ Entered(i) = {}
      BY <1>1, <1>2, <2>1
    <3>2. QED BY <3>1, FS_EmptySet
  <2>2. CASE i # n
    <3>1. n \in i + 1 .. n
      BY <1>1, <2>2
    <3>2. QED BY <1>1, <3>1, Zenon DEF Kept, Deleted, Entered
  <2>3. QED BY <2>1, <2>2, Zenon
<1> DEFINE D(j) == {k \in i + 1 .. j : heard[k] = KEY_BACKSPACE}
           E(j) == {k \in i + 1 .. j : Typed(k)}
<1>10. Kept(i) <=> Typed(i) /\ \A j \in i + 1 .. n : Cardinality(D(j)) <= Cardinality(E(j))
  BY <1>1, Zenon DEF Kept
<1>11. Kept(i)' <=> Typed(i)' /\ \A j \in i + 1 .. m :
                                   Cardinality(D(j)') <= Cardinality(E(j)')
  BY <1>1, Zenon DEF Kept
<1>12. Typed(i)' <=> Typed(i)
  BY <1>1, Zenon DEF Typed
<1>13. ASSUME NEW j \in i + 1 .. n PROVE D(j)' = D(j) /\ E(j)' = E(j)
  <2>1. \A k \in i + 1 .. j : heard'[k] = heard[k]
    BY <1>1, <1>2
  <2>2. QED BY <2>1, Zenon DEF Typed
<1>14. D(m)' = Deleted(i)' /\ E(m)' = Entered(i)'
  BY <1>1, Zenon DEF Deleted, Entered
<1>15. Kept(i)' <=> Kept(i) /\ Cardinality(Deleted(i)') <= Cardinality(Entered(i)')
  <2> HIDE DEF D, E
  <2>1. (\A j \in i + 1 .. m : Cardinality(D(j)') <= Cardinality(E(j)'))
          <=> /\ \A j \in i + 1 .. n : Cardinality(D(j)) <= Cardinality(E(j))
              /\ Cardinality(Deleted(i)') <= Cardinality(Entered(i)')
    BY <1>4, <1>5, <1>13, <1>14, Zenon
  <2>2. QED BY <1>10, <1>11, <1>12, <2>1, Zenon
<1>16. QED BY <1>3, <1>8, <1>9, <1>15

\* The property, with names for its sets.
LEMMA FaithfulIs ==
  /\ LineFaithful <=> /\ Len(line) = Cardinality(Keep)
                      /\ \A i \in Keep : line[Cardinality(UpTo(i))] = heard[i]
  /\ LineFaithful' <=> /\ Len(line') = Cardinality(Keep')
                       /\ \A i \in Keep' : line'[Cardinality(UpTo(i)')] = heard'[i]
BY Zenon DEF LineFaithful, Keep, UpTo

\* Which keys are kept after one more that is not Enter.
LEMMA KeepAfter ==
  ASSUME heard \in Seq(Nat), NEW key \in Nat, heard' = Append(heard, key), key # KEY_ENTER
  PROVE  /\ key = 0 => Keep' = Keep
         /\ key \notin {0, KEY_BACKSPACE} => Keep' = Keep \cup {Len(heard) + 1}
         /\ key = KEY_BACKSPACE =>
              Keep' = {i \in Keep : Cardinality(Deleted(i)) + 1 <= Cardinality(Entered(i))}
<1>0. PICK n \in Nat, m \in Nat : n = Len(heard) /\ m = n + 1
  BY LenProperties
<1>1. /\ Recent \subseteq 1 .. n /\ Recent' = Recent \cup {m} /\ Len(heard') = m
      /\ heard'[m] = key
  BY <1>0, OneMore
<1>2. Kept(m)' <=> key \notin {0, KEY_BACKSPACE}
  <2>1. m + 1 .. m = {}
    BY <1>0
  <2>2. QED BY <1>1, <2>1 DEF Kept, Typed
<1>3. KEY_BACKSPACE # 0
  BY DEF KEY_BACKSPACE
<1>4. \A i \in Recent : i \in 1 .. Len(heard)
  BY <1>0, <1>1, Zenon
<1>5. CASE key = 0
  <2>1. ASSUME NEW i \in Recent PROVE Kept(i)' <=> Kept(i)
    BY <1>3, <1>4, <1>5, OneMoreCounted
  <2>2. Keep' = Keep
    BY <1>1, <1>2, <1>5, <2>1, Zenon DEF Keep
  <2>3. QED BY <1>3, <1>5, <2>2, Zenon
<1>6. CASE key \notin {0, KEY_BACKSPACE}
  <2>1. ASSUME NEW i \in Recent PROVE Kept(i)' <=> Kept(i)
    BY <1>4, <1>6, OneMoreCounted
  <2>2. Keep' = Keep \cup {m}
    BY <1>1, <1>2, <1>6, <2>1, Zenon DEF Keep
  <2>3. QED BY <1>0, <1>6, <2>2, Zenon
<1>7. CASE key = KEY_BACKSPACE
  <2>1. ASSUME NEW i \in Recent
        PROVE  Kept(i)' <=> Kept(i) /\ Cardinality(Deleted(i)) + 1 <= Cardinality(Entered(i))
    BY <1>3, <1>4, <1>7, OneMoreCounted
  <2>2. Keep' = {i \in Keep : Cardinality(Deleted(i)) + 1 <= Cardinality(Entered(i))}
    BY <1>1, <1>2, <1>7, <2>1, Zenon DEF Keep
  <2>3. QED BY <1>3, <1>7, <2>2, Zenon
<1>8. QED BY <1>5, <1>6, <1>7, Zenon

\* Kept keys are finitely many.
LEMMA KeepFinite ==
  ASSUME heard \in Seq(Nat), NEW i
  PROVE  /\ Keep \subseteq 1 .. Len(heard) /\ Len(heard) \in Nat
         /\ IsFiniteSet(Keep) /\ Cardinality(Keep) \in Nat
         /\ IsFiniteSet(After(i)) /\ Cardinality(After(i)) \in Nat
         /\ IsFiniteSet(UpTo(i)) /\ Cardinality(UpTo(i)) \in Nat
         /\ Cardinality(UpTo(i)) <= Cardinality(Keep)
<1>1. Len(heard) \in Nat /\ DOMAIN heard = 1 .. Len(heard)
  BY LenProperties
<1>2. Keep \subseteq 1 .. Len(heard)
  BY <1>1, Zenon DEF Keep, Recent
<1>3. After(i) \subseteq Keep /\ UpTo(i) \subseteq Keep
  BY Zenon DEF After, UpTo
<1>4. IsFiniteSet(Keep)
  BY <1>1, <1>2, PartFinite, Zenon
<1>5. IsFiniteSet(After(i)) /\ IsFiniteSet(UpTo(i)) /\ Cardinality(UpTo(i)) <= Cardinality(Keep)
  BY <1>3, <1>4, FS_Subset
<1>6. QED BY <1>1, <1>2, <1>4, <1>5, FS_CardinalityType, Zenon

\* Nothing is typed.
LEMMA LineKept ==
  ASSUME LineInv, UNCHANGED <<line, heard>>
  PROVE  LineInv'
<1>1. heard' = heard /\ line' = line
  OBVIOUS
<1>2. Keep' = Keep
  BY <1>1, Zenon DEF Keep, Recent, Kept, Typed
<1>3. \A i : /\ Entered(i)' = Entered(i) /\ Deleted(i)' = Deleted(i)
            /\ After(i)' = After(i) /\ UpTo(i)' = UpTo(i)
  BY <1>1, <1>2, Zenon DEF Entered, Deleted, After, UpTo, Typed
<1>4. LineFaithful'
  BY <1>1, <1>2, <1>3, FaithfulIs, Zenon DEF LineInv
<1>5. QED BY <1>1, <1>2, <1>3, <1>4, Zenon DEF LineInv

\* Enter: no key is recent, and the buffer is empty.
LEMMA EnterLine ==
  ASSUME heard \in Seq(Nat), heard' = Append(heard, KEY_ENTER), line' = <<>>
  PROVE  LineInv'
<1>1. KEY_ENTER \in Nat
  BY DEF KEY_ENTER
<1>2. heard' \in Seq(Nat) /\ Recent' = {}
  BY <1>1, OneMore, Zenon
<1>3. Keep' = {}
  BY <1>2, Zenon DEF Keep
<1>4. Len(line') = Cardinality(Keep')
  BY <1>3, FS_EmptySet, Zenon
<1>5. LineFaithful'
  BY <1>3, <1>4, FaithfulIs, Zenon
<1>6. QED BY <1>2, <1>3, <1>5, Zenon DEF LineInv

\* A key that has no character changes nothing.
LEMMA SilentLine ==
  ASSUME LineInv, heard' = Append(heard, 0), line' = line
  PROVE  LineInv'
<1>1. heard \in Seq(Nat) /\ LineFaithful
  BY Zenon DEF LineInv
<1>2. 0 \in Nat /\ KEY_ENTER # 0 /\ KEY_BACKSPACE # 0
  BY DEF KEY_ENTER, KEY_BACKSPACE
<1>3. heard' \in Seq(Nat) /\ \A k \in 1 .. Len(heard) : heard'[k] = heard[k]
  BY <1>1, <1>2, OneMore, Zenon
<1>4. Keep' = Keep /\ Keep \subseteq 1 .. Len(heard)
  BY <1>1, <1>2, KeepAfter, KeepFinite, Zenon
<1>5. \A i : After(i)' = After(i) /\ UpTo(i)' = UpTo(i)
  BY <1>4, Zenon DEF After, UpTo
<1>6. LineFaithful'
  BY <1>1, <1>3, <1>4, <1>5, FaithfulIs, Zenon
<1>7. ASSUME NEW i \in Keep'
      PROVE  Cardinality(Entered(i)') = Cardinality(Deleted(i)') + Cardinality(After(i)')
  <2>1. i \in 1 .. Len(heard)
    BY <1>4
  <2>2. /\ Cardinality(Entered(i)') = Cardinality(Entered(i))
        /\ Cardinality(Deleted(i)') = Cardinality(Deleted(i))
    BY <1>1, <1>2, <2>1, OneMoreCounted
  <2>3. QED BY <1>4, <1>5, <2>2, Zenon DEF LineInv
<1>8. QED BY <1>3, <1>6, <1>7, Zenon DEF LineInv

\* A character is kept, behind the others.
LEMMA CharLine ==
  ASSUME LineInv, NEW key \in Nat, key \notin {0, KEY_ENTER, KEY_BACKSPACE},
         heard' = Append(heard, key), line \in Seq(Nat), line' = Append(line, key)
  PROVE  LineInv'
<1>0. PICK n \in Nat, m \in Nat : n = Len(heard) /\ m = n + 1
  BY LenProperties DEF LineInv
<1>1. heard \in Seq(Nat) /\ LineFaithful
  BY DEF LineInv
<1>2. /\ heard' \in Seq(Nat) /\ heard'[m] = key /\ Len(heard') = m
      /\ \A k \in 1 .. n : heard'[k] = heard[k]
  BY <1>0, <1>1, OneMore, Zenon
<1>3. Keep' = Keep \cup {m} /\ Keep \subseteq 1 .. n
  BY <1>0, <1>1, KeepAfter, KeepFinite, Zenon
<1>4. /\ m \notin Keep /\ IsFiniteSet(Keep) /\ Cardinality(Keep) \in Nat
      /\ Cardinality(Keep') = Cardinality(Keep) + 1
  <2>1. m \notin Keep
    BY <1>0, <1>3
  <2>2. QED BY <1>1, <1>3, <2>1, KeepFinite, FS_AddElement, Zenon
<1>5. ASSUME NEW i \in Keep
      PROVE  /\ UpTo(i)' = UpTo(i) /\ After(i)' = After(i) \cup {m} /\ m \notin After(i)
  <2>1. i < m /\ ~ (m <= i)
    BY <1>0, <1>3
  <2>2. QED BY <1>3, <1>4, <2>1, Zenon DEF UpTo, After
<1>6. UpTo(m)' = Keep' /\ After(m)' = {}
  <2>1. \A j \in Keep' : j <= m /\ ~ (m < j)
    BY <1>0, <1>3
  <2>2. QED BY <2>1, Zenon DEF UpTo, After
<1>7. /\ Len(line) = Cardinality(Keep) /\ Len(line') = Cardinality(Keep) + 1
      /\ line'[Cardinality(Keep) + 1] = key
      /\ \A k \in 1 .. Cardinality(Keep) : line'[k] = line[k]
  BY <1>1, FaithfulIs, AppendProperties
<1>8. ASSUME NEW i \in Keep' PROVE line'[Cardinality(UpTo(i)')] = heard'[i]
  <2>1. CASE i = m
    BY <1>2, <1>4, <1>6, <1>7, <2>1, Zenon
  <2>2. CASE i \in Keep
    <3>1. /\ IsFiniteSet(UpTo(i)) /\ Cardinality(UpTo(i)) \in Nat
          /\ Cardinality(UpTo(i)) <= Cardinality(Keep)
      BY <1>1, KeepFinite, Zenon
    <3>2. i \in UpTo(i)
      BY <1>3, <2>2 DEF UpTo
    <3>3. Cardinality(UpTo(i)) # 0
      BY <3>1, <3>2, FS_EmptySet, Zenon
    <3>4. Cardinality(UpTo(i)) \in 1 .. Cardinality(Keep)
      BY <1>4, <3>1, <3>3
    <3>5. line[Cardinality(UpTo(i))] = heard[i]
      BY <1>1, <2>2, FaithfulIs, Zenon
    <3>6. QED BY <1>2, <1>3, <1>5, <1>7, <2>2, <3>4, <3>5, Zenon
  <2>3. QED BY <1>3, <2>1, <2>2, Zenon
<1>9. ASSUME NEW i \in Keep'
      PROVE  Cardinality(Entered(i)') = Cardinality(Deleted(i)') + Cardinality(After(i)')
  <2>1. CASE i = m
    <3>1. m + 1 .. m = {}
      BY <1>0
    <3>2. Entered(i)' = {} /\ Deleted(i)' = {} /\ After(i)' = {}
      BY <1>2, <1>6, <2>1, <3>1, Zenon DEF Entered, Deleted
    <3>3. QED BY <3>2, FS_EmptySet
  <2>2. CASE i \in Keep
    <3>1. i \in 1 .. Len(heard)
      BY <1>0, <1>3, <2>2, Zenon
    <3>2. /\ Cardinality(Entered(i)') = Cardinality(Entered(i)) + 1
          /\ Cardinality(Deleted(i)') = Cardinality(Deleted(i))
          /\ Cardinality(Entered(i)) \in Nat /\ Cardinality(Deleted(i)) \in Nat
      <4>1. key \notin {0, KEY_BACKSPACE} /\ key # KEY_BACKSPACE
        OBVIOUS
      <4>2. /\ Cardinality(Deleted(i)) \in Nat /\ Cardinality(Entered(i)) \in Nat
            /\ Cardinality(Deleted(i)') =
                 Cardinality(Deleted(i)) + IF key = KEY_BACKSPACE THEN 1 ELSE 0
            /\ Cardinality(Entered(i)') =
                 Cardinality(Entered(i)) + IF key \in {0, KEY_BACKSPACE} THEN 0 ELSE 1
        BY <1>1, <3>1, OneMoreCounted, Zenon
      <4>3. QED BY <4>1, <4>2
    <3>3. /\ Cardinality(After(i)') = Cardinality(After(i)) + 1 /\ Cardinality(After(i)) \in Nat
      BY <1>1, <1>5, <2>2, KeepFinite, FS_AddElement, Zenon
    <3>4. Cardinality(Entered(i)) = Cardinality(Deleted(i)) + Cardinality(After(i))
      BY <2>2, Zenon DEF LineInv
    <3>5. QED BY <3>2, <3>3, <3>4
  <2>3. QED BY <1>3, <2>1, <2>2, Zenon
<1>10. LineFaithful'
  BY <1>4, <1>7, <1>8, FaithfulIs, Zenon
<1>11. QED BY <1>2, <1>9, <1>10, Zenon DEF LineInv

\* Backspace: the last kept key goes, and with it the last byte of the buffer; on an
\* empty line nothing is kept and nothing goes.
LEMMA BackLine ==
  ASSUME LineInv, heard' = Append(heard, KEY_BACKSPACE), line \in Seq(Nat),
         line' = IF line = <<>> THEN <<>> ELSE Front(line)
  PROVE  LineInv'
<1>0. PICK n \in Nat : n = Len(heard)
  BY LenProperties DEF LineInv
<1>1. heard \in Seq(Nat) /\ LineFaithful
  BY DEF LineInv
<1>2. KEY_BACKSPACE \in Nat /\ KEY_BACKSPACE # KEY_ENTER
  BY DEF KEY_ENTER, KEY_BACKSPACE
<1>3. heard' \in Seq(Nat) /\ \A k \in 1 .. n : heard'[k] = heard[k]
  BY <1>0, <1>1, <1>2, OneMore
<1>4. /\ Keep \subseteq 1 .. n /\ IsFiniteSet(Keep) /\ Cardinality(Keep) \in Nat
      /\ Keep' = {i \in Keep : Cardinality(Deleted(i)) + 1 <= Cardinality(Entered(i))}
  BY <1>0, <1>1, <1>2, KeepAfter, KeepFinite, Zenon
<1>5. ASSUME NEW i \in Keep PROVE i \in Keep' <=> After(i) # {}
  <2>1. i \in 1 .. Len(heard)
    BY <1>0, <1>4, Zenon
  <2>2. Cardinality(Entered(i)) \in Nat /\ Cardinality(Deleted(i)) \in Nat
    BY <1>1, <1>2, <2>1, OneMoreCounted, Zenon
  <2>3. /\ Cardinality(After(i)) \in Nat /\ IsFiniteSet(After(i))
        /\ Cardinality(Entered(i)) = Cardinality(Deleted(i)) + Cardinality(After(i))
    BY <1>1, KeepFinite, Zenon DEF LineInv
  <2>4. Cardinality(After(i)) = 0 <=> After(i) = {}
    BY <2>3, FS_EmptySet, Zenon
  <2>5. Cardinality(Deleted(i)) + 1 <= Cardinality(Entered(i)) <=> After(i) # {}
    BY <2>2, <2>3, <2>4
  <2>6. QED BY <1>4, <2>5, Zenon
<1>6. Len(line) = Cardinality(Keep)
  BY <1>1, FaithfulIs, Zenon
<1>7. CASE Keep = {}
  <2>1. Keep' = {} /\ Len(line) = 0
    BY <1>4, <1>6, <1>7, FS_EmptySet, Zenon
  <2>2. line' = <<>>
    BY <2>1, EmptySeq, LenProperties, Zenon
  <2>3. Len(line') = Cardinality(Keep')
    BY <2>1, <2>2, FS_EmptySet, Zenon
  <2>4. LineFaithful'
    BY <2>1, <2>3, FaithfulIs, Zenon
  <2>5. QED BY <1>3, <2>1, <2>4, Zenon DEF LineInv
<1>8. CASE Keep # {}
  <2>1. PICK m \in Keep : \A k \in Keep : k <= m
    BY <1>4, <1>8, GreatestMember, Zenon
  <2>2. Keep' = Keep \ {m}
    <3>1. After(m) = {}
      <4>1. \A k \in Keep : ~ (m < k)
        BY <1>4, <2>1
      <4>2. QED BY <4>1, Zenon DEF After
    <3>2. ASSUME NEW i \in Keep, i # m PROVE After(i) # {}
      BY <1>4, <2>1, <3>2 DEF After
    <3>3. Keep' \subseteq Keep
      BY <1>4, Zenon
    <3>4. QED BY <1>5, <2>1, <3>1, <3>2, <3>3, Zenon
  <2>3. Cardinality(Keep') = Cardinality(Keep) - 1 /\ IsFiniteSet(Keep')
    BY <1>4, <2>1, <2>2, FS_RemoveElement
  <2>4. Cardinality(Keep) # 0
    BY <1>4, <1>8, FS_EmptySet, Zenon
  <2>5. /\ line' \in Seq(Nat) /\ Len(line') = Cardinality(Keep) - 1
        /\ \A k \in 1 .. Cardinality(Keep) - 1 : line'[k] = line[k]
    <3>1. line # <<>>
      BY <1>6, <2>4, EmptySeq, Zenon
    <3>2. line' = SubSeq(line, 1, Len(line) - 1)
      BY <3>1, Zenon DEF Front
    <3>3. Len(line) \in Nat /\ \A k \in 1 .. Len(line) : line[k] \in Nat
      BY LenProperties, ElementOfSeq, Zenon
    <3>4. PICK l \in Nat : l = Len(line) - 1
      BY <1>6, <2>4, <3>3
    <3>5. \A k \in 1 .. l : line[k] \in Nat
      BY <3>3, <3>4
    <3>6. /\ SubSeq(line, 1, l) \in Seq(Nat)
          /\ Len(SubSeq(line, 1, l)) = IF 1 <= l THEN l - 1 + 1 ELSE 0
          /\ \A k \in 1 .. l - 1 + 1 : SubSeq(line, 1, l)[k] = line[1 + k - 1]
      BY <3>5, SubSeqProperties
    <3>7. Len(SubSeq(line, 1, l)) = l /\ \A k \in 1 .. l : SubSeq(line, 1, l)[k] = line[k]
      BY <3>6
    <3>8. QED BY <1>6, <3>2, <3>4, <3>6, <3>7, Zenon
  <2>6. ASSUME NEW i \in Keep'
        PROVE  UpTo(i)' = UpTo(i) /\ After(i)' = After(i) \ {m} /\ m \in After(i)
    <3>1. i \in Keep /\ i < m /\ ~ (m <= i)
      BY <1>4, <2>1, <2>2
    <3>2. QED BY <2>1, <2>2, <3>1, Zenon DEF UpTo, After
  <2>7. ASSUME NEW i \in Keep' PROVE line'[Cardinality(UpTo(i)')] = heard'[i]
    <3>1. /\ IsFiniteSet(UpTo(i)) /\ Cardinality(UpTo(i)) \in Nat /\ i \in Keep
      BY <1>1, <2>2, KeepFinite, Zenon
    <3>2. UpTo(i) \subseteq Keep'
      BY <2>2, <2>6, Zenon DEF UpTo
    <3>3. Cardinality(UpTo(i)) <= Cardinality(Keep')
      BY <2>3, <3>2, FS_Subset, Zenon
    <3>4. i \in UpTo(i)
      BY <1>4, <3>1 DEF UpTo
    <3>5. Cardinality(UpTo(i)) # 0
      BY <3>1, <3>4, FS_EmptySet, Zenon
    <3>6. Cardinality(UpTo(i)) \in 1 .. Cardinality(Keep) - 1
      BY <1>4, <2>3, <3>1, <3>3, <3>5
    <3>7. line[Cardinality(UpTo(i))] = heard[i]
      BY <1>1, <3>1, FaithfulIs, Zenon
    <3>8. i \in 1 .. n
      BY <1>4, <3>1, Zenon
    <3>9. QED BY <1>3, <2>5, <2>6, <3>6, <3>7, <3>8, Zenon
  <2>8. ASSUME NEW i \in Keep'
        PROVE  Cardinality(Entered(i)') = Cardinality(Deleted(i)') + Cardinality(After(i)')
    <3>1. i \in Keep /\ i \in 1 .. Len(heard)
      BY <1>0, <1>4, <2>2, Zenon
    <3>2. /\ Cardinality(Deleted(i)) \in Nat /\ Cardinality(Entered(i)) \in Nat
          /\ Cardinality(Deleted(i)') =
               Cardinality(Deleted(i)) + IF KEY_BACKSPACE = KEY_BACKSPACE THEN 1 ELSE 0
          /\ Cardinality(Entered(i)') =
               Cardinality(Entered(i))
                 + IF KEY_BACKSPACE \in {0, KEY_BACKSPACE} THEN 0 ELSE 1
      BY <1>1, <1>2, <3>1, OneMoreCounted, Zenon
    <3>3. /\ Cardinality(Entered(i)') = Cardinality(Entered(i))
          /\ Cardinality(Deleted(i)') = Cardinality(Deleted(i)) + 1
          /\ Cardinality(Entered(i)) \in Nat /\ Cardinality(Deleted(i)) \in Nat
      BY <3>2
    <3>4. Cardinality(After(i)') = Cardinality(After(i)) - 1 /\ Cardinality(After(i)) \in Nat
      BY <1>1, <2>6, KeepFinite, FS_RemoveElement, Zenon
    <3>5. Cardinality(Entered(i)) = Cardinality(Deleted(i)) + Cardinality(After(i))
      BY <3>1, Zenon DEF LineInv
    <3>6. QED BY <3>3, <3>4, <3>5
  <2>9. LineFaithful'
    BY <2>3, <2>5, <2>7, FaithfulIs, Zenon
  <2>10. QED BY <1>3, <2>8, <2>9, Zenon DEF LineInv
<1>9. QED BY <1>7, <1>8

\* The keyboard's handler passes a byte to the shell, or to nobody.
LEMMA KeyboardLine ==
  ASSUME IInv, LineInv, keyboard_isr
  PROVE  LineInv'
<1> DEFINE key == keyboard_translate_scan_code(Head(fifo))
<1>1. key \in 0 .. 255 /\ line \in Seq(Nat)
  <2>1. fifo # <<>> /\ fifo \in Seq(1 .. 255) /\ line \in Seq(1 .. 255)
    BY DEF keyboard_isr, IInv, KeyInv, TypeOK
  <2>2. Head(fifo) \in 1 .. 255
    BY <2>1, HeadTailProperties
  <2>3. 1 .. 255 \subseteq Nat
    OBVIOUS
  <2>4. line \in Seq(Nat)
    BY <2>1, <2>3, SeqMonotonic, Zenon
  <2>5. QED BY <2>2, <2>4, TranslationIsByte, Zenon
<1>2. \/ shell_keyboard_handler(key) /\ heard' = Append(heard, key)
      \/ UNCHANGED <<line, heard>>
  BY Zenon DEF keyboard_isr, shell
<1> HIDE DEF key
<1>3. CASE UNCHANGED <<line, heard>>
  BY <1>3, LineKept
<1>4. CASE shell_keyboard_handler(key) /\ heard' = Append(heard, key)
  <2>1. key \in Nat /\ heard \in Seq(Nat)
    BY <1>1 DEF LineInv
  <2>2. KEY_ENTER # KEY_BACKSPACE /\ KEY_ENTER # 0 /\ KEY_BACKSPACE # 0
    BY DEF KEY_ENTER, KEY_BACKSPACE
  <2>3. CASE key = KEY_ENTER
    BY <1>4, <2>1, <2>2, <2>3, EnterLine, Zenon
       DEF shell_keyboard_handler, shell_clear_input_buffer
  <2>4. CASE key = KEY_BACKSPACE
    BY <1>1, <1>4, <2>2, <2>4, BackLine, Zenon
       DEF shell_keyboard_handler, shell_delete_from_input_buffer
  <2>5. CASE key = 0
    BY <1>4, <2>2, <2>5, SilentLine, Zenon DEF shell_keyboard_handler
  <2>6. CASE key \notin {0, KEY_ENTER, KEY_BACKSPACE}
    <3>1. line' = Append(line, key)
      BY <1>4, <2>6, Zenon DEF shell_keyboard_handler
    <3>2. QED BY <1>1, <1>4, <2>1, <2>6, <3>1, CharLine, Zenon
  <2>7. QED BY <2>3, <2>4, <2>5, <2>6, Zenon
<1>5. QED BY <1>2, <1>3, <1>4

\* input_buffer holds just the keys since the last Enter that were not deleted again, in
\* the order in which they were typed: whatever the keys, however many Backspaces find
\* an empty line, and whatever interrupts and switches come between them.
THEOREM LineAlwaysFaithful == Spec => []LineFaithful
<1>1. Init => LineInv
  <2> SUFFICES ASSUME Init PROVE LineInv
    OBVIOUS
  <2>1. heard = <<>> /\ line = <<>>
    BY Zenon DEF Init
  <2>2. heard \in Seq(Nat) /\ Keep = {}
    BY <2>1 DEF Keep, Recent
  <2>3. LineFaithful
    BY <2>1, <2>2, FaithfulIs, FS_EmptySet, Zenon
  <2>4. QED BY <2>2, <2>3, Zenon DEF LineInv
<1>2. IInv /\ LineInv /\ [Next]_vars => LineInv'
  <2> SUFFICES ASSUME IInv, LineInv, [Next]_vars PROVE LineInv'
    OBVIOUS
  <2>1. CASE keyboard_isr
    BY <2>1, KeyboardLine
  <2>2. CASE ~keyboard_isr
    <3>1. UNCHANGED <<line, heard>>
      BY <2>2, Zenon DEF Next, vars, tick, device, press, accept, exception, syscall,
         syscall_handler, shell_init, isr_enter, timer_tick, no_handler, isr_exit, shell
    <3>2. QED BY <3>1, LineKept, Zenon
  <2>3. QED BY <2>1, <2>2
<1>3. LineInv => LineFaithful
  BY Zenon DEF LineInv
<1>4. QED BY <1>1, <1>2, <1>3, InitInv, NextInv, PTL DEF Spec

=============================================================================
