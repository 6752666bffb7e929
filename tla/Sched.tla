-------------------------------- MODULE Sched --------------------------------
(***************************************************************************)
(* Tasks and the round-robin scheduler: kernel/sched/task.c on one CPU,    *)
(* with the interrupts that drive it (arch/x86/kernel/interrupts.c,        *)
(* timer.c) and the spinlocks of arch/x86/kernel/sync.c.                   *)
(*                                                                         *)
(* A task struct lives in a slot of kernel memory that kmalloc() hands out *)
(* and kfree() takes back; kfree() overwrites only the first word, so the  *)
(* fields used here survive in a freed slot until it is reused.  The task  *)
(* list is the pointer structure of include/rotary/list.h.                 *)
(*                                                                         *)
(* Interrupt gates clear IF: while an interrupt handler runs, nothing else *)
(* does.  A handler that finds a spinlock taken therefore spins for ever,  *)
(* which is a state without successor here.                                *)
(***************************************************************************)
EXTENDS Integers, FiniteSets

CONSTANTS
  Slot,     \* the places in kernel memory for a struct task
  Idle,     \* the slot of the idle task, ID 0
  Head,     \* task_head, the struct that heads the task list
  Irq,      \* the keyboard interrupt handler, as an execution context
  None,     \* the NULL pointer; the value of a free lock
  Ops,      \* what tasks call: "create", "kill", "exit", "print", "page"
  IrqOps,   \* what shell commands call inside the keyboard interrupt
  MaxId     \* bound: task IDs handed out stay below it

Node == Slot \cup {Head}
Ctx  == Slot \cup {Irq}

ASSUME SchedConstants ==
  /\ IsFiniteSet(Slot)
  /\ Idle \in Slot
  /\ Head \notin Slot /\ Irq \notin Node /\ None \notin Node \cup {Irq}
  /\ Ops \subseteq {"create", "kill", "exit", "print", "page"}
  /\ IrqOps \subseteq {"create", "print"}
  /\ MaxId \in Nat \ {0}

VARIABLES
  state, id, kstack, vm_space,  \* fields of struct task (the last two: set or NULL)
  next, prev,      \* list_node of each struct task
  heap,            \* the slots kmalloc() has handed out
  stacks, spaces,  \* kernel stacks and address spaces not yet freed
  task_lock,       \* the context that holds task_lock, or None
  page_lock,       \* the context that holds buddy_allocator.lock, or None
  last_task_id,
  current,         \* cpu_get_local()->current_task
  pc, arg, ptr,    \* of each context: where it is, its task_id, its struct task *
  isr,             \* the interrupt handler: "off", "kbd", "purge" or "pick"
  entry, tmp       \* its list cursors

fields   == <<state, id, kstack, vm_space>>
links    == <<next, prev>>
memory   == <<heap, stacks, spaces>>
locks    == <<task_lock, page_lock>>
threads  == <<pc, arg, ptr>>
handler  == <<isr, entry, tmp>>
vars == <<state, id, kstack, vm_space, next, prev, heap, stacks, spaces,
          task_lock, page_lock, last_task_id, current, pc, arg, ptr,
          isr, entry, tmp>>

\* Whose instructions the CPU executes
Running(x) == IF isr = "kbd" THEN x = Irq ELSE isr = "off" /\ x = current

Runnable(n) == state[n] \in {"WAITING", "RUNNING"}

\* The nodes met when following next from the head of the list
Listed ==
  LET walk[k \in 1 .. Cardinality(Node)] ==
        IF k = 1 THEN next[Head] ELSE next[walk[k - 1]]
  IN {n \in Slot : \E k \in DOMAIN walk :
                     walk[k] = n /\ \A j \in 1 .. k : walk[j] # Head}

-----------------------------------------------------------------------------
(* list.h *)

clist_add(n) ==
  /\ next' = [next EXCEPT ![n] = next[Head], ![Head] = n]
  /\ prev' = [prev EXCEPT ![next[Head]] = n, ![n] = Head]

\* Mutant: only one of the two neighbours is updated
DeleteForgetsPrev(n) ==
  /\ next' = [next EXCEPT ![prev[n]] = next[n]]
  /\ UNCHANGED prev

\* Mutant: the removed node is initialised again
DeleteSelfLinks(n) ==
  /\ next' = [next EXCEPT ![prev[n]] = next[n], ![n] = n]
  /\ prev' = [prev EXCEPT ![next[n]] = prev[n], ![n] = n]

\* The removed node keeps its pointers.
clist_delete_node(n) ==
  /\ next' = [next EXCEPT ![prev[n]] = next[n]]
  /\ prev' = [prev EXCEPT ![next[n]] = prev[n]]

-----------------------------------------------------------------------------
(* task_init(): the idle task continues kernel_main(), the scheduler is on *)

Init ==
  /\ state = [n \in Node |-> IF n = Idle THEN "RUNNING" ELSE "INVALID"]
  /\ id = [n \in Slot |-> 0]
  /\ kstack = [n \in Slot |-> FALSE]
  /\ vm_space = [n \in Slot |-> n = Idle]
  /\ next = [n \in Node |-> CASE n = Head -> Idle [] n = Idle -> Head [] OTHER -> n]
  /\ prev = next
  /\ heap = {Idle}
  /\ stacks = 0
  /\ spaces = 1
  /\ task_lock = None
  /\ page_lock = None
  /\ last_task_id = 1
  /\ current = Idle
  /\ pc = [x \in Ctx |-> "idle"]
  /\ arg = [x \in Ctx |-> 0]
  /\ ptr = [x \in Ctx |-> None]
  /\ isr = "off"
  /\ entry = Head
  /\ tmp = Head

Goto(x, l) == pc' = [pc EXCEPT ![x] = l]

\* A call returns: its local variables are gone
Return(x) ==
  /\ Goto(x, "idle")
  /\ arg' = [arg EXCEPT ![x] = 0]
  /\ ptr' = [ptr EXCEPT ![x] = None]

\* A call without arguments begins: task_create(), task_exit_current(),
\* task_print(), and page_alloc() or page_free() by the code of the task.
\* kernel_main(), the idle task, never exits.
Call(x, op) ==
  /\ Running(x)
  /\ pc[x] = "idle"
  /\ x # Irq /\ op \in Ops \ {"kill"}
  /\ op = "exit" => x # Idle
  /\ Goto(x, op)
  /\ UNCHANGED <<fields, links, memory, locks, last_task_id, current, arg, ptr,
                 handler>>

-----------------------------------------------------------------------------
(* task_create().  An invalid state or priority returns NULL at once. *)

task_create_lock(x) ==
  /\ Running(x)
  /\ pc[x] = "create"
  /\ task_lock = None
  /\ task_lock' = x
  /\ Goto(x, "struct")
  /\ UNCHANGED <<fields, links, memory, page_lock, last_task_id, current, arg,
                 ptr, handler>>

\* kmalloc(), memset(), clist_init(), and the next ID; the slot starts a new
\* thread of execution.
task_alloc_struct(x) ==
  /\ Running(x)
  /\ pc[x] = "struct"
  /\ last_task_id < MaxId
  /\ \E n \in Slot \ heap, st \in {"WAITING", "PAUSED"} :
       /\ heap' = heap \cup {n}
       /\ id' = [id EXCEPT ![n] = last_task_id]
       /\ state' = [state EXCEPT ![n] = st]
       /\ kstack' = [kstack EXCEPT ![n] = FALSE]
       /\ vm_space' = [vm_space EXCEPT ![n] = FALSE]
       /\ next' = [next EXCEPT ![n] = n]
       /\ prev' = [prev EXCEPT ![n] = n]
       /\ pc' = [pc EXCEPT ![x] = "stack", ![n] = "idle"]
       /\ arg' = [arg EXCEPT ![n] = 0]
       /\ ptr' = [ptr EXCEPT ![x] = n, ![n] = None]
  /\ last_task_id' = last_task_id + 1
  /\ UNCHANGED <<stacks, spaces, locks, current, handler>>

\* kmalloc() returns NULL
task_alloc_struct_fail(x) ==
  /\ Running(x)
  /\ pc[x] = "struct"
  /\ Goto(x, "cleanup")
  /\ UNCHANGED <<fields, links, memory, locks, last_task_id, current, arg, ptr,
                 handler>>

\* page_alloc() of the kernel stack, which takes the allocator's lock
task_create_kernel_stack(x) ==
  /\ Running(x)
  /\ pc[x] = "stack"
  /\ page_lock = None
  /\ \/ /\ kstack' = [kstack EXCEPT ![ptr[x]] = TRUE]
        /\ stacks' = stacks + 1
        /\ Goto(x, "space")
     \/ Goto(x, "cleanup") /\ UNCHANGED <<kstack, stacks>>
  /\ UNCHANGED <<state, id, vm_space, links, heap, spaces, locks, last_task_id,
                 current, arg, ptr, handler>>

task_create_vm_space(x) ==
  /\ Running(x)
  /\ pc[x] = "space"
  /\ page_lock = None
  /\ \/ /\ vm_space' = [vm_space EXCEPT ![ptr[x]] = TRUE]
        /\ spaces' = spaces + 1
        /\ Goto(x, "publish")
     \/ Goto(x, "cleanup") /\ UNCHANGED <<vm_space, spaces>>
  /\ UNCHANGED <<state, id, kstack, links, heap, stacks, locks, last_task_id,
                 current, arg, ptr, handler>>

\* arch_task_create() cannot fail; clist_add() and unlock()
task_create_publish(x) ==
  /\ Running(x)
  /\ pc[x] = "publish"
  /\ clist_add(ptr[x])
  /\ Return(x)
  /\ task_lock' = None
  /\ UNCHANGED <<fields, memory, page_lock, last_task_id, current, handler>>

\* Mutant: the NULL test of task_destroy_kernel_stack() is missing
DestroyUnchecked(n) ==
  /\ spaces' = IF n # None /\ vm_space[n] THEN spaces - 1 ELSE spaces
  /\ stacks' = IF n # None THEN stacks - 1 ELSE stacks
  /\ heap' = heap \ {n}

\* Give back what slot n owns: task_destroy_vm_space(),
\* task_destroy_kernel_stack() and kfree(), all of which accept NULL
Destroy(n) ==
  /\ spaces' = IF n # None /\ vm_space[n] THEN spaces - 1 ELSE spaces
  /\ stacks' = IF n # None /\ kstack[n] THEN stacks - 1 ELSE stacks
  /\ heap' = heap \ {n}

\* Destroying slot n calls page_free()
FreesPages(n) == n # None /\ (vm_space[n] \/ kstack[n])

\* Mutant: the failing path frees the struct and nothing else
CleanupLeaks(x) ==
  /\ Running(x)
  /\ pc[x] = "cleanup"
  /\ heap' = heap \ {ptr[x]}
  /\ Return(x)
  /\ task_lock' = None
  /\ UNCHANGED <<fields, links, stacks, spaces, page_lock, last_task_id, current,
                 handler>>

\* Mutant: the failing path forgets unlock()
CleanupKeepsLock(x) ==
  /\ Running(x)
  /\ pc[x] = "cleanup"
  /\ FreesPages(ptr[x]) => page_lock = None
  /\ Destroy(ptr[x])
  /\ Return(x)
  /\ UNCHANGED <<fields, links, locks, last_task_id, current, handler>>

task_create_cleanup(x) ==
  /\ Running(x)
  /\ pc[x] = "cleanup"
  /\ FreesPages(ptr[x]) => page_lock = None
  /\ Destroy(ptr[x])
  /\ Return(x)
  /\ task_lock' = None
  /\ UNCHANGED <<fields, links, page_lock, last_task_id, current, handler>>

-----------------------------------------------------------------------------
(* task_kill(), task_exit_current() *)

\* ID 0 is refused
task_kill(x, i) ==
  /\ Running(x)
  /\ pc[x] = "idle"
  /\ x # Irq /\ "kill" \in Ops /\ i # 0
  /\ Goto(x, "find")
  /\ arg' = [arg EXCEPT ![x] = i]
  /\ UNCHANGED <<fields, links, memory, locks, last_task_id, current, ptr, handler>>

\* lock() in task_get_from_id(), in task_print() and in task_exit_current(), and
\* the second lock() of task_kill()
task_lock_acquire(x) ==
  /\ Running(x)
  /\ pc[x] \in {"find", "kill", "exit", "print"}
  /\ task_lock = None
  /\ task_lock' = x
  /\ Goto(x, CASE pc[x] = "find" -> "search" [] pc[x] = "kill" -> "mark"
               [] pc[x] = "exit" -> "leave" [] pc[x] = "print" -> "unlock")
  /\ UNCHANGED <<fields, links, memory, page_lock, last_task_id, current, arg,
                 ptr, handler>>

\* The search of task_get_from_id() and its unlock()
task_get_from_id(x) ==
  /\ Running(x)
  /\ pc[x] = "search"
  /\ task_lock' = None
  /\ \/ \E n \in Listed : /\ id[n] = arg[x]
                          /\ ptr' = [ptr EXCEPT ![x] = n]
                          /\ Goto(x, "check")
                          /\ UNCHANGED arg
     \/ (\A n \in Listed : id[n] # arg[x]) /\ Return(x)
  /\ UNCHANGED <<fields, links, memory, page_lock, last_task_id, current, handler>>

\* Is the task in a killable state?  Read without the lock.
task_kill_check(x) ==
  /\ Running(x)
  /\ pc[x] = "check"
  /\ IF state[ptr[x]] \in {"RUNNING", "WAITING", "PAUSED"}
       THEN Goto(x, "kill") /\ UNCHANGED <<arg, ptr>>
       ELSE Return(x)
  /\ UNCHANGED <<fields, links, memory, locks, last_task_id, current, handler>>

task_kill_mark(x) ==
  /\ Running(x)
  /\ pc[x] = "mark"
  /\ state' = [state EXCEPT ![ptr[x]] = "KILLED"]
  /\ Goto(x, "unlock")
  /\ UNCHANGED <<id, kstack, vm_space, links, memory, locks, last_task_id, current,
                 arg, ptr, handler>>

task_exit_current(x) ==
  /\ Running(x)
  /\ pc[x] = "leave"
  /\ state' = [state EXCEPT ![current] = "KILLED"]
  /\ Goto(x, "unlock")
  /\ UNCHANGED <<id, kstack, vm_space, links, memory, locks, last_task_id, current,
                 arg, ptr, handler>>

task_lock_release(x) ==
  /\ Running(x)
  /\ pc[x] = "unlock"
  /\ task_lock' = None
  /\ Return(x)
  /\ UNCHANGED <<fields, links, memory, page_lock, last_task_id, current, handler>>

-----------------------------------------------------------------------------
(* The page allocator's critical section, entered by the code of a task *)

page_lock_acquire(x) ==
  /\ Running(x)
  /\ pc[x] = "page"
  /\ page_lock = None
  /\ page_lock' = x
  /\ Goto(x, "pages")
  /\ UNCHANGED <<fields, links, memory, task_lock, last_task_id, current, arg, ptr,
                 handler>>

page_lock_release(x) ==
  /\ Running(x)
  /\ pc[x] = "pages"
  /\ page_lock' = None
  /\ Return(x)
  /\ UNCHANGED <<fields, links, memory, task_lock, last_task_id, current, handler>>

-----------------------------------------------------------------------------
(* Interrupts *)

\* A key that completes a shell command: the command runs in the handler
keyboard_isr(op) ==
  /\ isr = "off"
  /\ isr' = "kbd"
  /\ Goto(Irq, op)
  /\ UNCHANGED <<fields, links, memory, locks, last_task_id, current, arg, ptr,
                 entry, tmp>>

keyboard_return ==
  /\ isr = "kbd"
  /\ pc[Irq] = "idle"
  /\ isr' = "off"
  /\ UNCHANGED <<fields, links, memory, locks, last_task_id, current, threads,
                 entry, tmp>>

\* timer_tick() calls task_schedule(), which begins to purge
timer_tick ==
  /\ isr = "off"
  /\ isr' = "purge"
  /\ entry' = next[Head]
  /\ tmp' = next[next[Head]]
  /\ UNCHANGED <<fields, links, memory, locks, last_task_id, current, threads>>

\* task_purge_killed_tasks() passes over a task; task_purge() refuses ID 0
purge_skip ==
  /\ isr = "purge"
  /\ entry # Head
  /\ state[entry] # "KILLED" \/ id[entry] = 0
  /\ entry' = tmp
  /\ tmp' = next[tmp]
  /\ UNCHANGED <<fields, links, memory, locks, last_task_id, current, threads, isr>>

\* task_purge() finds the task by its ID under task_lock, makes sure that it is
\* KILLED, unlinks it and frees what it owns.
task_purge ==
  /\ isr = "purge"
  /\ entry # Head
  /\ state[entry] = "KILLED" /\ id[entry] # 0
  /\ task_lock = None /\ page_lock = None
  /\ \E t \in Listed : /\ id[t] = id[entry] /\ state[t] = "KILLED"
                       /\ clist_delete_node(t)
                       /\ Destroy(t)
  /\ entry' = tmp
  /\ tmp' = next'[tmp]
  /\ UNCHANGED <<fields, locks, last_task_id, current, threads, isr>>

\* Mutant: the successor is looked up from the head of the list
PickFromHead ==
  /\ isr = "purge"
  /\ entry = Head
  /\ isr' = "pick"
  /\ entry' = next[Head]
  /\ UNCHANGED <<fields, links, memory, locks, last_task_id, current, threads, tmp>>

\* The purge is done.  next_node is read from the current task, which the purge
\* may have freed.
pick_start ==
  /\ isr = "purge"
  /\ entry = Head
  /\ isr' = "pick"
  /\ entry' = next[current]
  /\ UNCHANGED <<fields, links, memory, locks, last_task_id, current, threads, tmp>>

\* The head of the list, state INVALID, is passed over like a task that cannot run
pick_skip ==
  /\ isr = "pick"
  /\ ~Runnable(entry)
  /\ entry' = next[entry]
  /\ UNCHANGED <<fields, links, memory, locks, last_task_id, current, threads, isr,
                 tmp>>

\* Set the states and switch: arch_task_switch() resumes the other thread
pick_switch ==
  /\ isr = "pick"
  /\ Runnable(entry)
  /\ current' = entry
  /\ state' = [state EXCEPT ![current] = IF @ = "RUNNING" THEN "WAITING" ELSE @,
                            ![entry] = "RUNNING"]
  /\ isr' = "off"
  /\ entry' = Head
  /\ tmp' = Head
  /\ UNCHANGED <<id, kstack, vm_space, links, memory, locks, last_task_id, threads>>

-----------------------------------------------------------------------------

Step(x) ==
  \/ task_create_lock(x)
  \/ task_alloc_struct(x)
  \/ task_alloc_struct_fail(x)
  \/ task_create_kernel_stack(x)
  \/ task_create_vm_space(x)
  \/ task_create_publish(x)
  \/ task_create_cleanup(x)
  \/ task_lock_acquire(x)
  \/ task_get_from_id(x)
  \/ task_kill_check(x)
  \/ task_kill_mark(x)
  \/ task_exit_current(x)
  \/ task_lock_release(x)
  \/ page_lock_acquire(x)
  \/ page_lock_release(x)

Handler ==
  \/ keyboard_return
  \/ purge_skip
  \/ task_purge
  \/ pick_start
  \/ pick_skip
  \/ pick_switch

Next ==
  \/ \E x \in Ctx : Step(x)
  \/ \E x \in Ctx, op \in Ops : Call(x, op)
  \/ \E x \in Ctx, i \in 1 .. MaxId - 1 : task_kill(x, i)
  \/ \E op \in IrqOps : keyboard_isr(op)
  \/ timer_tick
  \/ Handler

Spec == Init /\ [][Next]_vars

\* The CPU executes the handler it is in, the PIT keeps firing between handlers,
\* and a task that is given the CPU again and again gets on with its call.
Fairness ==
  /\ WF_vars(Handler \/ Step(Irq))
  /\ SF_vars(timer_tick)
  /\ \A x \in Slot : SF_vars(Step(x))

FairSpec == Spec /\ Fairness

\* Nothing but the CPU's progress through the handler it is in
HandlerSpec == Spec /\ WF_vars(Handler)

-----------------------------------------------------------------------------
(* Properties *)

\* Every variable has the type of the C object it stands for.
TypeOK ==
  /\ state \in [Node -> {"INVALID", "RUNNING", "WAITING", "PAUSED", "KILLED"}]
  /\ id \in [Slot -> 0 .. MaxId - 1]
  /\ kstack \in [Slot -> BOOLEAN]
  /\ vm_space \in [Slot -> BOOLEAN]
  /\ next \in [Node -> Node]
  /\ prev \in [Node -> Node]
  /\ heap \subseteq Slot
  /\ stacks \in Nat
  /\ spaces \in Nat
  /\ task_lock \in Ctx \cup {None}
  /\ page_lock \in Ctx \cup {None}
  /\ last_task_id \in 1 .. MaxId
  /\ current \in Slot
  /\ pc \in [Ctx -> {"idle", "create", "struct", "stack", "space", "publish",
                     "cleanup", "find", "search", "check", "kill", "mark", "exit",
                     "leave", "print", "unlock", "page", "pages"}]
  /\ arg \in [Ctx -> 0 .. MaxId - 1]
  /\ ptr \in [Ctx -> Slot \cup {None}]
  /\ isr \in {"off", "kbd", "purge", "pick"}
  /\ entry \in Node
  /\ tmp \in Node

\* The task list survives creation, killing and the purge that removes nodes
\* while it walks the list: it is a circle through the head, links both ways, and
\* holds no freed struct, no task without a stack and an address space, and no two
\* tasks with the ID by which task_purge() looks them up.  Whenever the scheduler has
\* finished, the current task is on the list, it is the only one marked RUNNING, and
\* it is never PAUSED or WAITING: following the next pointer of a current task that
\* was just freed leads back to a live task.
ListIntact ==
  LET on == Listed \cup {Head} IN
  /\ \A n \in on : next[n] \in on /\ prev[next[n]] = n
  /\ Listed \subseteq heap
  /\ \A n \in Listed \ {Idle} : kstack[n] /\ vm_space[n]
  /\ \A m, n \in Listed : m # n => id[m] # id[n]
  /\ isr \in {"off", "kbd"} =>
       /\ current \in Listed
       /\ state[current] \in {"RUNNING", "KILLED"}
       /\ \A n \in Listed \ {current} : state[n] # "RUNNING"

\* Every kernel stack and address space belongs to an allocated task struct:
\* neither the failing paths of task_create() nor task_purge() lose or doubly
\* free one.
ResourcesOwned ==
  /\ stacks = Cardinality({n \in heap : kstack[n]})
  /\ spaces = Cardinality({n \in heap : vm_space[n]})

\* task_create(), task_kill(), task_exit_current() and task_print() exclude each
\* other between lock() and unlock(), interrupts included.
CriticalSection ==
  \A x \in Ctx :
    pc[x] \in {"struct", "stack", "space", "publish", "cleanup", "search", "mark",
               "leave", "unlock"}
      <=> (task_lock = x)

\* The scheduler's loop ends: from a current task that the purge has freed, the
\* pointers left in freed memory lead back to a task that can run.
PickEnds == isr = "pick" ~> isr = "off"

\* Round-robin is fair: a task that can run gets the CPU.
EveryTaskRuns ==
  \A n \in Slot : (n \in Listed /\ Runnable(n)) ~> (current = n /\ isr = "off")

\* task_lock is released in the end, although its holder may be preempted and the
\* others spin meanwhile.
TaskLockReleased == \A x \in Slot : task_lock = x ~> task_lock # x

\* "Marks the currently executing task as killed, so that the task will be purged
\* by the scheduler when ready."
KilledIsPurged ==
  \A n \in Slot : (n \in Listed /\ state[n] = "KILLED") ~> n \notin heap

=============================================================================
