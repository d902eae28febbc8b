------------------------------- MODULE Sched -------------------------------
(***************************************************************************)
(* The task scheduler of NBOS: the circular task queue, the preemption     *)
(* counter, the periodic tick that preempts a task and may nest in itself, *)
(* switch_to, the creation of kernel threads and of user processes, and    *)
(* sys_exit (kernel/task.c, kernel/syscall.c, arch/vector.S,               *)
(* arch/timer.c, init/init_task.c, include/list.h).                        *)
(*                                                                         *)
(* There is one CPU.  Each task has a kernel stack; `stack[t]' is the      *)
(* sequence of activations on it, oldest first, each with the place `at'   *)
(* where it stands.  Only the top activation of `cur' makes progress; a    *)
(* timer interrupt pushes a new one on the stack of whoever is running.    *)
(* A step is the longest piece of code that no interrupt can split         *)
(* observably: every place below is one where an interrupt can land.       *)
(***************************************************************************)
EXTENDS Integers, Sequences, FiniteSets

CONSTANTS
  init_task,   \* the descriptor of the boot task
  KThreads,    \* pages kthread_create may receive as a descriptor
  UTasks,      \* pages copy_process may receive as a descriptor, by their numbers
  NULL,        \* the null pointer
  MaxFrames    \* bound: activations on one kernel stack (nested ticks)

Tasks == {init_task} \cup KThreads \cup UTasks
Pointers == Tasks \cup {NULL}

ASSUME TasksAssumption ==
  /\ init_task \notin KThreads \cup UTasks
  /\ KThreads \cap UTasks = {}
  /\ KThreads # {} /\ UTasks # {}
  /\ NULL \notin Tasks
  /\ IsFiniteSet(KThreads) /\ IsFiniteSet(UTasks)
  /\ KThreads \cup UTasks \subseteq Nat
ASSUME MaxFramesAssumption == MaxFrames \in Nat \ {0}

VARIABLES
  cur,            \* current: the task whose kernel stack the CPU is on
  next,           \* the file-scope variable `next' of task.c
  state,          \* task_struct.state
  preempt_count,  \* task_struct.preempt_count
  list_next,      \* task_struct.list.next
  list_prev,      \* task_struct.list.prev
  stack,          \* the activations on each task's kernel stack
  ttbr0,          \* whose page table ttbr0_el1 holds (NULL: the boot value)
  image,          \* image[u]: for whom the program in u's user pages is
  irq_on          \* FALSE until init_main's enable_irq

queue_vars == <<list_next, list_prev>>
mm_vars == <<ttbr0, image>>
vars == <<cur, next, state, preempt_count, list_next, list_prev, stack,
          ttbr0, image, irq_on>>

(***************************************************************************)
(* Places.  The sections between preempt_disable and preempt_enable:       *)
(***************************************************************************)
CreateHeld == {"alloc", "memcpy", "mm_back", "add_next_prev",
               "add_new_next", "add_new_prev", "add_prev_next",
               "set_running", "create_done"}
SelectHeld == {"select", "select_done"}
SwitchHeld == {"check", "cpu_switch", "out"}
Held == CreateHeld \cup SelectHeld \cup SwitchHeld

BasePlaces == {"boot_kthread", "boot_execv", "boot_irq", "ret_from_fork",
               "kernel", "user"}
CreatePlaces == {"create"} \cup CreateHeld
SwitchPlaces == {"load_next", "switch_to", "ret"} \cup SwitchHeld
ExitPlaces == {"zombie", "schedule"} \cup SelectHeld \cup SwitchPlaces

\* arg: the descriptor being created, or the argument of switch_to;
\* prev: the `prev' argument of __list_add.
Frame == [op : {"base", "kthread", "execv", "tick", "exit"},
          at : BasePlaces \cup CreatePlaces \cup ExitPlaces,
          arg : Pointers, prev : Pointers]

frame(op, at) == [op |-> op, at |-> at, arg |-> NULL, prev |-> NULL]

SetTop(s, f) == [s EXCEPT ![Len(s)] = f]
Push(s, f) == Append(s, f)
Pop(s) == SubSeq(s, 1, Len(s) - 1)

top(t) == stack[t][Len(stack[t])]

\* The running task stands at place `at' of an activation of `ops'.
Here(ops, at) == top(cur).op \in ops /\ top(cur).at = at

MoveTo(at) == stack' = [stack EXCEPT ![cur] =
                          SetTop(@, [top(cur) EXCEPT !.at = at])]
\* The same, when the arguments are not used any more.
Leave(at) == stack' = [stack EXCEPT ![cur] =
                         SetTop(@, frame(top(cur).op, at))]
Call(op, at) == stack' = [stack EXCEPT ![cur] = Push(@, frame(op, at))]
Return == stack' = [stack EXCEPT ![cur] = Pop(@)]

mm(t) == IF t \in UTasks THEN t ELSE NULL

\* The value ttbr0_el1 has after switch_mm(m): a NULL mm changes nothing.
switch_mm(m) == IF m = NULL THEN ttbr0 ELSE m

preempt_disable == preempt_count' = [preempt_count EXCEPT ![cur] = @ + 1]
preempt_enable == preempt_count' = [preempt_count EXCEPT ![cur] = @ - 1]

(***************************************************************************)
(* init_main: interrupts are off until the last step.                      *)
(***************************************************************************)
Init ==
  /\ cur = init_task
  /\ next = NULL
  /\ state = [t \in Tasks |-> IF t = init_task THEN "RUNNING" ELSE "DEAD"]
  /\ preempt_count = [t \in Tasks |-> 0]
  /\ list_next = [t \in Tasks |-> IF t = init_task THEN t ELSE NULL]
  /\ list_prev = [t \in Tasks |-> IF t = init_task THEN t ELSE NULL]
  /\ stack = [t \in Tasks |-> IF t = init_task
                              THEN <<frame("base", "boot_kthread")>>
                              ELSE << >>]
  /\ ttbr0 = NULL
  /\ image = [t \in Tasks |-> NULL]
  /\ irq_on = FALSE

\* kthread_create(idle_main)
BootKthread ==
  /\ Here({"base"}, "boot_kthread")
  /\ stack' = [stack EXCEPT ![cur] =
                 Push(SetTop(@, frame("base", "boot_execv")),
                      frame("kthread", "create"))]
  /\ UNCHANGED <<cur, next, state, preempt_count, queue_vars, mm_vars, irq_on>>

\* sys_execv("/user_code.bin")
BootExecv ==
  /\ Here({"base"}, "boot_execv")
  /\ stack' = [stack EXCEPT ![cur] =
                 Push(SetTop(@, frame("base", "boot_irq")),
                      frame("execv", "create"))]
  /\ UNCHANGED <<cur, next, state, preempt_count, queue_vars, mm_vars, irq_on>>

\* enable_irq(), then the idle loop of init_main
BootIrq ==
  /\ Here({"base"}, "boot_irq")
  /\ irq_on' = TRUE
  /\ MoveTo("kernel")
  /\ UNCHANGED <<cur, next, state, preempt_count, queue_vars, mm_vars>>

(***************************************************************************)
(* First instructions of a new task: x19 says kernel thread or process.    *)
(***************************************************************************)
ret_from_fork ==
  /\ Here({"base"}, "ret_from_fork")
  /\ MoveTo(IF cur \in UTasks THEN "user" ELSE "kernel")
  /\ ttbr0' = switch_mm(mm(cur))
  /\ UNCHANGED <<cur, next, state, preempt_count, queue_vars, image, irq_on>>

(***************************************************************************)
(* System calls of a process, made at EL0.                                 *)
(***************************************************************************)
\* Bound: a creation starts only if pages are left for the ones under way.
Creating == {t \in Tasks : \E i \in 1..Len(stack[t]) :
               stack[t][i].op = "execv" /\ stack[t][i].at \in {"create", "alloc"}}
Room == Cardinality(Creating) < Cardinality({p \in UTasks : stack[p] = << >>})

\* svc to sys_execv: open and read the file into a kernel buffer; this part
\* is preemptible and touches nothing of the scheduler.
SysExecv ==
  /\ Here({"base"}, "user")
  /\ Len(stack[cur]) < MaxFrames
  /\ Room
  /\ Call("execv", "create")
  /\ UNCHANGED <<cur, next, state, preempt_count, queue_vars, mm_vars, irq_on>>

\* svc to sys_exit
SysExit ==
  /\ Here({"base"}, "user")
  /\ Len(stack[cur]) < MaxFrames
  /\ Call("exit", "zombie")
  /\ UNCHANGED <<cur, next, state, preempt_count, queue_vars, mm_vars, irq_on>>

(***************************************************************************)
(* kthread_create and copy_process.                                        *)
(***************************************************************************)
CreateBegin ==
  /\ Here({"kthread", "execv"}, "create")
  /\ preempt_disable
  /\ MoveTo("alloc")
  /\ UNCHANGED <<cur, next, state, queue_vars, mm_vars, irq_on>>

\* The pages a creation by op may receive.
FreePages(op) ==
  {p \in IF op = "execv" THEN UTasks ELSE KThreads : stack[p] = << >>}

\* get_free_page returns the highest page that is free, zeroed; its context is
\* set to start at ret_from_fork.  copy_process goes on to build an address
\* space and to switch to it.
CreateAlloc ==
  /\ Here({"kthread", "execv"}, "alloc")
  /\ \E p \in FreePages(top(cur).op) :
       /\ \A q \in FreePages(top(cur).op) : q <= p
       /\ stack' = [stack EXCEPT
            ![p] = <<frame("base", "ret_from_fork")>>,
            ![cur] = SetTop(@, [top(cur) EXCEPT
                        !.at = IF mm(p) = NULL THEN "add_next_prev"
                                               ELSE "memcpy",
                        !.arg = p])]
       /\ preempt_count' = [preempt_count EXCEPT ![p] = 0]
       /\ ttbr0' = switch_mm(mm(p))
  /\ UNCHANGED <<cur, next, state, queue_vars, image, irq_on>>

\* memcpy(USER_START, start, size) goes wherever ttbr0_el1 points.
CreateCopy ==
  /\ Here({"execv"}, "memcpy")
  /\ image' = IF ttbr0 \in Tasks THEN [image EXCEPT ![ttbr0] = top(cur).arg]
                                 ELSE image
  /\ MoveTo("mm_back")
  /\ UNCHANGED <<cur, next, state, preempt_count, queue_vars, ttbr0, irq_on>>

\* Error: copy_process does not return to its caller's address space.
CreateMmBackForgotten ==
  /\ Here({"execv"}, "mm_back")
  /\ MoveTo("add_next_prev")
  /\ UNCHANGED <<cur, next, state, preempt_count, queue_vars, mm_vars, irq_on>>

\* switch_mm(current->mm)
CreateMmBack ==
  /\ Here({"execv"}, "mm_back")
  /\ ttbr0' = switch_mm(mm(cur))
  /\ MoveTo("add_next_prev")
  /\ UNCHANGED <<cur, next, state, preempt_count, queue_vars, image, irq_on>>

\* The four stores of __list_add(new, head->prev, head).
AddNextPrev ==
  /\ Here({"kthread", "execv"}, "add_next_prev")
  /\ list_prev' = [list_prev EXCEPT ![init_task] = top(cur).arg]
  /\ stack' = [stack EXCEPT ![cur] =
                 SetTop(@, [top(cur) EXCEPT !.at = "add_new_next",
                                            !.prev = list_prev[init_task]])]
  /\ UNCHANGED <<cur, next, state, preempt_count, list_next, mm_vars, irq_on>>

AddNewNext ==
  /\ Here({"kthread", "execv"}, "add_new_next")
  /\ list_next' = [list_next EXCEPT ![top(cur).arg] = init_task]
  /\ MoveTo("add_new_prev")
  /\ UNCHANGED <<cur, next, state, preempt_count, list_prev, mm_vars, irq_on>>

\* Error: the store of new->prev is missing.
AddNewPrevMissing ==
  /\ Here({"kthread", "execv"}, "add_new_prev")
  /\ MoveTo("add_prev_next")
  /\ UNCHANGED <<cur, next, state, preempt_count, queue_vars, mm_vars, irq_on>>

AddNewPrev ==
  /\ Here({"kthread", "execv"}, "add_new_prev")
  /\ list_prev' = [list_prev EXCEPT ![top(cur).arg] = top(cur).prev]
  /\ MoveTo("add_prev_next")
  /\ UNCHANGED <<cur, next, state, preempt_count, list_next, mm_vars, irq_on>>

\* Error: the new task is hooked after the head, as by list_add.
AddHeadNext ==
  /\ Here({"kthread", "execv"}, "add_prev_next")
  /\ list_next' = [list_next EXCEPT ![init_task] = top(cur).arg]
  /\ MoveTo("set_running")
  /\ UNCHANGED <<cur, next, state, preempt_count, list_prev, mm_vars, irq_on>>

AddPrevNext ==
  /\ Here({"kthread", "execv"}, "add_prev_next")
  /\ list_next' = [list_next EXCEPT ![top(cur).prev] = top(cur).arg]
  /\ MoveTo("set_running")
  /\ UNCHANGED <<cur, next, state, preempt_count, list_prev, mm_vars, irq_on>>

\* Error: the state of the added task is not set.
SetRunningMissing ==
  /\ Here({"kthread", "execv"}, "set_running")
  /\ MoveTo("create_done")
  /\ UNCHANGED <<cur, next, state, preempt_count, queue_vars, mm_vars, irq_on>>

\* The last line of task_add.
SetRunning ==
  /\ Here({"kthread", "execv"}, "set_running")
  /\ state' = [state EXCEPT ![top(cur).arg] = "RUNNING"]
  /\ MoveTo("create_done")
  /\ UNCHANGED <<cur, next, preempt_count, queue_vars, mm_vars, irq_on>>

CreateEnd ==
  /\ Here({"kthread", "execv"}, "create_done")
  /\ preempt_enable
  /\ Return
  /\ UNCHANGED <<cur, next, state, queue_vars, mm_vars, irq_on>>

(***************************************************************************)
(* scheduler_tick: entered with interrupts masked, so the test of          *)
(* preempt_count and select_next_task are one step; enable_irq ends it.    *)
(* When preempt_count is positive the tick returns and changes nothing.    *)
(***************************************************************************)
\* Error: the successor of the queue's head instead of the current task's.
SchedulerTickFromHead ==
  /\ irq_on
  /\ Len(stack[cur]) < MaxFrames
  /\ preempt_count[cur] = 0
  /\ next' = list_next[init_task]
  /\ Call("tick", "load_next")
  /\ UNCHANGED <<cur, state, preempt_count, queue_vars, mm_vars, irq_on>>

\* Error: the test of preempt_count is missing.
SchedulerTickUnguarded ==
  /\ irq_on
  /\ Len(stack[cur]) < MaxFrames
  /\ next' = list_next[cur]
  /\ Call("tick", "load_next")
  /\ UNCHANGED <<cur, state, preempt_count, queue_vars, mm_vars, irq_on>>

scheduler_tick ==
  /\ irq_on
  /\ Len(stack[cur]) < MaxFrames
  /\ preempt_count[cur] = 0
  /\ next' = list_next[cur]
  /\ Call("tick", "load_next")
  /\ UNCHANGED <<cur, state, preempt_count, queue_vars, mm_vars, irq_on>>

(***************************************************************************)
(* sys_exit and schedule: the same selection with interrupts enabled.      *)
(***************************************************************************)
\* Error: TASK_STOP for TASK_ZOMBIE.
ExitStop ==
  /\ Here({"exit"}, "zombie")
  /\ state' = [state EXCEPT ![cur] = "STOP"]
  /\ MoveTo("schedule")
  /\ UNCHANGED <<cur, next, preempt_count, queue_vars, mm_vars, irq_on>>

ExitZombie ==
  /\ Here({"exit"}, "zombie")
  /\ state' = [state EXCEPT ![cur] = "ZOMBIE"]
  /\ MoveTo("schedule")
  /\ UNCHANGED <<cur, next, preempt_count, queue_vars, mm_vars, irq_on>>

ScheduleBegin ==
  /\ Here({"exit"}, "schedule")
  /\ IF preempt_count[cur] > 0
     THEN MoveTo("ret") /\ UNCHANGED preempt_count
     ELSE MoveTo("select") /\ preempt_disable
  /\ UNCHANGED <<cur, next, state, queue_vars, mm_vars, irq_on>>

\* Error: the task before the current one.
SelectPrev ==
  /\ Here({"exit"}, "select")
  /\ next' = list_prev[cur]
  /\ MoveTo("select_done")
  /\ UNCHANGED <<cur, state, preempt_count, queue_vars, mm_vars, irq_on>>

SelectNext ==
  /\ Here({"exit"}, "select")
  /\ next' = list_next[cur]
  /\ MoveTo("select_done")
  /\ UNCHANGED <<cur, state, preempt_count, queue_vars, mm_vars, irq_on>>

SelectEnd ==
  /\ Here({"exit"}, "select_done")
  /\ preempt_enable
  /\ MoveTo("load_next")
  /\ UNCHANGED <<cur, next, state, queue_vars, mm_vars, irq_on>>

(***************************************************************************)
(* switch_to(next): the global is read when the call is made.              *)
(***************************************************************************)
LoadNext ==
  /\ Here({"tick", "exit"}, "load_next")
  /\ stack' = [stack EXCEPT ![cur] =
                 SetTop(@, [top(cur) EXCEPT !.at = "switch_to", !.arg = next])]
  /\ UNCHANGED <<cur, next, state, preempt_count, queue_vars, mm_vars, irq_on>>

SwitchBegin ==
  /\ Here({"tick", "exit"}, "switch_to")
  /\ preempt_disable
  /\ MoveTo("check")
  /\ UNCHANGED <<cur, next, state, queue_vars, mm_vars, irq_on>>

\* switch_to gives up: same task, no task, or a task that may not run.
Refuses(n) == n = cur \/ n = NULL \/ (n \in Tasks /\ state[n] # "RUNNING")

SwitchCheck ==
  /\ Here({"tick", "exit"}, "check")
  /\ IF Refuses(top(cur).arg)
     THEN Leave("out") /\ UNCHANGED ttbr0
     ELSE MoveTo("cpu_switch") /\ ttbr0' = switch_mm(mm(top(cur).arg))
  /\ UNCHANGED <<cur, next, state, preempt_count, queue_vars, image, irq_on>>

\* Error: the saved program counter is that of the call itself.
CpuSwitchToWrongPc ==
  /\ Here({"tick", "exit"}, "cpu_switch")
  /\ cur' = top(cur).arg
  /\ UNCHANGED <<next, state, preempt_count, queue_vars, stack, mm_vars, irq_on>>

\* cpu_switch_to(prev, next): registers and the stack pointer change; prev
\* will resume after the call, at `out', when it is switched to again.
CpuSwitchTo ==
  /\ Here({"tick", "exit"}, "cpu_switch")
  /\ cur' = top(cur).arg
  /\ Leave("out")
  /\ UNCHANGED <<next, state, preempt_count, queue_vars, mm_vars, irq_on>>

\* Error: switch_to returns without preempt_enable.
SwitchEndDisabled ==
  /\ Here({"tick", "exit"}, "out")
  /\ MoveTo("ret")
  /\ UNCHANGED <<cur, next, state, preempt_count, queue_vars, mm_vars, irq_on>>

SwitchEnd ==
  /\ Here({"tick", "exit"}, "out")
  /\ preempt_enable
  /\ MoveTo("ret")
  /\ UNCHANGED <<cur, next, state, queue_vars, mm_vars, irq_on>>

\* scheduler_tick: disable_irq and the exception return; sys_exit: return 0.
SwitchReturn ==
  /\ Here({"tick", "exit"}, "ret")
  /\ Return
  /\ UNCHANGED <<cur, next, state, preempt_count, queue_vars, mm_vars, irq_on>>

Boot == BootKthread \/ BootExecv \/ BootIrq
Create == \/ CreateBegin \/ CreateAlloc \/ CreateCopy \/ CreateMmBack
          \/ AddNextPrev \/ AddNewNext \/ AddNewPrev \/ AddPrevNext
          \/ SetRunning \/ CreateEnd
Exit == ExitZombie \/ ScheduleBegin \/ SelectNext \/ SelectEnd
Switch == LoadNext \/ SwitchBegin \/ SwitchCheck \/ CpuSwitchTo
          \/ SwitchEnd \/ SwitchReturn
Kernel == Boot \/ ret_from_fork \/ Create \/ Exit \/ Switch
Syscall == SysExecv \/ SysExit
Next == Kernel \/ Syscall \/ scheduler_tick

Spec == Init /\ [][Next]_vars

(***************************************************************************)
(* Properties.                                                             *)
(***************************************************************************)
Live == {t \in Tasks : stack[t] # << >>}
Queued == {t \in Tasks : state[t] # "DEAD"}

\* Every stack, counter, link and register of the scheduler is in its range.
TypeOK ==
  /\ cur \in Tasks
  /\ next \in Pointers
  /\ state \in [Tasks -> {"DEAD", "RUNNING", "ZOMBIE"}]
  /\ preempt_count \in [Tasks -> Int]
  /\ list_next \in [Tasks -> Pointers]
  /\ list_prev \in [Tasks -> Pointers]
  /\ stack \in [Tasks -> Seq(Frame)]
  /\ ttbr0 \in Pointers
  /\ image \in [Tasks -> Pointers]
  /\ irq_on \in BOOLEAN

\* preempt_disable and preempt_enable balance on every stack, through every
\* nesting of ticks and every switch: a task's preempt_count is 1 when its
\* innermost activation is inside a protected section and 0 otherwise, and
\* no interrupted activation below it ever is inside one.
PreemptExact ==
  \A t \in Tasks :
    /\ preempt_count[t] = IF t \in Live /\ top(t).at \in Held THEN 1 ELSE 0
    /\ \A i \in 1..(Len(stack[t]) - 1) : stack[t][i].at \notin Held

\* A task that does not have the CPU was switched out inside cpu_switch_to,
\* or has never run: it can be resumed by restoring its saved registers.
Parked ==
  \A t \in Live \ {cur} :
    \/ top(t).at = "out"
    \/ Len(stack[t]) = 1 /\ top(t).at = "ret_from_fork"

\* No activation is interrupted or switched away from in the middle of a
\* creation: no two tasks build descriptors or write the queue's pointers at
\* the same time, and no task sees the queue while another is writing it.
OneCreator ==
  \A t \in Live : \A i \in 1..Len(stack[t]) :
    stack[t][i].at \in CreateHeld => t = cur /\ i = Len(stack[t])

\* What switch_to gets from the global `next', which other tasks' ticks may
\* have overwritten since it was selected, is a task completely added.
SwitchTargetQueued ==
  \A t \in Live : \A i \in 1..Len(stack[t]) :
    (/\ stack[t][i].op \in {"tick", "exit"}
     /\ stack[t][i].at \in {"switch_to", "check", "cpu_switch"})
       => stack[t][i].arg \in Queued

\* Whenever a task can be selected, following list.next stays among the
\* added tasks and list.prev is its inverse.
QueueLinked ==
  preempt_count[cur] = 0 =>
    \A t \in Queued : /\ list_next[t] \in Queued
                       /\ list_prev[t] \in Queued
                       /\ list_prev[list_next[t]] = t
                       /\ list_next[list_prev[t]] = t

\* At EL0 a process runs in its own address space, which holds the program
\* that was loaded for it.
OwnAddressSpace ==
  top(cur).at = "user" => ttbr0 = cur /\ image[cur] = cur

\* A process that has exited executes user code again only if its successor
\* in the ring has exited too: sys_exit relies on schedule() not to return,
\* and schedule() tries the one task that list.next names.
ZombieBeforeZombie ==
  top(cur).at = "user" /\ state[cur] = "ZOMBIE" => state[list_next[cur]] = "ZOMBIE"

\* select_next_task chooses a task whose state is RUNNING, as the comment above it
\* says.  The code takes the successor of the current task whatever its state.
SelectsRunning ==
  [][scheduler_tick \/ SelectNext => state[next'] = "RUNNING"]_vars

(***************************************************************************)
(* Fairness: the CPU executes what is next, and the periodic timer keeps   *)
(* interrupting code that stays preemptible.  Nothing makes a process call *)
(* the kernel.                                                             *)
(***************************************************************************)
FairSpec == Spec /\ WF_vars(Kernel) /\ WF_vars(scheduler_tick)

\* As long as no process has exited, every task that stays runnable gets the CPU
\* again and again, although ticks nest and overwrite `next' between its selection
\* and its use.  A process that exits stays in the ring, and its predecessor then
\* keeps the CPU for ever.
NoStarvationAlive ==
  \A t \in Tasks :
    []<>(state[t] = "RUNNING" /\ (\A u \in Tasks : state[u] # "ZOMBIE") => cur = t)

(***************************************************************************)
(* The inductive invariant: the properties above with what their proof     *)
(* needs to know of every activation, of the half-added task and of ttbr0. *)
(***************************************************************************)
\* f may be the i-th activation of task t: a stack is a base activation below
\* ticks and calls, each at a place of its own code; only a process has been
\* at EL0.
FrameOK(f, t, i) ==
  /\ f.op = "base" <=> i = 1
  /\ f.op = "base" => f.at \in BasePlaces
  /\ f.op \in {"kthread", "execv"} => f.at \in CreatePlaces
  /\ f.op = "tick" => f.at \in SwitchPlaces
  /\ f.op = "exit" => f.at \in ExitPlaces
  /\ f.at \in {"memcpy", "mm_back"} => f.op = "execv"
  /\ f.at = "user" => t \in UTasks

StackShape ==
  \A t \in Tasks : \A i \in 1..Len(stack[t]) : FrameOK(stack[t][i], t, i)

QueuedLive ==
  /\ Queued \subseteq Live
  /\ cur \in Queued
  /\ init_task \in Queued

\* The descriptor under creation is nobody's until it is set RUNNING.
NewTask ==
  top(cur).at \in CreateHeld \ {"alloc", "create_done"} =>
    /\ top(cur).arg \in Live
    /\ top(cur).arg \notin Queued
    /\ top(cur).op = "execv" <=> top(cur).arg \in UTasks

Ring(nx, pv, Q) ==
  \A t \in Q : /\ nx[t] \in Q
               /\ pv[t] \in Q
               /\ pv[nx[t]] = t
               /\ nx[pv[t]] = t

\* While __list_add is under way the old ring is there but for the head's
\* list.prev, and the last store makes the ring with the new task.
RingInv ==
  LET p == top(cur).arg
      pr == top(cur).prev
      at == top(cur).at
  IN CASE at \in {"add_new_next", "add_new_prev", "add_prev_next"} ->
            /\ Ring(list_next, [list_prev EXCEPT ![init_task] = pr], Queued)
            /\ list_prev[init_task] = p
            /\ at # "add_new_next" => list_next[p] = init_task
            /\ at = "add_prev_next" => list_prev[p] = pr
       [] at = "set_running" -> Ring(list_next, list_prev, Queued \cup {p})
       [] OTHER -> Ring(list_next, list_prev, Queued)

\* What activation f of switch_to's callers may hold, or is about to load,
\* when `next' is n and the added tasks are Q.
SwitchArgOK(f, n, Q) ==
  f.op \in {"tick", "exit"} =>
    /\ f.at \in {"load_next", "select_done"} => n # NULL
    /\ f.at \in {"switch_to", "check", "cpu_switch"} => f.arg \in Q

NextQueued ==
  /\ next \in Queued \cup {NULL}
  /\ \A t \in Tasks : \A i \in 1..Len(stack[t]) :
       SwitchArgOK(stack[t][i], next, Queued)

AddressInv ==
  /\ \A u \in UTasks : u \in Queued => image[u] = u
  /\ top(cur).op = "execv" =>
       /\ top(cur).at = "memcpy" => ttbr0 = top(cur).arg
       /\ top(cur).at \in CreateHeld \ {"alloc", "memcpy"} =>
            image[top(cur).arg] = top(cur).arg
  /\ (top(cur).at = "cpu_switch" /\ top(cur).arg \in UTasks)
       => ttbr0 = top(cur).arg
  /\ (cur \in UTasks /\ top(cur).at \notin {"memcpy", "mm_back", "cpu_switch"})
       => ttbr0 = cur

IInv == /\ TypeOK /\ StackShape /\ QueuedLive /\ PreemptExact /\ Parked
        /\ NewTask /\ RingInv /\ NextQueued /\ AddressInv

=============================================================================
