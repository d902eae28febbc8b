------------------------------ MODULE Exception ------------------------------
(***************************************************************************)
(* Exception entry and return of NBOS (arch/vector.S, arch/exception.c,    *)
(* arch/aarch64.c): the interrupt and system-call vectors, kernel_entry    *)
(* and kernel_exit, the window that scheduler_tick and el0_svc open to     *)
(* further interrupts, and the first return of a new process to EL0.       *)
(*                                                                         *)
(* elr_el1, spsr_el1 and sp_el0 exist once.  Taking an exception           *)
(* overwrites the first two, so what an activation needs for its return    *)
(* lives in them only while interrupts are masked and in the frame on the  *)
(* task's kernel stack otherwise.                                          *)
(***************************************************************************)
EXTENDS Integers, Sequences

CONSTANTS
  KThreads,   \* tasks that stay at EL1
  Users,      \* processes; each starts at ret_from_fork
  Pcs,        \* where a process can be; 0 is USER_START
  Sps,        \* values of a process's stack pointer; 0 is USER_MAX
  MaxDepth,   \* bound: activations on one kernel stack
  NULL

Tasks == KThreads \cup Users

ASSUME ExceptionAssumption ==
  /\ KThreads \cap Users = {} /\ KThreads # {}
  /\ 0 \in Pcs /\ 0 \in Sps
  /\ MaxDepth \in Nat \ {0}
  /\ NULL \notin Pcs \cup Sps

VARIABLES
  cur,      \* the task whose kernel stack the CPU is on
  stack,    \* stack[t]: t's activations at EL1; empty when t is at EL0
  masked,   \* PSTATE.I
  elr,      \* elr_el1
  spsr,     \* spsr_el1: the exception level to return to
  sp_el0,
  upc,      \* upc[u]: where process u is at EL0, or was interrupted
  usp,      \* usp[u]: the stack pointer u last had at EL0
  lost      \* an eret went elsewhere than to the interrupted code

vars == <<cur, stack, masked, elr, spsr, sp_el0, upc, usp, lost>>
regs == <<elr, spsr, sp_el0>>
user == <<upc, usp>>

top == stack[cur][Len(stack[cur])]
AtUser == stack[cur] = << >>
Here(ops, at) == ~lost /\ ~AtUser /\ top.op \in ops /\ top.at = at
SetTop(a) == stack' = [stack EXCEPT ![cur] = [@ EXCEPT ![Len(@)] = a]]
MoveTo(at) == SetTop([top EXCEPT !.at = at])

\* Where the CPU is: what elr_el1 and spsr_el1 receive from an exception.
EL == IF AtUser THEN 0 ELSE 1
Where == IF AtUser THEN <<"EL0", upc[cur]>>
                   ELSE <<"EL1", Len(stack[cur]), top.at>>

NoFrame == [pc |-> NULL, el |-> NULL, sp |-> NULL]
\* from: the interrupted context (for the properties); saved: the pt_regs.
activation(op, at, from, saved) ==
  [op |-> op, at |-> at, from |-> from, saved |-> saved]

\* The frame copy_process leaves on a new process's kernel stack.
UserEntry == [pc |-> <<"EL0", 0>>, el |-> 0, sp |-> 0]

Init ==
  /\ cur \in KThreads
  /\ stack = [t \in Tasks |->
       IF t \in Users
       THEN <<activation("fork", "start", UserEntry, UserEntry)>>
       ELSE <<activation("kthread", IF t = cur THEN "main" ELSE "start",
                         NoFrame, NoFrame)>>]
  /\ masked = FALSE
  /\ elr = NULL /\ spsr = NULL
  /\ sp_el0 \in Sps       \* never written before the first process runs
  /\ upc = [u \in Users |-> 0]
  /\ usp = [u \in Users |-> 0]
  /\ lost = FALSE

(***************************************************************************)
(* The processor.                                                          *)
(***************************************************************************)
TakeException(op) ==
  /\ Len(stack[cur]) < MaxDepth
  /\ elr' = Where
  /\ spsr' = EL
  /\ masked' = TRUE
  /\ stack' = [stack EXCEPT ![cur] = Append(@,
       activation(op, "entry",
                  [pc |-> Where, el |-> EL, sp |-> IF AtUser THEN sp_el0 ELSE NULL],
                  NoFrame))]
  /\ UNCHANGED <<cur, sp_el0, user, lost>>

\* The timer interrupts whatever runs with interrupts enabled.
TakeIrq == ~lost /\ ~masked /\ TakeException("irq")

\* A process executes svc; at EL0 interrupts are enabled.
TakeSvc == ~lost /\ AtUser /\ TakeException("svc")

\* A process computes.
UserStep ==
  /\ ~lost /\ AtUser
  /\ \E pc \in Pcs, sp \in Sps :
       /\ upc' = [upc EXCEPT ![cur] = pc]
       /\ usp' = [usp EXCEPT ![cur] = sp]
       /\ sp_el0' = sp
  /\ UNCHANGED <<cur, stack, masked, elr, spsr, lost>>

(***************************************************************************)
(* kernel_entry: the frame is stored on the kernel stack.  From EL1 the    *)
(* stack pointer of the process is left alone.                             *)
(***************************************************************************)
kernel_entry ==
  /\ Here({"irq", "svc"}, "entry")
  /\ SetTop([top EXCEPT !.at = "handler",
                        !.saved = [pc |-> elr, el |-> spsr,
                                   sp |-> IF top.from.el = 0 THEN sp_el0 ELSE NULL]])
  /\ UNCHANGED <<cur, masked, regs, user, lost>>

(***************************************************************************)
(* irq_dispatch and scheduler_tick; el0_svc.  "open" is the window in      *)
(* which interrupts are enabled and the task may be switched away from.    *)
(***************************************************************************)
enable_irq == MoveTo("open") /\ masked' = FALSE

\* Error: the window is not closed.
disableIrqMissing == MoveTo("exit") /\ UNCHANGED masked

disable_irq == MoveTo("exit") /\ masked' = TRUE

\* The tick finds preemption disabled, or no interrupt pending.
IrqIgnored ==
  /\ Here({"irq"}, "handler")
  /\ MoveTo("exit")
  /\ UNCHANGED <<cur, masked, regs, user, lost>>

\* scheduler_tick enables interrupts for switch_to; el0_svc enables them for
\* the handler of the system call.
Open ==
  /\ Here({"irq", "svc"}, "handler")
  /\ enable_irq
  /\ UNCHANGED <<cur, regs, user, lost>>

Close ==
  /\ Here({"irq", "svc"}, "open")
  /\ disable_irq
  /\ UNCHANGED <<cur, regs, user, lost>>

\* The number in x8 is not below SYSCALL_NR: put_exception prints and loops
\* with interrupts masked.
SvcHalt ==
  /\ Here({"svc"}, "handler")
  /\ MoveTo("halt")
  /\ UNCHANGED <<cur, masked, regs, user, lost>>

\* cpu_switch_to, called in the window: the other task was switched away from
\* there too, or has never run.
cpu_switch_to ==
  /\ Here({"irq", "svc"}, "open")
  /\ \E t \in Tasks \ {cur} :
       /\ stack[t] # << >>
       /\ stack[t][Len(stack[t])].at \in {"open", "start"}
       /\ cur' = t
  /\ UNCHANGED <<stack, masked, regs, user, lost>>

\* ret_from_fork of a kernel thread
KthreadStart ==
  /\ Here({"kthread"}, "start")
  /\ MoveTo("main")
  /\ UNCHANGED <<cur, masked, regs, user, lost>>

(***************************************************************************)
(* kernel_exit: the system registers are loaded from the frame, sp_el0     *)
(* first, then eret.  ret_from_fork enters it with interrupts enabled.  An *)
(* interrupt between the loads of elr_el1 and spsr_el1 loses elr_el1 just  *)
(* as one after them does, so the two are one step.                        *)
(***************************************************************************)
\* Error: kernel_exit for EL1 where the process's stack pointer is needed.
SpOfWrongLevel(f) == sp_el0

\* Error: sp_el0 is loaded also for a return to EL1, from a frame without it.
SpOfAlways(f) == f.sp

\* kernel_exit loads sp_el0 only for a return to EL0.
SpOf(f) == IF f.el = 0 THEN f.sp ELSE sp_el0

ExitSp ==
  /\ \/ Here({"irq", "svc"}, "exit")
     \/ Here({"fork"}, "start")
  /\ sp_el0' = SpOf(top.saved)
  /\ MoveTo("exitElr")
  /\ UNCHANGED <<cur, masked, elr, spsr, user, lost>>

ExitElr ==
  /\ Here({"irq", "svc", "fork"}, "exitElr")
  /\ elr' = top.saved.pc
  /\ spsr' = top.saved.el
  /\ MoveTo("eret")
  /\ UNCHANGED <<cur, masked, sp_el0, user, lost>>

Returns == elr = top.from.pc /\ spsr = top.from.el

\* The first eret of a process gives it the stack pointer it starts with.
eret ==
  /\ Here({"irq", "svc", "fork"}, "eret")
  /\ \/ /\ Returns
        /\ stack' = [stack EXCEPT ![cur] = SubSeq(@, 1, Len(@) - 1)]
        /\ masked' = FALSE
        /\ usp' = IF top.op = "fork" THEN [usp EXCEPT ![cur] = sp_el0] ELSE usp
        /\ UNCHANGED lost
     \/ /\ ~Returns
        /\ lost' = TRUE
        /\ UNCHANGED <<stack, masked, usp>>
  /\ UNCHANGED <<cur, regs, upc>>

Next ==
  \/ TakeIrq \/ TakeSvc \/ UserStep
  \/ kernel_entry \/ IrqIgnored \/ Open \/ Close \/ SvcHalt
  \/ cpu_switch_to \/ KthreadStart \/ ExitSp \/ ExitElr \/ eret

Spec == Init /\ [][Next]_vars

(***************************************************************************)
(* Properties.                                                             *)
(***************************************************************************)
Levels == {0, 1, NULL}
Places == {"main", "start", "entry", "handler", "open", "exit", "exitElr",
           "halt", "eret"}
Contexts == ({"EL0"} \X Pcs) \cup ({"EL1"} \X Nat \X Places) \cup {NULL}
Frames == [pc : Contexts, el : Levels, sp : Sps \cup {NULL}]

ActivationSet == [op : {"kthread", "fork", "irq", "svc"}, at : Places,
                  from : Frames, saved : Frames]

\* Registers, kernel stacks and the frames on them keep their types through
\* kernel_entry, kernel_exit and cpu_switch_to.
TypeOK ==
  /\ cur \in Tasks
  /\ stack \in [Tasks -> Seq(ActivationSet)]
  /\ masked \in BOOLEAN
  /\ elr \in Contexts /\ spsr \in Levels /\ sp_el0 \in Sps
  /\ upc \in [Users -> Pcs] /\ usp \in [Users -> Sps]
  /\ lost \in BOOLEAN

\* An interrupt or system call returns exactly to the code it came from, at
\* its exception level, however many interrupts and switches nested in it.
ReturnExact ==
  Here({"irq", "svc"}, "eret") => Returns

\* From its first instruction on, a process finds at EL0 the stack pointer it
\* last had there, whatever other processes ran in between.
OwnStackPointer == (AtUser /\ ~lost) => sp_el0 = usp[cur]

\* The first eret of a new process goes to EL0 at its entry point, with its
\* stack pointer at USER_MAX.
ForkReturnsToUser == Here({"fork"}, "eret") => (Returns /\ sp_el0 = UserEntry.sp)

(***************************************************************************)
(* The inductive invariant.                                                *)
(***************************************************************************)
\* a may be the i-th activation of t.  An exception has its frame stored
\* except at its first instructions, and came from EL0 only if it is the
\* first on the stack.
ActivationOK(a, t, i) ==
  /\ a.op = "kthread" <=> (t \in KThreads /\ i = 1)
  /\ a.op = "kthread" => a.at \in {"main", "start"}
  /\ a.op = "fork" => /\ i = 1
                      /\ a.at \in {"start", "exitElr", "eret"}
                      /\ a.from = UserEntry /\ a.saved = UserEntry
  /\ a.op \in {"irq", "svc"} =>
       /\ a.at \notin {"main", "start"}
       /\ a.at # "entry" => a.saved = a.from
       /\ a.from.el = IF i = 1 THEN 0 ELSE 1
       /\ IF i = 1 THEN a.from.sp \in Sps ELSE a.from.sp = NULL

Activations ==
  \A t \in Tasks : \A i \in 1..Len(stack[t]) : ActivationOK(stack[t][i], t, i)

\* Code that runs with interrupts enabled: all but the ends of an exception.
Interruptible(a) == a.at \in {"open", "main", "start"} \/ a.op = "fork"

\* Whatever was interrupted or switched away from was interruptible.
Suspended ==
  \A t \in Tasks : \A i \in 1..Len(stack[t]) :
    (t # cur \/ i < Len(stack[t])) => Interruptible(stack[t][i])

MaskInv == masked <=> ~(AtUser \/ Interruptible(top))

\* While interrupts are masked around entry and exit the registers belong to
\* the activation.
RegsInv ==
  (~AtUser /\ top.op \in {"irq", "svc"}) =>
    /\ top.at \in {"entry", "eret"} => elr = top.from.pc /\ spsr = top.from.el
    /\ (top.at \in {"entry", "exitElr", "eret"} /\ top.from.el = 0) =>
         sp_el0 = top.from.sp

\* What a process resumes with is on its stack; only the current one is at EL0.
UserInv ==
  /\ \A t \in Tasks \ {cur} : stack[t] # << >>
  /\ \A t \in KThreads : stack[t] # << >>
  /\ \A u \in Users :
       (stack[u] # << >> /\ stack[u][1].op # "fork") => stack[u][1].from.sp = usp[u]

IInv == /\ TypeOK /\ Activations /\ Suspended /\ MaskInv /\ RegsInv /\ UserInv
        /\ OwnStackPointer

=============================================================================
