-------------------------------- MODULE Boot --------------------------------
(***************************************************************************)
(* init_main (init/init_task.c) as far as it sets up the machine, and what *)
(* the machine does from then on: init_mm maps the flash (MemLayout), then *)
(* timer_init programs the interrupt controller and the timer, and once    *)
(* init_main enables interrupts the ticks come (GicTimer).                 *)
(***************************************************************************)
EXTENDS Integers, Sequences

CONSTANTS
  MEM_BASE, IMAGE_OFFSET, LOW_SIZE, PAGING_MEMORY, PAGE_SIZE, FAN, BootMap,
  PFLASH1_PA, PFLASH1_VA, PFLASH1_SIZE,
  Others, Ticks, JiffyWrap

VARIABLES
  tbl, done, free,                                        \* MemLayout
  gicd, gicc, isenabler, ispendr, ipriorityr, itargetsr, icfgr,
  line, cntv, rem, since, jiffies, masked, todo           \* GicTimer

L == INSTANCE MemLayout
G == INSTANCE GicTimer

ASSUME BootAssumption == L!MemLayoutConstants /\ G!GicConstants

lvars == <<tbl, done, free>>
gvars == <<gicd, gicc, isenabler, ispendr, ipriorityr, itargetsr, icfgr,
           line, cntv, rem, since, jiffies, masked, todo>>
vars == <<lvars, gvars>>

\* Interrupts are masked (GicTimer) and the first tables are there (MemLayout).
Init == L!Init /\ G!Init

InitMm ==
  /\ L!map_kernel_section \/ L!init_mm
  /\ UNCHANGED gvars

\* Nothing depends on what the devices did before timer_init: its registers
\* and lines start with any value.
Machine(A) ==
  /\ done = L!Sections + 1
  /\ A
  /\ UNCHANGED lvars

Cpu == Machine(G!Cpu)
TakeIrq == Machine(G!TakeIrq)
Mask == Machine(G!Mask)
Count == Machine(G!Count)
Device(irq) == Machine(G!Device(irq))

Next ==
  \/ InitMm \/ Cpu \/ TakeIrq \/ Mask \/ Count
  \/ \E irq \in Others : Device(irq)

(***************************************************************************)
(* The CPU executes its calls and the counter counts.  A pending interrupt *)
(* may find interrupts masked again and again, but is taken once they are  *)
(* unmasked.                                                               *)
(***************************************************************************)
Fairness ==
  WF_vars(InitMm) /\ WF_vars(Cpu) /\ WF_vars(Count) /\ SF_vars(TakeIrq)

Spec == Init /\ [][Next]_vars /\ Fairness

(***************************************************************************)
(* Properties.                                                             *)
(***************************************************************************)
\* map_kernel_section: the mapping of the memory stays as start.S made it, and
\* the flash appears where PFLASH1_BASE says, section by section, in tables
\* that are those of start.S or pages alloc_page handed out.
KernelMapExact == L!TypeOK /\ L!KernelMapExact

\* When the flash is mapped: free_page finds the page of every address that
\* get_free_page may return, and of every address in it, and the page is
\* inside the memory the kernel has mapped.
PageOfAddress == L!PageOfAddress

\* Whatever the registers held before timer_init, when interrupts are enabled
\* exactly the timer is on, edge triggered and at the highest priority; every
\* other interrupt is level triggered, masked, and sent to processor 0.
OnlyTimerOn == G!OnlyTimerOn

\* An expiry of the timer is never lost, wherever in timer_handler it falls.
NoLostExpiry == G!TypeOK /\ G!NoLostExpiry

\* A jiffy is never shorter than `ticks' counter steps (timer_handler).
JiffyNotShort == G!JiffyNotShort

\* Ticks keep coming, whatever the other devices do with their lines and
\* however often interrupts are masked (irq_dispatch).
TicksContinue == G!TicksContinue

=============================================================================
