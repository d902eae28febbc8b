------------------------------ MODULE GicTimer ------------------------------
(***************************************************************************)
(* The interrupt controller driver (arch/gic_v3.c), the generic timer      *)
(* behind it (arch/timer.c, the cntv helpers of arch/aarch64.c) and the    *)
(* dispatch of an interrupt (arch/exception.c).                            *)
(*                                                                         *)
(* A 32-bit register is the set of its bits that are 1: a mask is removed  *)
(* with \, a value is put in with \cup, and a shift adds to every bit.     *)
(* The code is a list of calls; devices, the counter and the interrupt     *)
(* request of the CPU act between any two of them.                         *)
(***************************************************************************)
EXTENDS Integers, Sequences, FiniteSetsExt

CONSTANTS
  Others,      \* interrupts other than the timer's whose lines devices drive
  Ticks,       \* `ticks', the counter steps of one period
  JiffyWrap    \* bound: jiffies is kept modulo this number

GIC_INT_MAX == 64
GIC_INTNO_PPI0 == 16
GIC_INTNO_SPI0 == 32
TIMER_IRQ == 27
Interrupts == 0 .. GIC_INT_MAX - 1

\* Nothing below TIMER_IRQ is driven: on this board these are the
\* software-generated interrupts and the timers and debug units of the CPU
\* that the kernel never turns on.
GicConstants ==
  /\ Others \subseteq {i \in Interrupts : i > TIMER_IRQ}
  /\ Ticks \in Nat \ {0}
  /\ JiffyWrap \in Nat \ {0, 1}

INT_PER_REG == 32
IPRIORITY_PER_REG == 4
IPRIORITY_SIZE == 8
ITARGETSR_PER_REG == 4
ITARGETSR_SIZE == 8
ICFGR_PER_REG == 16
ICFGR_SIZE == 2

Bits == 0 .. 31
\* (GIC_INT_MAX + per - 1) / per
regs_nr(per) == (GIC_INT_MAX + per - 1) \div per
Registers(per) == [0 .. regs_nr(per) - 1 -> SUBSET Bits]

CORE0_BMAP == {0, 8, 16, 24}       \* 0x01010101
EDGE == {1}                        \* GIC_GICD_ICFGR_EDGE, 0x2
PRIO_MIN == 0 .. 7                 \* 0xff

VARIABLES
  gicd, gicc,      \* distributor and CPU interface are enabled
  isenabler, ispendr, ipriorityr, itargetsr, icfgr,
  line,            \* the other lines that are asserted
  cntv,            \* CNTV_CTL_EL0.ENABLE
  rem,             \* CNTV_CVAL_EL0 - CNTVCT_EL0, 0 when the value is reached
  since,           \* CNTVCT_EL0 - current_cnt, up to Ticks
  jiffies,
  masked,          \* PSTATE.I
  todo             \* the calls the CPU has to make before other code runs

fields == <<ipriorityr, itargetsr, icfgr>>
gic == <<gicd, gicc, isenabler, ispendr, fields>>
timer == <<cntv, rem, since, jiffies>>
vars == <<gic, line, timer, masked, todo>>

(***************************************************************************)
(* Registers.                                                              *)
(***************************************************************************)
Shifted(value, n) == {b + n : b \in value}

IsSet(regs, irq) == irq % INT_PER_REG \in regs[irq \div INT_PER_REG]

Field(regs, irq, per, size) ==
  {b \in 0 .. size - 1 : b + (irq % per) * size \in regs[irq \div per]}

\* Error: the other fields of the register are not kept.
SetFieldAlone(regs, irq, value, per, size) ==
  [regs EXCEPT ![irq \div per] = Shifted(value, (irq % per) * size)]

\* What gicd_set_priority, gicd_set_target and gicd_config have in common:
\* read, clear the field, put the value in, write.
SetField(regs, irq, value, per, size) ==
  LET shift == (irq % per) * size IN
  [regs EXCEPT ![irq \div per] =
     (@ \ Shifted(0 .. size - 1, shift)) \cup Shifted(value, shift)]

\* Writing a 1 to a set or clear register acts on the bits written as 1.
WriteSet(regs, irq) ==
  [regs EXCEPT ![irq \div INT_PER_REG] = @ \cup {irq % INT_PER_REG}]
WriteClear(regs, irq) ==
  [regs EXCEPT ![irq \div INT_PER_REG] = @ \ {irq % INT_PER_REG}]

(***************************************************************************)
(* The hardware.                                                           *)
(***************************************************************************)
Edge(irq) == Field(icfgr, irq, ICFGR_PER_REG, ICFGR_SIZE) = EDGE

TimerLine == cntv /\ rem = 0

\* What ISPENDR reads: the latch of an edge, or a level that is asserted.
Pending(irq) ==
  \/ IsSet(ispendr, irq)
  \/ ~Edge(irq) /\ (irq \in line \/ (irq = TIMER_IRQ /\ TimerLine))

\* Priority 0xff is not below the mask 0xff of the CPU interface.
Signalled ==
  /\ gicd /\ gicc
  /\ \E irq \in Interrupts :
       /\ IsSet(isenabler, irq) /\ Pending(irq)
       /\ Field(ipriorityr, irq, IPRIORITY_PER_REG, IPRIORITY_SIZE) # PRIO_MIN

\* A change of the timer latches a rising edge of its line.
Latch ==
  ispendr' = IF ~TimerLine /\ TimerLine' /\ Edge(TIMER_IRQ)
             THEN WriteSet(ispendr, TIMER_IRQ) ELSE ispendr

Count ==
  /\ rem' = Max({rem - 1, 0})
  /\ since' = Min({since + 1, Ticks})
  /\ <<rem', since'>> # <<rem, since>>
  /\ UNCHANGED cntv
  /\ Latch
  /\ UNCHANGED <<gicd, gicc, isenabler, fields, line, jiffies, masked, todo>>

\* A device raises or lowers its line.  No interrupt of a device is edge
\* triggered once init_gicd has run; before it what they latch is cleared.
Device(irq) ==
  /\ line' = IF irq \in line THEN line \ {irq} ELSE line \cup {irq}
  /\ UNCHANGED <<gic, timer, masked, todo>>

(***************************************************************************)
(* The calls.                                                              *)
(***************************************************************************)
Call(name) == todo # << >> /\ Head(todo) = name /\ todo' = Tail(todo)

init_gicd ==
  /\ Call("init_gicd")
  /\ gicd' = TRUE                   \* disabled first; nothing sees it
  /\ isenabler' = [r \in DOMAIN isenabler |-> {}]
  /\ ispendr' = [r \in DOMAIN ispendr |-> {}]
  /\ ipriorityr' = [r \in DOMAIN ipriorityr |-> Bits]
  /\ itargetsr' = [r \in DOMAIN itargetsr |->
       IF r >= GIC_INTNO_SPI0 \div ITARGETSR_PER_REG THEN CORE0_BMAP ELSE itargetsr[r]]
  /\ icfgr' = [r \in DOMAIN icfgr |->
       IF r >= GIC_INTNO_PPI0 \div ICFGR_PER_REG THEN {} ELSE icfgr[r]]
  /\ UNCHANGED <<gicc, line, timer, masked>>

\* IAR answers with the spurious number at once when nothing is signalled:
\* the loop that clears active interrupts has nothing to do.
init_gicc ==
  /\ Call("init_gicc")
  /\ \A irq \in Interrupts : ~(IsSet(isenabler, irq) /\ Pending(irq))
  /\ gicc' = TRUE
  /\ UNCHANGED <<gicd, isenabler, ispendr, fields, line, timer, masked>>

gicd_config ==
  /\ Call("gicd_config")
  /\ icfgr' = SetField(icfgr, TIMER_IRQ, EDGE, ICFGR_PER_REG, ICFGR_SIZE)
  /\ UNCHANGED <<gicd, gicc, isenabler, ispendr, ipriorityr, itargetsr, line, timer, masked>>

gicd_set_priority ==
  /\ Call("gicd_set_priority")
  /\ ipriorityr' = SetField(ipriorityr, TIMER_IRQ, {}, IPRIORITY_PER_REG, IPRIORITY_SIZE)
  /\ UNCHANGED <<gicd, gicc, isenabler, ispendr, itargetsr, icfgr, line, timer, masked>>

gicd_set_target ==
  /\ Call("gicd_set_target")
  /\ itargetsr' = SetField(itargetsr, TIMER_IRQ, {0}, ITARGETSR_PER_REG, ITARGETSR_SIZE)
  /\ UNCHANGED <<gicd, gicc, isenabler, ispendr, ipriorityr, icfgr, line, timer, masked>>

\* Error: as under level triggering, the pending bit is left to the line.
ClearNothing == Call("gicd_clear_pending") /\ UNCHANGED <<gic, line, timer, masked>>

gicd_clear_pending ==
  /\ Call("gicd_clear_pending")
  /\ ispendr' = WriteClear(ispendr, TIMER_IRQ)
  /\ UNCHANGED <<gicd, gicc, isenabler, fields, line, timer, masked>>

gicd_enable_int ==
  /\ Call("gicd_enable_int")
  /\ isenabler' = WriteSet(isenabler, TIMER_IRQ)
  /\ UNCHANGED <<gicd, gicc, ispendr, fields, line, timer, masked>>

disable_cntv ==
  /\ Call("disable_cntv")
  /\ cntv' = FALSE
  /\ UNCHANGED <<gic, line, rem, since, jiffies, masked>>

enable_cntv ==
  /\ Call("enable_cntv")
  /\ cntv' = TRUE
  /\ UNCHANGED rem
  /\ Latch
  /\ UNCHANGED <<gicd, gicc, isenabler, fields, line, since, jiffies, masked>>

raw_read_cntvct_el0 ==
  /\ Call("raw_read_cntvct_el0")
  /\ since' = 0
  /\ UNCHANGED <<gic, line, cntv, rem, jiffies, masked>>

\* current_cnt + ticks; the counter has gone on since it was read.
raw_write_cntv_cval_el0 ==
  /\ Call("raw_write_cntv_cval_el0")
  /\ rem' = Ticks - since
  /\ UNCHANGED cntv
  /\ Latch
  /\ UNCHANGED <<gicd, gicc, isenabler, fields, line, since, jiffies, masked>>

CountJiffy ==
  /\ Call("jiffies++")
  /\ jiffies' = (jiffies + 1) % JiffyWrap
  /\ UNCHANGED <<gic, line, cntv, rem, since, masked>>

\* enable_irq, in scheduler_tick or by the return from the interrupt: what
\* follows touches neither the controller nor the timer.
enable_irq ==
  /\ Call("enable_irq")
  /\ masked' = FALSE
  /\ UNCHANGED <<gic, line, timer>>

(***************************************************************************)
(* The order of the calls.                                                 *)
(***************************************************************************)
gic_v3_initialize ==
  <<"init_gicd", "init_gicc", "gicd_config", "gicd_set_priority",
    "gicd_set_target", "gicd_clear_pending", "gicd_enable_int">>

timer_init ==
  gic_v3_initialize \o
  <<"disable_cntv", "raw_read_cntvct_el0", "raw_write_cntv_cval_el0", "enable_cntv">>

\* Error: the pending bit is cleared when the timer already runs.
HandlerClearLate ==
  <<"disable_cntv", "raw_read_cntvct_el0", "raw_write_cntv_cval_el0",
    "jiffies++", "enable_cntv", "gicd_clear_pending", "enable_irq">>

timer_handler ==
  <<"disable_cntv", "gicd_clear_pending", "raw_read_cntvct_el0",
    "raw_write_cntv_cval_el0", "jiffies++", "enable_cntv", "enable_irq">>

\* Error: the numbers are tried from the highest down.
FindFromTop ==
  LET found == {irq \in Interrupts : Pending(irq)} IN
  IF found = {} THEN GIC_INT_MAX ELSE Max(found)

\* The lowest pending number, enabled or not; GIC_INT_MAX for IRQ_NOT_FOUND.
gic_v3_find_pending_irq ==
  LET found == {irq \in Interrupts : Pending(irq)} IN
  IF found = {} THEN GIC_INT_MAX ELSE Min(found)

\* The CPU takes the interrupt and masks further ones.
TakeIrq ==
  /\ todo = << >> /\ ~masked /\ Signalled
  /\ masked' = TRUE
  /\ todo' = <<"irq_dispatch">>
  /\ UNCHANGED <<gic, line, timer>>

irq_dispatch ==
  /\ todo = <<"irq_dispatch">>
  /\ todo' = IF gic_v3_find_pending_irq = TIMER_IRQ
             THEN timer_handler ELSE <<"enable_irq">>
  /\ UNCHANGED <<gic, line, timer, masked>>

\* Code that is not modelled here masks interrupts for a while.
Mask ==
  /\ todo = << >> /\ ~masked
  /\ masked' = TRUE
  /\ todo' = <<"enable_irq">>
  /\ UNCHANGED <<gic, line, timer>>

\* The registers hold anything when the kernel starts: all zeros or all
\* ones.  The timer is off, as the reset of the CPU leaves it.
Init ==
  /\ gicd \in BOOLEAN /\ gicc \in BOOLEAN
  /\ \E r \in {{}, Bits} :
       /\ isenabler = [i \in 0 .. regs_nr(INT_PER_REG) - 1 |-> r]
       /\ ispendr = [i \in 0 .. regs_nr(INT_PER_REG) - 1 |-> r]
       /\ ipriorityr = [i \in 0 .. regs_nr(IPRIORITY_PER_REG) - 1 |-> r]
       /\ itargetsr = [i \in 0 .. regs_nr(ITARGETSR_PER_REG) - 1 |-> r]
       /\ icfgr = [i \in 0 .. regs_nr(ICFGR_PER_REG) - 1 |-> r]
  /\ line \in SUBSET Others
  /\ cntv = FALSE /\ rem \in 0 .. Ticks /\ since = Ticks
  /\ jiffies = 0
  /\ masked = TRUE                       \* until start_kernel enables interrupts
  /\ todo = timer_init \o <<"enable_irq">>

Cpu ==
  \/ init_gicd \/ init_gicc \/ gicd_config \/ gicd_set_priority \/ gicd_set_target
  \/ gicd_clear_pending \/ gicd_enable_int \/ disable_cntv \/ enable_cntv
  \/ raw_read_cntvct_el0 \/ raw_write_cntv_cval_el0 \/ CountJiffy
  \/ irq_dispatch \/ enable_irq

Next ==
  \/ Cpu \/ TakeIrq \/ Mask \/ Count
  \/ \E irq \in Others : Device(irq)

(***************************************************************************)
(* The CPU executes its calls and the counter counts.  A pending interrupt *)
(* may find interrupts masked again and again, but is taken once they are  *)
(* unmasked.                                                               *)
(***************************************************************************)
Fairness == WF_vars(Cpu) /\ WF_vars(Count) /\ SF_vars(TakeIrq)

Spec == Init /\ [][Next]_vars /\ Fairness

(***************************************************************************)
(* Properties.                                                             *)
(***************************************************************************)
\* The registers keep to 32 bits, the timer to its range.
TypeOK ==
  /\ gicd \in BOOLEAN /\ gicc \in BOOLEAN
  /\ isenabler \in Registers(INT_PER_REG) /\ ispendr \in Registers(INT_PER_REG)
  /\ ipriorityr \in Registers(IPRIORITY_PER_REG)
  /\ itargetsr \in Registers(ITARGETSR_PER_REG)
  /\ icfgr \in Registers(ICFGR_PER_REG)
  /\ line \subseteq Others
  /\ cntv \in BOOLEAN /\ rem \in 0 .. Ticks /\ since \in 0 .. Ticks
  /\ jiffies \in 0 .. JiffyWrap - 1 /\ masked \in BOOLEAN

\* Whatever the registers held before, once timer_init is through exactly the
\* timer is enabled, at the highest priority and edge triggered, and every
\* other interrupt is level triggered at a priority the CPU interface masks;
\* the shared ones go to processor 0.  Setting one field of a register leaves
\* the three or fifteen beside it alone (gicd_set_priority, gicd_set_target,
\* gicd_config).
OnlyTimerOn ==
  ~masked =>
    \A irq \in Interrupts :
      LET other == irq # TIMER_IRQ IN
      /\ IsSet(isenabler, irq) = ~other
      /\ Field(ipriorityr, irq, IPRIORITY_PER_REG, IPRIORITY_SIZE)
           = IF other THEN PRIO_MIN ELSE {}
      /\ irq >= GIC_INTNO_PPI0 =>
           Field(icfgr, irq, ICFGR_PER_REG, ICFGR_SIZE) = IF other THEN {} ELSE EDGE
      /\ irq >= GIC_INTNO_SPI0 \/ ~other =>
           Field(itargetsr, irq, ITARGETSR_PER_REG, ITARGETSR_SIZE) = {0}

\* An expiry is never lost: while the timer runs and its value is reached, the
\* interrupt is pending, however late the handler read the counter and
\* wherever in it the next expiry falls.  The line is edge triggered, so a
\* pending bit cleared after that edge would not come back (timer_handler).
NoLostExpiry == TimerLine => Pending(TIMER_IRQ)

\* A jiffy is never shorter than `ticks': timer_handler reads the counter for
\* the next period only when a whole period has passed since the last one,
\* although the interrupt is never acknowledged at the CPU interface and only
\* its pending bit tells an old expiry from a new one.
JiffyNotShort == [][raw_read_cntvct_el0 => since = Ticks]_vars

\* Ticks keep coming: jiffies changes again and again, whatever the other
\* devices do with their lines and however often interrupts are masked.
TicksContinue == \A j \in 0 .. JiffyWrap - 1 : []<>(jiffies = j)
=============================================================================
