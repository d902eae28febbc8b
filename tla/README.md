# NBOS in TLA+

NBOS is a small teaching kernel for one ARMv8 CPU: kernel threads and processes
scheduled round robin by a timer tick, a bucket allocator over a page allocator,
system calls, and a Minix file system in flash. It has no locks. What keeps its data
consistent is a per-task preemption counter, the interrupt mask, and the order of the
stores; its file system has no protection at all. This project models those mechanisms
at the points where an interrupt can land, and the arithmetic of the file system, of the
page tables and of the interrupt controller against reference definitions. TLC checks
them on small instances; TLAPS proves most of the safety properties for every value of the
constants: any number of tasks, pages, buffers and files, any depth of nested interrupts.

## 1. Inventory

| Component | State | Operations | Correct when |
|---|---|---|---|
| Scheduler (`kernel/task.c`) | task ring through `init_task`, `next`, `state`, `preempt_count` | `scheduler_tick`, `schedule`, `select_next_task`, `switch_to`, `task_add` | counters balance; ring whole whenever it is read; only complete tasks get the CPU; nobody starves |
| Creation (`kernel/task.c`, `init/init_task.c`) | new descriptor, its frame, its address space, `ttbr0_el1` | `kthread_create`, `copy_process`, `execv` | creations exclude each other; each program lands in its own pages |
| Removal (`kernel/task.c`) | zombies in the ring | `sys_exit`, `delete_process`, `clear_zombie` | a dead task never runs; its memory comes back |
| Bucket allocator (`mm/kmalloc.c`) | `bucket_dir[].chain`, `free_bucket_desc`, descriptors | `kmalloc`, `free_s`, `init_bucket_desc` | no memory handed out twice; every object can be freed; pages come back |
| Page allocator (`mm/mm.c`) | `mem_map[]` | `alloc_page`, `free_page`, `get_free_page` | counts match use; exhaustion is reported |
| Address spaces (`mm/mm.c`, `arch/aarch64.c`) | page tables, `mm->vma`, `ttbr0_el1` | `alloc_user_page(s)`, `switch_mm` | a process sees its own pages |
| Exceptions (`arch/vector.S`, `arch/exception.c`) | frames on the kernel stack, `elr_el1`, `spsr_el1`, `sp_el0`, PSTATE.I | `kernel_entry`, `kernel_exit`, `el0_svc`, `irq_dispatch`, `ret_from_fork`, `cpu_switch_to` | every return goes to what was interrupted |
| Timer (`arch/timer.c`) | `jiffies`, the compare register | `timer_init`, `timer_handler` | ticks keep coming, no expiry is lost, no jiffy is short |
| Interrupt controller (`arch/gic_v3.c`) | enable, pending, priority, target and trigger registers | `gic_v3_initialize`, `gicd_*`, `gic_v3_find_pending_irq` | exactly the timer is enabled; setting a field keeps its neighbours |
| Memory map (`include/mm.h`, `arch/start.S`, `mm/mm.c`) | the kernel's tables, the bounds of memory | `init_mm`, `map_kernel_section(s)`, `__pa`, `__va`, `pa_to_page` | mapping the flash keeps the memory's map; addresses and pages convert exactly |
| System calls (`kernel/syscall.c`) | table, `current->filp[]` | `sys_*` | the number selects the intended function |
| File system (`fs/fs.c`) | `bh_head`, `s_inodes`, `file_tbl` | `get_blk`, `brelse`, `get_inode`, `put_inode`, `file_*` | one buffer per block, alive while used; counts exact; slots exclusive |
| Minix (`fs/minix_fs.c`) | super block, inode data | `minix_iget`, `inode_get_blk`, `minix_lookup/read/write` | an offset maps to the block of the format |
| Soft timers (`kernel/soft_timer.c`) | timer list | `timer_add`, `timer_delete`, `walk_timer_list` | a timer fires when due |

How they interact: the timer interrupt enters `kernel_entry`, `irq_dispatch`,
`timer_handler` and `scheduler_tick`, which opens interrupts again and calls
`switch_to`; the interrupted task stays inside that call until it is switched to
again. `sys_exit` reaches `switch_to` through `schedule`. `execv` uses the file system
and `kmalloc` while preemptible, then `copy_process` with preemption disabled. `kmalloc`
masks interrupts and uses the page allocator. The file system uses `kmalloc` and no
protection: a system call on a file goes through `file_tbl` and the inode list (`fs.c`) to
`minix_lookup`, `minix_read` or `minix_write`, which reach the flash through `get_blk` and
`bread`.

The hard behaviours: ticks that nest in the window `scheduler_tick` opens; globals
(`next`, `ttbr0_el1`, `elr_el1`, `sp_el0`) used after a point where another task may have
changed them; lists written by several stores; searches open to preemption; queues and
memory at their limits; a first return to EL0 with interrupts enabled. Every one is an
entry of `hazards` in PROJECT.json, with the property that would catch it or the reason why
none does.

## 2. Modules

| Module | Contents |
|---|---|
| `Sched` | scheduler, creation, exit, boot, `ttbr0_el1`; properties; inductive invariant `IInv` |
| `TaskQueue` | abstract queue: a sequence that grows at its tail, the CPU passes to ready members |
| `SchedQueue` | `Sched` implements `TaskQueue`; the mapping walks `list.next` |
| `SchedProofs` | proofs about `Sched` and `SchedQueue` |
| `Heap` | abstract heap: objects in use are disjoint |
| `Kmalloc`, `MCKmalloc` | bucket and page allocator; implements `Heap` |
| `KmallocProofs` | proofs about `Kmalloc` and the steps of `Heap` |
| `Exception`, `MCException` | exception entry and return; properties; `IInv` |
| `ExceptionProofs` | proofs about `Exception` |
| `GicTimer` | interrupt controller driver, timer, dispatch of the interrupt |
| `ProcMem` | pages and tables of processes: creation, exit, removal |
| `ProcMemProofs` | proofs about `ProcMem` |
| `MemLayout` | memory map, kernel tables, pages and addresses, with the real numbers |
| `Boot`, `MCBoot` | `init_main`: `MemLayout`, then `GicTimer` |
| `BootProofs` | proofs about `Boot`: registers, timer and page tables |
| `BlockStore` | abstract: a store of blocks |
| `BufferCache`, `MCBufferCache` | `bread`, `get_blk`, `brelse` and their users; implements `BlockStore` |
| `BufferCacheProofs` | proofs about `BufferCache` and the steps of `BlockStore` |
| `Files`, `MCFiles` | file system calls, file table, inode list, `namei`, `execv` |
| `FilesProofs` | proofs about `Files` |
| `FlatFile` | abstract: a file is an array of bytes |
| `MinixFile` | `inode_get_blk`, `minix_read`, `minix_write`; implements `FlatFile` |
| `PathWalk` | `namei`, `path_len`, `minix_lookup`, `strcmp` |
| `MinixMount` | mounting and unmounting, the place of an inode |
| `MinixFs`, `MCMinixFs` | mount, walk a path, read and write the file it leads to: `MinixMount`, `PathWalk` and `MinixFile` in one system |
| `MinixFsProofs` | proofs about `MinixFs` and the steps of `FlatFile` |

The file system is split along its interfaces. `BufferCache` shows that buffers are as
good as the blocks themselves, so `MinixFile`, `PathWalk` and `MinixMount` use blocks
directly; `PathWalk` shows what `namei` returns, so `Files` looks a name up in one step.
Each of these abstractions holds for calls that do not overlap; what overlapping calls do is
the subject of `buffer_race`. `MinixFs` composes the three modules of the Minix format, and
`Boot` the two of the machine; each instantiates its parts, states what one call needs of
another, and asserts the parts' assumptions on their constants.

### Sched

`stack[t]` holds the activations on the kernel stack of `t`, oldest first: the base (boot,
thread body or user code), then ticks and calls. An activation has the operation, the place
`at` where it stands, and the arguments it still uses. Only the top activation of `cur`
moves. One step is the code between two points where an interrupt could be observed, so
`__list_add` is four steps, and `switch_to(next)` reads the global in a step of its own.
`scheduler_tick` up to `enable_irq` runs masked and is one step; when `preempt_count` is
positive it changes nothing and has no step.

`ttbr0` is whose page table the register holds (a NULL `mm` leaves it alone, as in
`switch_mm`); `image[u]` is for whom the program in `u`'s pages was loaded, set by the
`memcpy` of `copy_process` through whatever `ttbr0` is at that time. `SysExecv` is the call
that reaches `sys_execv` (slot 8 of the table). Tasks are the numbers of the pages
their descriptors are in; `get_free_page` takes the highest free page, as `alloc_page` searches from
the top. Memory exhaustion is the subject of `Kmalloc`.

Bounds: `MaxFrames` (activations per stack) and one page per task in `KThreads`, `UTasks`;
`Room` keeps a creation from starting without a page. With three frames a tick nests in
a tick in user code, and in a system call; two processes suffice for one creating the
other while both and the two kernel tasks are switched.

### Kmalloc

Descriptors are named by page and index, objects by page, number per page and index;
free lists are sequences. `masked` is the task that masked interrupts (`disable_irqsave`);
nobody else takes a step then. `kmalloc` is masked from the walk on. The search of
`free_s` is a step per comparison and per advance, open to others. `FreeRace` says
whether `free_s` may be entered while another task is inside it: the properties hold
without such an overlap and fail with it (finding below). Writes through a null descriptor
and the clearing of a page at a null address end the task at `bad_address` and `wild`.
Bounds: five pages, two buckets of one and two objects (`MCSlots`) plus the end marker, two
descriptors per page, `MaxHeld` objects. So small pages make every page fill and
empty, descriptor pages run out, and memory run out. `CallsReturn` is about the time before
memory runs out: the task that then clears a page through a null pointer holds the interrupt
mask for ever.

### Exception

`stack[t]` are `t`'s activations at EL1, empty while `t` is at EL0. Each records in
`from` what was interrupted (for the properties) and in `saved` the frame that
`kernel_entry` stored. Taking an exception (hardware) overwrites `elr`, `spsr`, masks, and
pushes an activation at `entry`. `Open`/`Close` are `enable_irq`/`disable_irq` in
`scheduler_tick` and `el0_svc`; a switch happens only in that window. `ExitSp`, `ExitElr` and
`eret` are the pieces of `kernel_exit`; `ret_from_fork` runs the same three with interrupts
on. An `eret` whose registers are not those of its activation sets `lost` and ends
the behaviour. Values of registers x0..x30 are not modelled. Bounds: two threads, two
processes, two places and two stack pointers, three activations per stack. A finished
behaviour is possible (`SvcHalt` loops in `put_exception`), hence no deadlock check.

### GicTimer

A 32-bit register is the set of its 1 bits, so that masks and shifts are set operations
on the real layout (64 interrupts, fields of 8 and 2 bits). `todo` is the list of calls the
CPU still has to make: `timer_init` at boot, `timer_handler` after an interrupt. Between any
two of them the counter advances, other devices move their lines, and an expiry latches
the timer's edge. `rem` is the distance of the counter from the compare value and `since`
its distance from `current_cnt`, which is what a handler that is late gets wrong. After
`enable_irq` in `scheduler_tick` the handler touches neither the controller nor the timer,
so a nested interrupt is the same as the next one. The controller and the counter are
marked external. Bounds: a period of 3 counts, so that an expiry falls between any two
calls; two other lines; `jiffies` modulo 2. Initial registers are all zeros or all ones.
Assumed: no line below 27 is driven; one that stays pending would hide the timer from
`gic_v3_find_pending_irq` (the mutant of `TicksContinue` shows the effect from above).

### ProcMem

`copy_process` maps one user page per step through four levels of tables; `Index` is the
part of an address that a level uses. `delete_process` and `clear_zombie` are the code that
nobody calls yet, run as the idle task would; after the first zombie `clear_zombie` follows a
null pointer, and the model stops there. `StaleMm` lets `kmalloc` return memory that was used
before for the `mm_struct`. `UserMap` is what `copy_process` maps for a program, `TablesFor` the
tables this takes and `Needed` all its pages: `CopyBegin` waits for that many free pages, since
`get_free_page` fails without (see `Kmalloc`). Nothing tests whether `vma[]` and `pgtbl_page[]` are
full; `ProcMemAssumption` has programs that fit, as those of NBOS do (a stack page and at most a
page of program, four tables, for lists of 16 and 8). `vma[]` is as long as in the code relative to the largest program: `execv` reads a program
into one object of `kmalloc`, at most a page. Bounds: tables of two entries, so that the two
ends of the address space share and split tables at each level; three processes of three
sizes, created, ended and removed in any order on pages used before.

### MemLayout, Boot

The constants are those of `mm.h`, `board.h` and `start.S`; pages are counted from
`LOW_MEM`, the kernel's map in sections of 2 MB. `init_mm` maps the 32 sections of the flash
one per step, and all 3840 pages are converted to addresses and back in the map it leaves.
`Boot` runs `GicTimer` after that. Devices are not seen to move before `timer_init`: the
registers, the lines and the counter start with any value instead.

### BufferCache

A call is a path through get_blk's walk, `bread`, `list_add`, the access, and for file data
`brelse` in three steps. `Overlap` says whether a second task may enter meanwhile.
`Contents` maps the buffers and the flash to one store: a block with a dirty buffer has the
contents of that buffer. Bounds: one block of each kind, three buffers, two slots of two
values: enough for two copies of an inode block beside a data block.

### Files

A step is one lookup, or the code between lookups. `got` records which file and which block
numbers `execv` read; `drops` counts the calls of `generic_drop_inode`. Both are for the properties
only.

The memory of the inodes is modelled with its allocator, because a freed inode stays in use.
`generic_drop_inode` frees an inode and does not take it off `sb->s_inodes`. A
`struct minix_inode_info` has 152 bytes, so `kmalloc` takes it from the bucket of 256, and `kfree`
puts the link of the free list into its first 8 bytes, which are `i_data[0..3]`. What follows
depends on the next call:

- `get_inode` finds the same number on the list: the inode is used again with the link for block
  numbers, and when it is put it is written back and freed a second time, although nobody
  allocated it a second time. `refcnt` of the page goes down each time; when it is 0 the page
  is given back with all inodes in it, the root's too.
- `get_new_inode` needs memory: it is given the object that was freed last, numbers it anew and
  links it in before itself. The list is then a circle, and a walk that does not
  find its number on it never ends (`loop`).
- `kmalloc` needs memory of that size for something else, here the image of a small program in
  `execv`: an inode on the list is overwritten (`trampled`).
- a file that is open on such an inode is written: the flash is written at a block number that is
  a piece of an address (`stray`).

`node` are the objects of the one page the inodes come from, `freeptr` and `refcnt` those of its
descriptor, `s_inodes` the head of the list. After `wild`, `null_lookup`, `null_call`,
`trampled`, `stray`, and once the page was given back, the program is undefined and the
model stops there (`refcnt > 0` in `Svc`); a task in `loop` keeps only itself busy. `FaultsExact` says
which calls can lead there, and the other properties hold until then.

Bounds: the page has six objects (`NR_OBJ`; 16 in the code), two of them the inodes of boot (the root, and
`user_code.bin`, to which `print_minix` keeps a reference) and `Others` one more; two directories
and three files, of which one (`Small`) is small enough for its image to come from the bucket of
the inodes; two descriptors and two slots, so that both tables run full. References that `namei`
takes to directories are never given back; `MaxRefs` bounds them, `MaxPos` the position. `Overlap`
says whether calls of two tasks may overlap. Not modelled: the copies of path names that `namei`
allocates, which come from the same bucket for paths of more than 124 characters, and other callers of
`kmalloc` of that size.

### MinixMount, PathWalk, MinixFile, MinixFs

`MinixMount`: every image with one or two blocks per bitmap and up to five inodes, two to a
block, mounted and unmounted. `minix_raw_inode` returns NULL for a number out of range;
`minix_iget` does not test that (`minix_fs.c:118-120`), and what it then copies from address 0 is
not modelled. `PathWalk`: every path of up to five characters over "/", "."
and "a", from every current directory, in four trees, against a definition by splitting at
slashes. `MinixFile`: a step is one round of the block loop; byte values tell every byte from
every other. Blocks of 3 bytes, 2 direct zones and index blocks of 4 numbers; every position
and length within the direct zones, twice in a row, and calls at the end of the largest file.
One of the two files has no second zone: its number is 0, and the bytes there are those of the boot
sector, for `ImplementsFlatFile` too.
`MinixFs` puts them in sequence on the images with the super block `Populated`: a path is walked
in a mounted image, each inode it finds is fetched from the inode table, and the file at its end
is read and written until it is closed. On the other images inode numbers are read in any order.
Paths are walked until the first read or write; from then on the blocks differ, and the walk
does not depend on them.

## 3. Runs

| Run | Shows |
|---|---|
| `sched` | `PreemptExact`, `Parked`, `OneCreator`, `SwitchTargetQueued`, `QueueLinked`, `OwnAddressSpace`, `ZombieBeforeZombie` in all interleavings; the pointers implement `TaskQueue`; nobody starves while no process has exited (`NoStarvationAlive`) |
| `sched_select` | violation: `select_next_task` chooses a task that is not RUNNING |
| `kmalloc` | `RefcntExact`, `PagesAccounted`, `NoBadAddress`; `Heap` is implemented; every call returns |
| `kmalloc_race` | violation: two overlapping `free_s` |
| `exception` | `ReturnExact`, `OwnStackPointer` |
| `exception_fork` | violation: an interrupt during `ret_to_user` |
| `buffer` | `PointersLive`, `Released`, and `BlockStore` is implemented |
| `buffer_race` | violation: `brelse` under another task's walk |
| `files` | `CountsExact`, `ExecvExact`, `FaultsExact`, `FlashKept`, with inodes dropped, found again, freed again and their memory given to others |
| `minix` | `InodesApart` (with what a mount holds), `NameFits`, `NameiExact`, `OwnBlocks`, and `FlatFile` is implemented within the direct zones, there or missing |
| `procmem` | `Isolated`, `MappedExact`, `PagesAccounted` |
| `boot` | `KernelMapExact`, `PageOfAddress`, `OnlyTimerOn`, `NoLostExpiry`, `JiffyNotShort`, and ticks keep coming (`TicksContinue`) |

The violations are the findings of PROJECT.json, each with the line of the repository
that says otherwise. The type invariants of `BufferCache`, `Files`, `ProcMem`, `MinixFs` and `Boot`
are conjuncts of `Released`, `CountsExact`, `Isolated`, `InodesApart`, `KernelMapExact` and
`NoLostExpiry`.

Several properties hold with an exception that is part of their statement, because the code
has it:

- `ZombieBeforeZombie`: `sys_exit` relies on `schedule()` not to return, but it returns when
  the next task of the ring is a zombie, and the dead process goes on in user code. The cause is
  that `select_next_task` does not look at the state, which `sched_select` shows.
- `NoStarvationAlive`: a zombie is never unlinked and `select_next_task` takes the successor
  whatever its state (`sched_select`), so its predecessor is never preempted again.
- `CallsReturn`: `get_free_page` does not test the result of `alloc_page`.
- `ExecvExact`: an inode that was dropped is found on the list, its block numbers overwritten by
  the link of the free list; `execv` then reads other blocks. It is never another file.
- `FlashKept`: such an inode, dropped again, is written back with the link for its block numbers.
  `i_nlink` is never read from the flash and is written back at the first drop.
- `CountsExact`: an inode that got the memory of a dropped one (`GivenAgain`) starts with one
  reference, even if a slot has been opened on that memory since.
- `FaultsExact`: `sys_execv` uses an error code as an index, `namei` and `file_read` call
  functions an inode may not have; and what freed inodes lead to, each with the drops it takes.
  The page of the inodes is given back only after more drops, of one or two inodes, than the page
  had objects in use after boot.
- `OwnBlocks`: where the file has no zone, `minix_write` writes the boot sector
  (`minix_fs.c:160` takes block number 0 as it is, and nothing looks at `i_size`).
- `NameiExact`: a name of `NAME_LEN` characters has no end in its entry, and a deleted entry
  hides a file of the same name behind it.
- `PagesAccounted` (in `ProcMem`): `delete_process` does not free the page of the first table.

What the constants of the passing runs leave out, and what TLC finds with them: overlapping
calls in `Files` (`Overlap = TRUE`; two opens share a slot of `file_tbl`); a request of more than
a page in `Kmalloc` (`Requests` with the end marker; `free_s` never finds it); positions behind the
direct zones in `MinixFile` (`Extents`; `inode_get_blk` reads four block numbers as one); an `mm_struct` in used memory in `ProcMem` (`StaleMm = TRUE`; removal
frees another process's page). By reading alone: `syscall_table` has no `sys_close`, so that
number 7, which user programs have for close, is lseek; `HIGH_MEM` is counted from `IMAGE_START`
and the pages from `LOW_MEM`, so that the highest pages lie beyond it and `init_mm` does not
report an image that reaches into the pages.

Fairness. `Sched`: weak fairness of the kernel's own steps (the CPU executes the next
instruction) and of the tick (the timer is restarted by every tick, so code that stays
preemptible is interrupted). Nothing is assumed of processes. `Kmalloc`: weak fairness
of each task inside the allocator, which is what `sched` shows of the scheduler.
`Boot`: weak fairness of `init_mm`, of the CPU's calls and of the counter, strong fairness of taking
the interrupt: code masks interrupts again and again, but the CPU takes a pending one when
they are unmasked. The other modules state no liveness.

`CHECK_DEADLOCK FALSE` stands where a behaviour may end: a bound is reached, all processes
have exited, or the code has followed a pointer to nowhere and the model stops there.

## 4. Proofs

| Module | Hypotheses beside the ASSUMEs | Proved |
|---|---|---|
| `SchedProofs` | none | `TypeOK`, `PreemptExact`, `Parked`, `OneCreator`, `SwitchTargetQueued`, `QueueLinked`, `OwnAddressSpace`, `ZombieBeforeZombie`, `ImplementsTaskQueue` |
| `ExceptionProofs` | none | `TypeOK`, `ReturnExact`, `OwnStackPointer` |
| `KmallocProofs` | `~FreeRace` | `TypeOK`, `RefcntExact`, `PagesAccounted`, `ImplementsHeap`; `NoBadAddress` if no request exceeds a page |
| `BufferCacheProofs` | `~Overlap` | `PointersLive`, `Released`, `ImplementsBlockStore` |
| `FilesProofs` | `~Overlap` | `ExecvExact`, `FaultsExact`, `FlashKept`; `CountsExact` if no path is the root itself |
| `ProcMemProofs` | `~StaleMm` | `Isolated`, `MappedExact`, `PagesAccounted` |
| `BootProofs` | none | `OnlyTimerOn`, `NoLostExpiry`, `JiffyNotShort`, `KernelMapExact`, `PageOfAddress` |
| `MinixFsProofs` | none for `NameFits`; `DirectCalls` for `InodesApart` and `OwnBlocks`; also `ZonesApart` for `ImplementsFlatFile`; `TidyImages` for `NameiExact` | these five |

None of these properties is inductive alone. Each module defines the invariant that is (`IInv`;
`ZInv` and `QInv` in `SchedProofs`; `GInv` and `LInv` in `BootProofs`; `Inv`, `FInv` and `NInv` in `MinixFsProofs`), proves it with one lemma per action, and derives the
properties from it. The hypotheses are those of the runs: without `~FreeRace` and `~Overlap` TLC
finds the violations of section 3; with `StaleMm` a removal frees pages that are not the process's. A request of more than a page goes to the end marker of
`bucket_dir`, where `free_s` never looks. `namei` takes a reference to every directory it passes,
but none to the root it starts from, so that an `open("/")` and its close put a reference that
nobody took: the theorem on counts leaves out that path. `DirectCalls` says that calls stay within
the direct zones, whether their file has them or not, or begin where no file can reach, since
`inode_get_blk` does not find the blocks behind them; `ZonesApart` that no block is in two of the
places calls reach (two missing zones would both be the boot sector);
`TidyImages` that every directory has "." for itself, which `namei` relies on when it skips "./" at
the beginning, and that no two entries in use have the same name. TLC evaluates the three on the
constants of `minix`.

**Sched.** A stack is a base below ticks and calls (`StackShape`), and the counter is 1
exactly while the top stands in a protected section and nothing below does (`PreemptExact`). So
a tick, which needs 0, never interrupts a creation or `switch_to`; the only task that is inside
a creation is the running one. `NewTask` keeps its descriptor private until it is set RUNNING,
`RingInv` says how far the four stores have come, `NextQueued` that the global and every argument
taken from it are added tasks, `AddressInv` where `ttbr0` points. For `ZombieBeforeZombie` the
invariant `ZInv` says what a task that has set itself TASK_ZOMBIE may still do: it stands in
`schedule()` until `switch_to` leaves it, and it keeps the CPU only if the task it was to
give it to is a zombie, which its successor then still is. The lemmas on stacks that only
change at the top are shared.

`RingInv` alone does not say that there is one ring: two rings side by side would satisfy it.
For the refinement of `TaskQueue` the invariant `QInv` says that the tasks a walk meets are a
sequence without repetition, closed at the head (`Chain`), with every added task in it. `WalkIs`
is the induction: for any links with such a sequence the recursive walk of `SchedQueue` returns
exactly it, which needs that there are finitely many tasks. The second store of `__list_add`
changes a link that no walk follows (`Reached`), the last one appends to the sequence
(`LastIs`, `Extended`): that is `Enqueue`; `task_add`'s state is `MakeReady`, TASK_ZOMBIE
`Finish`, `cpu_switch_to` `Dispatch`, and every other step leaves the abstract queue alone.

**Exception.** `Suspended` (what was interrupted or switched away from is interruptible
code) with `MaskInv` gives that nothing runs between the two ends of an exception but
itself; `RegsInv` says that there the registers are its own; `Activations` that in between
they are in its frame; `UserInv` that the oldest frame holds the process's stack pointer.
The proofs hold up to an `eret` that goes astray, which `ReturnExact` excludes for interrupts
and system calls and which only the first return of a process can do.

**Kmalloc.** A chain is a linked list, and a search of any length over it is proved without
following it: every descriptor has a bucket and a rank, the time at which it was put at the
head of its chain; each chain is sorted by rank. A search that `kmalloc` interrupts again and
again is still above the descriptor it looks for, since new descriptors only come in at the head
and only the one task inside `free_s` takes any out. `SpareList` keeps spare descriptors and
chains apart, `PageUse` pages and descriptors. For `Heap`, memory that is handed out is on a free
list or on a fresh page, and neither overlaps what a task holds.

**ProcMem.** All pages in use are the nodes of a forest (`Forest`): the node `<<q, l, k>>` is the
page that process `q` has at place `k` of level `l`, from its user pages (0) over three levels of
tables to its first table (4), and its task page (5). The invariant says that there is an
assignment `P` of pages to nodes with these properties: no two nodes have the same page and every
page in use has a node (`Placed`); entry `i` of the table at `k` is the page at `FAN * k + i` one
level down, or 0 if there is none, and nothing hangs without the table above it (`Linked`); the
nodes of a process are those of the pages it has so far (`Nodes`); `vma` and `pgtbl_page` name them
all, each once (`Filled`, `Listed`); of a removed process one node is left (`Stump`). `P` is not a
variable of the code: each step shows how to change it. `alloc_user_page` adds a node for each
entry it finds empty (`Grow`), and a page from `get_free_page` may hang there because it was
cleared. It never runs out of pages or of room in the lists since the free pages cover what is
still missing (`Supply`). `delete_process` goes by the lists alone, so that `Listed` and `Filled`
are needed for `Prune`: it frees exactly the nodes. The properties speak of what the MMU finds; that
this is the forest is four steps of `Linked` (`BelowLevel`, `WalkNode`). The arithmetic, that the
index of an address on a level and its number on the level above give its number, is `Levels`.

**BufferCache.** What the walk of `get_blk` has passed holds other blocks (`Passed`), so that a
block looked up by the walk is never put on the list twice. Inode blocks are read anew each time
and file data is released at once; `Contents` is the same store whichever copy a reader finds.

**Files.** The counts of slots and inodes are numbers; what they count is spread over the
descriptors of all tasks and the reference that `namei` holds and no slot has yet. The invariant
relates the three. For the memory it says that the list runs through the page in the order of the
addresses, and that one of three stages is reached: no inode was dropped (`Fresh`); one was,
the newest, which is both on the list and first of the free objects (`Freed`); its memory was given to another inode, which
is linked to itself (`Given`). There is no fourth: in the circle a walk finds its number or never
ends, so that no further inode is allocated. That only the newest can be dropped is so because
there is no call that closes a file: an inode is put by the `execv` that looked it up, and what
was looked up on the way or is open keeps a reference. `refcnt` and `drops` together count the
objects, which gives when the page can be given back. That `namei` has followed the path so far is an induction over its length.

**Boot.** The calls that the CPU still has to make are one of 19 lists, the places of
`timer_init` and `timer_handler`. `GInv` says for each of them what each register field holds and
how the counter stands to the compare value. It is proved from any contents of the registers,
more than the initial states that TLC has. `SetField` is shown to keep all other fields, for fields
of 8 and of 2 bits. The page tables are a tree (`Tree`): no two entries lead to the same
table, so that filling an entry adds one section and changes no other; a section is given by
its three table entries. The assumptions on the layout (`MemLayoutConstants`) are facts of `mm.h`,
`board.h` and `start.S` that TLC evaluates on the real numbers: memory begins at a section,
`start.S` maps all of it and fills one table, the flash is mapped elsewhere, and there are pages
for two new tables for each of its sections.

**MinixFs.** The invariant has a part for each of the three modules and one that joins them
(`Together`): the image stays mounted while a path is walked or a file is open, and a file that
was reached has had its inode fetched. `MInv` says which blocks of the bitmaps have been read and
that `held` is exactly what `m_sbi` lists; `InodesApart` is then arithmetic on `\div` and `%`.
`PInv` says that what is left of the path fits into the room `namei` has allocated, which with the
fact that `path_len` never goes beyond the end gives `NameFits`. `FInv` says that what is left of
a call lies in direct zones; it keeps a call from ever using a word that is no block number. For
`FlatFile`, the bytes of one round lie in one block in the order of their positions
(`SameBlock`), and that block is the place of no other position of any file (`Stored`).
`NameiExact` needs `NInv`: the inode that was reached is what the characters behind lead to
(`After`), and no entry behind in the directory has the name that is looked up, unless the name
fills its field. `NextPart` is the step of the path: between two components `After` stays the
same. `Strcmp` is the step of the directory: in the bytes of a block the comparison stops within
the entry, so that it says "equal" only of equal names, and "different" of equal names only where
nothing ends them. That `After` is the function its recursive definition describes is proved too
(`AfterIs`).

The prover has no induction scheme that takes a formula. Where an induction over numbers is
needed (`SchedProofs`, `FilesProofs`, `MinixFsProofs`), it is proved from the library's theorem that `<` is well-founded, as a fact
about sets of numbers.

Only model-checked: `NoStarvationAlive`, `CallsReturn` and `TicksContinue`, since liveness is outside
the prover.

## 5. Not modelled

- `lib/printf.c` is a vendored implementation; `lib/lib.c` beyond `strcmp` and `strlen` is
  output to the UART and plain copies.
- `kernel/soft_timer.c`: one timer is added at boot with interrupts masked, and no code that runs
  walks the list or deletes from it.
- The `print_*` helpers, `task_nums`, and `gicd_disable_int` and `gic_v3_eoi`, which nobody calls.
- The test of `flags` in `map_kernel_section`: its one caller passes a valid flag.
- `arch/start.S` apart from the map it leaves: straight-line set-up of system registers.
- Real time: how many ticks can nest before a kernel stack of one page overflows depends on
  it, and so does the drift of `jiffies` (each period begins when the handler reads the
  counter, not when the last one ended).
- General registers in exception frames; memory ordering (one CPU).
- The flash as a device: a block is read or written at once and does not fail.

## 6. Plan

Every safety property that a run checks has its theorem. What is left:

- the liveness properties, if a prover for fairness becomes available;
- the soft timers, once code that runs walks or changes their list.
