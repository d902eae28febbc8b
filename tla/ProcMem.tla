------------------------------ MODULE ProcMem ------------------------------
(***************************************************************************)
(* The memory of processes: alloc_page, get_free_page, free_page and       *)
(* alloc_user_page(s) (mm/mm.c), copy_process as far as it allocates,      *)
(* delete_process and clear_zombie (kernel/task.c).  copy_process runs     *)
(* with preemption disabled, so that nothing comes between its steps; a    *)
(* step is one user page.  Addresses are counted in bytes, table entries   *)
(* are numbers of pages, 0 is an empty entry.                              *)
(***************************************************************************)
EXTENDS Integers, Sequences, FiniteSetsExt

CONSTANTS
  NP,                 \* PAGING_PAGES
  PAGE_SIZE, FAN,     \* bytes of a page, entries of a table (a power of 2)
  USER_MAX,           \* the stack is below it
  MAX_USER_PAGES, MAX_PGTBL_PAGES,
  Procs,              \* names for processes, each used once
  Sizes,              \* sizes of programs
  StaleMm,            \* kmalloc returns memory that was used before
  NULL

Pages == 1..NP
USER_STACK_SZ == PAGE_SIZE

\* The bytes an entry of a table covers, for the tables of each level.
Span(level) ==
  CASE level = 0 -> PAGE_SIZE
    [] level = 1 -> PAGE_SIZE * FAN
    [] level = 2 -> PAGE_SIZE * FAN * FAN
    [] level = 3 -> PAGE_SIZE * FAN * FAN * FAN
    [] level = 4 -> PAGE_SIZE * FAN * FAN * FAN * FAN
Index(a, level) == (a \div Span(level)) % FAN

\* Error: the size is rounded down.
UserPagesDown(start, size) ==
  [i \in 1..(size \div PAGE_SIZE) |-> start + (i - 1) * PAGE_SIZE]

\* The pages alloc_user_pages maps: the size is rounded up.
UserPages(start, size) ==
  LET sz == IF size % PAGE_SIZE # 0 THEN size \div PAGE_SIZE + 1 ELSE size \div PAGE_SIZE
  IN [i \in 1..sz |-> start + (i - 1) * PAGE_SIZE]

\* What copy_process maps, the stack first; and the tables this takes, each
\* with its level and its number among the tables of that level.
UserMap(size) == UserPages(USER_MAX - USER_STACK_SZ, USER_STACK_SZ) \o UserPages(0, size)
TablesFor(size) == {<<l, UserMap(size)[i] \div Span(l)>> : l \in 1..3, i \in DOMAIN UserMap(size)}
\* The pages of a process; without pages get_free_page fails (Kmalloc).
Needed(size) == 2 + Len(UserMap(size)) + Cardinality(TablesFor(size))

\* Nothing tests whether vma and pgtbl_page are full: programs that fit.
ASSUME ProcMemAssumption ==
  /\ NP \in Nat /\ PAGE_SIZE \in Nat \ {0} /\ FAN \in Nat \ {0, 1}
  /\ USER_MAX \in Nat /\ USER_MAX % PAGE_SIZE = 0 /\ USER_MAX <= Span(4)
  /\ MAX_USER_PAGES \in Nat /\ MAX_PGTBL_PAGES \in Nat
  /\ Sizes \subseteq Nat
  /\ \A size \in Sizes : /\ size <= USER_MAX - USER_STACK_SZ
                         /\ Len(UserMap(size)) <= MAX_USER_PAGES
                         /\ Cardinality(TablesFor(size)) <= MAX_PGTBL_PAGES
  /\ StaleMm \in BOOLEAN
  /\ NULL \notin [proc : Procs, todo : Seq(Nat)]

VARIABLES
  count,   \* mem_map[].count
  tbl,     \* the entries of each page that is a table
  proc,    \* task_struct with its mm, for each process
  ring,    \* the task queue behind init_task
  copying, \* copy_process in progress: the process and the addresses to map
  walk     \* clear_zombie in progress: its position in the ring, or "wild"

vars == <<count, tbl, proc, ring, copying, walk>>

none == [state |-> "none", page |-> 0, pgd |-> 0, size |-> 0,
         vma |-> [i \in 1..MAX_USER_PAGES |-> 0],
         pgtbl_page |-> [i \in 1..MAX_PGTBL_PAGES |-> 0]]
empty == [i \in 0..(FAN - 1) |-> 0]

Init ==
  /\ count = [p \in Pages |-> 0] /\ tbl = [p \in Pages |-> empty]
  /\ proc = [q \in Procs |-> none] /\ ring = << >>
  /\ copying = NULL /\ walk = 0

(***************************************************************************)
(* Pages and tables.  A step works on a record of count, tbl and an mm.    *)
(***************************************************************************)
alloc_page(c) == Max({p \in Pages : c[p] = 0})

\* Error: the page is handed out as it was left.
GetFreePageDirty(s) ==
  LET p == alloc_page(s.count) IN [s EXCEPT !.count[p] = 1, !.new = p]

get_free_page(s) ==
  LET p == alloc_page(s.count) IN [s EXCEPT !.count[p] = 1, !.tbl[p] = empty, !.new = p]

\* The entry i of the table t, which gets a page if it is empty.
Ensured(s, t, i) ==
  IF s.tbl[t][i] # 0 THEN [s EXCEPT !.new = 0]
  ELSE LET n == get_free_page(s) IN [n EXCEPT !.tbl[t][i] = n.new]

\* A new table is recorded in pgtbl_page[idx++].
EnsuredTable(s, t, i) ==
  LET n == Ensured(s, t, i) IN
  IF n.new = 0 THEN n
  ELSE [n EXCEPT !.mm.pgtbl_page[n.idx] = n.new, !.idx = @ + 1]

First(f) == LET z == {i \in DOMAIN f : f[i] = 0} IN IF z = {} THEN 0 ELSE Min(z)

Recorded(s, pa) ==
  LET v == First(s.mm.vma) IN IF v = 0 THEN s ELSE [s EXCEPT !.mm.vma[v] = pa]

alloc_user_page(a, mm) ==
  LET s0 == [count |-> count, tbl |-> tbl, mm |-> mm, new |-> 0,
             idx |-> First(mm.pgtbl_page)]
      s1 == EnsuredTable(s0, mm.pgd, Index(a, 3))
      pud == s1.tbl[mm.pgd][Index(a, 3)]
      s2 == EnsuredTable(s1, pud, Index(a, 2))
      pmd == s2.tbl[pud][Index(a, 2)]
      s3 == EnsuredTable(s2, pmd, Index(a, 1))
      pte == s3.tbl[pmd][Index(a, 1)]
      s4 == Ensured(s3, pte, Index(a, 0))
  IN Recorded(s4, s4.tbl[pte][Index(a, 0)])

(***************************************************************************)
(* copy_process                                                            *)
(***************************************************************************)
Idle == copying = NULL /\ walk = 0

\* What kmalloc returns for the mm_struct is not cleared.
Mm == IF ~StaleMm THEN {none}
      ELSE {[none EXCEPT !.vma[1] = p] : p \in Pages \cup {0}}

CopyBegin(q, size) ==
  /\ Idle /\ proc[q].state = "none"
  /\ Cardinality({p \in Pages : count[p] = 0}) >= Needed(size)
  /\ \E mm \in Mm :
       LET s0 == [count |-> count, tbl |-> tbl, new |-> 0]
           s1 == get_free_page(s0)
           s2 == get_free_page(s1)
       IN /\ count' = s2.count /\ tbl' = s2.tbl
          /\ proc' = [proc EXCEPT ![q] = [mm EXCEPT !.state = "new", !.page = s1.new,
                                                    !.pgd = s2.new, !.size = size]]
  /\ copying' = [proc |-> q, todo |-> UserMap(size)]
  /\ UNCHANGED <<ring, walk>>

CopyPage ==
  /\ copying # NULL /\ copying.todo # << >>
  /\ LET s == alloc_user_page(Head(copying.todo), proc[copying.proc]) IN
       count' = s.count /\ tbl' = s.tbl /\ proc' = [proc EXCEPT ![copying.proc] = s.mm]
  /\ copying' = [copying EXCEPT !.todo = Tail(@)]
  /\ UNCHANGED <<ring, walk>>

CopyEnd ==
  /\ copying # NULL /\ copying.todo = << >>
  /\ proc' = [proc EXCEPT ![copying.proc].state = "running"]
  /\ ring' = Append(ring, copying.proc)
  /\ copying' = NULL
  /\ UNCHANGED <<count, tbl, walk>>

Exit(q) ==
  /\ Idle /\ proc[q].state = "running"
  /\ proc' = [proc EXCEPT ![q].state = "zombie"]
  /\ UNCHANGED <<count, tbl, ring, copying, walk>>

(***************************************************************************)
(* delete_process and clear_zombie, which nothing calls yet.               *)
(***************************************************************************)
\* User pages are freed up to the first empty entry of vma.
UserPart(m) == {i \in 1..MAX_USER_PAGES : \A j \in 1..i : m.vma[j] # 0}

\* Error: the tables are not freed.
FreedNoTables(q) ==
  [p \in Pages |-> count[p] - Cardinality({i \in UserPart(proc[q]) : proc[q].vma[i] = p})
                            - (IF proc[q].page = p THEN 1 ELSE 0)]

Freed(q) ==
  [p \in Pages |-> count[p] - Cardinality({i \in UserPart(proc[q]) : proc[q].vma[i] = p})
                            - Cardinality({i \in 1..MAX_PGTBL_PAGES : proc[q].pgtbl_page[i] = p})
                            - (IF proc[q].page = p THEN 1 ELSE 0)]

\* The ring without the entry of q.
Unlinked(q) ==
  LET at == CHOOSE i \in DOMAIN ring : ring[i] = q
  IN [i \in 1..(Len(ring) - 1) |-> IF i < at THEN ring[i] ELSE ring[i + 1]]

delete_process(q) ==
  /\ count' = Freed(q)
  /\ ring' = Unlinked(q)
  /\ UNCHANGED <<tbl, proc, copying>>

Delete(q) ==
  /\ Idle /\ \E i \in DOMAIN ring : ring[i] = q
  /\ proc[q].state = "zombie"
  /\ delete_process(q)
  /\ UNCHANGED walk

ClearBegin ==
  /\ Idle /\ ring # << >>
  /\ walk' = 1
  /\ UNCHANGED <<count, tbl, proc, ring, copying>>

\* list_del has cleared the pointer by which the walk would go on: after the
\* first zombie it follows a null pointer, and that is the end.
clear_zombie ==
  /\ walk \in Nat \ {0}
  /\ IF walk \in DOMAIN ring /\ proc[ring[walk]].state = "zombie"
     THEN delete_process(ring[walk]) /\ walk' = -1
     ELSE /\ walk' = IF walk = Len(ring) THEN 0 ELSE walk + 1
          /\ UNCHANGED <<count, tbl, proc, ring, copying>>

Next ==
  \/ \E q \in Procs : Exit(q) \/ Delete(q) \/ \E size \in Sizes : CopyBegin(q, size)
  \/ CopyPage \/ CopyEnd \/ ClearBegin \/ clear_zombie

Spec == Init /\ [][Next]_vars

(***************************************************************************)
(* Properties.                                                             *)
(***************************************************************************)
\* mem_map counts are 0 or 1, table entries are pages, and the ring holds
\* processes (alloc_page, free_page, alloc_user_page).
TypeOK ==
  /\ count \in [Pages -> 0..1] /\ tbl \in [Pages -> [0..(FAN - 1) -> 0..NP]]
  /\ \A q \in Procs : /\ proc[q].state \in {"none", "new", "running", "zombie"}
                      /\ proc[q].page \in 0..NP /\ proc[q].pgd \in 0..NP
  /\ \A i \in DOMAIN ring : ring[i] \in Procs
  /\ walk \in -1..Len(ring)

InQueue(q) == \E i \in DOMAIN ring : ring[i] = q
Alive == {q \in Procs : InQueue(q) \/ (copying # NULL /\ copying.proc = q)}

\* What the MMU finds: the tables below a page, and the page an address has.
Below(S) == {tbl[p][i] : p \in S, i \in 0..(FAN - 1)} \ {0}
Tables(q) == LET l1 == Below({proc[q].pgd})  l2 == Below(l1) IN l1 \cup l2 \cup Below(l2)
Leaves(q) == LET l1 == Below({proc[q].pgd})  l2 == Below(l1) IN Below(Below(l2))
Own(q) == {proc[q].page, proc[q].pgd} \cup Tables(q) \cup Leaves(q)
Walk(q, a) ==
  LET e(t, l) == IF t = 0 THEN 0 ELSE tbl[t][Index(a, l)]
  IN e(e(e(e(proc[q].pgd, 3), 2), 1), 0)

\* No page serves two purposes: what a process can reach is allocated, is no
\* table of it, and belongs to no other process.
Isolated ==
  /\ TypeOK
  /\ \A q \in Alive : /\ \A p \in Own(q) : count[p] = 1
                      /\ Leaves(q) \cap (Tables(q) \cup {proc[q].page, proc[q].pgd}) = {}
  /\ \A q, r \in Alive : q # r => Own(q) \cap Own(r) = {}

\* Every byte of the program and of the stack has a page of its own, nothing
\* else has one, and vma and pgtbl_page record all of them.
MappedExact == \A q \in {r \in Alive : InQueue(r)} :
  /\ \A a \in 0..(USER_MAX - 1) :
       (Walk(q, a) # 0) <=>
         \/ a >= USER_MAX - USER_STACK_SZ
         \/ \E b \in 0..(proc[q].size - 1) : b \div PAGE_SIZE = a \div PAGE_SIZE
  /\ \A a, b \in 0..(USER_MAX - 1) :
       Walk(q, a) = Walk(q, b) /\ Walk(q, a) # 0 => a \div PAGE_SIZE = b \div PAGE_SIZE
  /\ {proc[q].vma[i] : i \in 1..MAX_USER_PAGES} \ {0} = Leaves(q)
  /\ {proc[q].pgtbl_page[i] : i \in 1..MAX_PGTBL_PAGES} \ {0} = Tables(q)

\* The pages in use are those of the processes in the queue, and the first
\* tables of processes that were removed, which delete_process does not free.
Removed == {q \in Procs : proc[q].state = "zombie" /\ ~InQueue(q)}
PagesAccounted ==
  {p \in Pages : count[p] # 0} =
    (UNION {Own(q) : q \in Alive}) \cup {proc[q].pgd : q \in Removed}

=============================================================================
