-------------------------------- MODULE Files --------------------------------
(***************************************************************************)
(* System calls on files (kernel/syscall.c), the file table, the inode     *)
(* cache and namei (fs/fs.c), inodes in memory and on the flash            *)
(* (fs/minix_fs.c), and the memory the inodes are in (mm/kmalloc.c).       *)
(* Everything here is preemptible; a step is one lookup, or the code       *)
(* before, between and after the lookups of a call.                        *)
(*                                                                         *)
(* The memory matters because generic_drop_inode frees an inode and leaves *)
(* it on sb->s_inodes: the next get_inode may find it there, and the next  *)
(* get_new_inode is given the same object again.                           *)
(***************************************************************************)
EXTENDS Integers, Sequences, FiniteSets

CONSTANTS
  Tasks,
  Regs, Dirs,  \* inode numbers of regular files and of directories
  Small,       \* the files whose image execv reads into an object of Nodes
  Root,        \* MINIX_ROOT_INO
  Entry,       \* Entry[d][n]: the inode the directory d has under the name n
  Paths,       \* the paths that are used, as sequences of names
  BootInodes,  \* the inodes init_fs and print_minix have left, in their order,
  BootRefs,    \* and their references
  i_size,      \* of each inode
  NR_OPEN, NR_FILE,
  NR_OBJ,      \* bound: inodes come from one page of their bucket
  Others,      \* objects of that page that are not inodes (sbi->s_imap)
  MaxRefs,     \* bound on i_count: lookups never return their references
  MaxPos,      \* bound on f_pos: minix_read and minix_write know no end
  Overlap,     \* calls of several tasks overlap
  NULL,
  OWN, STALE   \* zones of the file itself, and anything else

Inos == Regs \cup Dirs
Nodes == 1..NR_OBJ

ASSUME FilesAssumption ==
  /\ Root \in Dirs /\ Regs \cap Dirs = {} /\ Small \subseteq Regs
  /\ \A d \in Dirs : \A n \in DOMAIN Entry[d] : Entry[d][n] \in Inos
  /\ Paths \subseteq Seq(STRING)
  /\ BootInodes \in Seq(Inos) /\ Len(BootInodes) \in Nodes /\ BootInodes[1] = Root
  /\ \A m, n \in 1..Len(BootInodes) : BootInodes[m] = BootInodes[n] => m = n
  /\ BootRefs \in [1..Len(BootInodes) -> Nat \ {0}]
  /\ i_size \in [Inos -> Nat]
  /\ NR_OPEN \in Nat \ {0} /\ NR_FILE \in Nat \ {0}
  /\ NR_OBJ \in Nat /\ Others \in Nat
  /\ MaxRefs \in Nat /\ MaxPos \in Nat
  /\ Overlap \in BOOLEAN
  /\ NULL \notin Inos \cup Nat
  /\ OWN \notin Nat \cup {NULL, STALE} /\ STALE \notin Nat \cup {NULL}

VARIABLES
  node,      \* the objects of the page: struct minix_inode_info
  s_inodes,  \* sb->s_inodes.next
  freeptr, refcnt,  \* of the page's struct bucket_desc
  raw,       \* struct minix_inode on the flash
  file_tbl,
  filp,      \* current->filp of each task
  pc,        \* where each task stands, with its local variables
  drops      \* how often generic_drop_inode has been called, by inode number

memory == <<node, s_inodes, freeptr, refcnt>>
vars == <<node, s_inodes, freeptr, refcnt, raw, file_tbl, filp, pc, drops>>

(***************************************************************************)
(* The table of system calls; a program selects by the number.  The table  *)
(* has no sys_close: number 7, which user programs have for close, is      *)
(* lseek.                                                                  *)
(***************************************************************************)
syscall_table == <<"sys_put", "sys_fork", "sys_malloc", "sys_exit", "sys_open",
                   "sys_read", "sys_write", "sys_lseek", "sys_execv">>
user == [at |-> "user", svc |-> NULL, path |-> << >>, done |-> 0, fd |-> 0,
         f |-> NULL, dir |-> NULL, got |-> NULL]

At(t, at) == pc[t].at = at
\* el0_svc: the number selects the function.  A task that walks in circles
\* stays preemptible.  When the page of the inodes has been given back, what
\* follows depends on who gets it.
Svc(t, n, fs) ==
  /\ At(t, "user")
  /\ Overlap \/ \A u \in Tasks : pc[u].at \in {"user", "dead", "loop"}
  /\ n + 1 \in DOMAIN syscall_table /\ syscall_table[n + 1] \in fs
  /\ refcnt > 0

(***************************************************************************)
(* Inodes.  An object that has not been used yet has no number.  i_data    *)
(* is OWN while it holds the zones of the file, STALE when the flash had   *)
(* something else; kfree links a freed object to the next one through its  *)
(* first 8 bytes, which are i_data[0..3].                                  *)
(***************************************************************************)
\* kmalloc sets up the chain of free objects in the order of their addresses.
Spare(n) == [i_ino |-> NULL, i_count |-> 0,
             i_data |-> IF n < NR_OBJ THEN n + 1 ELSE NULL, next |-> NULL]
Booted(n) == [i_ino |-> BootInodes[n], i_count |-> BootRefs[n], i_data |-> OWN,
              next |-> IF n = 1 THEN NULL ELSE n - 1]
root_inode == 1

Init ==
  /\ node = [n \in Nodes |-> IF n <= Len(BootInodes) THEN Booted(n) ELSE Spare(n)]
  /\ s_inodes = Len(BootInodes)
  /\ freeptr = IF Len(BootInodes) < NR_OBJ THEN Len(BootInodes) + 1 ELSE NULL
  /\ refcnt = Len(BootInodes) + Others
  /\ raw = [i \in Inos |-> [i_zone |-> OWN, i_nlinks |-> OWN]]
  /\ file_tbl = [f \in 1..NR_FILE |-> [f_inode |-> NULL, f_count |-> 0, f_pos |-> 0]]
  /\ filp = [t \in Tasks |-> [fd \in 1..NR_OPEN |-> NULL]]
  /\ pc = [t \in Tasks |-> user]
  /\ drops = [i \in Inos |-> 0]

\* The walk of get_inode along s_inodes, which stops at its end or at an inode
\* of the number i: where it stands after k nodes.
Visit(i) ==
  LET visit[k \in 0..NR_OBJ] ==
        IF k = 0 THEN s_inodes
        ELSE IF visit[k - 1] = NULL THEN NULL
        ELSE IF node[visit[k - 1]].i_ino = i THEN visit[k - 1]
        ELSE node[visit[k - 1]].next
  IN visit

\* get_new_inode and minix_iget: the object that was freed last, linked in at
\* the head of s_inodes wherever it is linked already.
GetNewInode(i) ==
  /\ freeptr \in Nodes
  /\ node' = [node EXCEPT ![freeptr] =
                [i_ino |-> i, i_count |-> 1, i_data |-> raw[i].i_zone, next |-> s_inodes]]
  /\ s_inodes' = freeptr
  /\ freeptr' = node[freeptr].i_data
  /\ refcnt' = refcnt + 1

\* minix_iget of inode i, for namei; no walk that ends is longer than NR_OBJ.
get_inode(t, i) ==
  LET n == Visit(i)[NR_OBJ] IN
  CASE n = NULL ->
         /\ GetNewInode(i)
         /\ pc' = [pc EXCEPT ![t].dir = freeptr, ![t].done = @ + 1]
    [] n # NULL /\ node[n].i_ino = i ->
         /\ node' = [node EXCEPT ![n].i_count = @ + 1]
         /\ pc' = [pc EXCEPT ![t].dir = n, ![t].done = @ + 1]
         /\ UNCHANGED <<s_inodes, freeptr, refcnt>>
    [] OTHER ->
         /\ pc' = [pc EXCEPT ![t].at = "loop"]
         /\ UNCHANGED memory

\* minix_write_inode; nothing has ever set inode->i_nlink.
WrittenBack(x) == [i_zone |-> IF x.i_data = OWN THEN OWN ELSE STALE,
                   i_nlinks |-> STALE]
\* minix_destroy_inode: kfree, whether or not the object is free already.
Destroyed(x) == [x EXCEPT !.i_count = 0, !.i_data = freeptr]

\* Error: the inode is freed and then written back.
DropInodeLate(n) ==
  /\ raw' = [raw EXCEPT ![node[n].i_ino] = WrittenBack(Destroyed(node[n]))]
  /\ node' = [node EXCEPT ![n] = Destroyed(@)]
  /\ freeptr' = n
  /\ refcnt' = refcnt - 1
  /\ drops' = [drops EXCEPT ![node[n].i_ino] = @ + 1]

generic_drop_inode(n) ==
  /\ raw' = [raw EXCEPT ![node[n].i_ino] = WrittenBack(node[n])]
  /\ node' = [node EXCEPT ![n] = Destroyed(@)]
  /\ freeptr' = n
  /\ refcnt' = refcnt - 1
  /\ drops' = [drops EXCEPT ![node[n].i_ino] = @ + 1]

put_inode(n) ==
  /\ IF node[n].i_count = 1 THEN generic_drop_inode(n)
     ELSE /\ node' = [node EXCEPT ![n].i_count = IF @ = 0 THEN 0 ELSE @ - 1]
          /\ UNCHANGED <<freeptr, refcnt, raw, drops>>
  /\ UNCHANGED s_inodes

(***************************************************************************)
(* file_open, for sys_open and sys_execv                                   *)
(***************************************************************************)
\* Error: namei passes the root directory to every lookup.
LookupFromRoot(d, n) == IF n \in DOMAIN Entry[Root] THEN Entry[Root][n] ELSE NULL

\* Error: only the root directory is searched.
LookupRootOnly(d, n) == IF d = Root /\ n \in DOMAIN Entry[d] THEN Entry[d][n] ELSE NULL

Lookup(d, n) == IF d \in Dirs /\ n \in DOMAIN Entry[d] THEN Entry[d][n] ELSE NULL
\* What a path designates.
Target(p) ==
  LET walk[i \in 0..Len(p)] ==
        IF i = 0 THEN Root
        ELSE IF walk[i - 1] \in Dirs /\ p[i] \in DOMAIN Entry[walk[i - 1]]
             THEN Entry[walk[i - 1]][p[i]]
             ELSE NULL
  IN walk[Len(p)]

FreeFds(t) == {fd \in 1..NR_OPEN : filp[t][fd] = NULL}
\* Error: the count of the slot is not looked at.
FreeSlotsAll(f) == DOMAIN f
FreeSlots(f) == {s \in DOMAIN f : f[s].f_count = 0}
Lowest(S) == CHOOSE x \in S : \A y \in S : x <= y

\* file_open returns an error: sys_open passes it on, sys_execv takes it for
\* an index into filp, and nothing that follows is defined.
Fail(t, n, p, code) ==
  pc' = [pc EXCEPT ![t] = IF syscall_table[n + 1] = "sys_open" THEN user
                          ELSE [at |-> "wild", svc |-> NULL, path |-> p, done |-> 0, fd |-> code,
                                f |-> NULL, dir |-> NULL, got |-> NULL]]

OpenBegin(t, n, p) ==
  /\ Svc(t, n, {"sys_open", "sys_execv"})
  /\ \A m \in Nodes : node[m].i_count < MaxRefs
  /\ IF FreeFds(t) = {} THEN Fail(t, n, p, -1) /\ UNCHANGED filp
     ELSE IF FreeSlots(file_tbl) = {} THEN Fail(t, n, p, -2) /\ UNCHANGED filp
     ELSE LET fd == Lowest(FreeFds(t))
              f == Lowest(FreeSlots(file_tbl))
          IN /\ filp' = [filp EXCEPT ![t][fd] = f]
             /\ pc' = [pc EXCEPT ![t] = [at |-> "namei", svc |-> n, path |-> p, done |-> 0,
                         fd |-> fd, f |-> f, dir |-> root_inode, got |-> NULL]]
  /\ UNCHANGED <<memory, raw, file_tbl, drops>>

\* minix_lookup; a directory whose zones are lost may hold anything.
Entries(d, n) == IF node[d].i_data = OWN THEN {Lookup(node[d].i_ino, n)}
                 ELSE Inos \cup {NULL}

\* One round of namei: dir->i_op->lookup, which a regular file does not have.
namei(t) ==
  /\ At(t, "namei")
  /\ pc[t].done < Len(pc[t].path)
  /\ LET l == pc[t]
     IN IF node[l.dir].i_ino \in Regs
        THEN /\ pc' = [pc EXCEPT ![t].at = "null_lookup"]
             /\ UNCHANGED <<memory, file_tbl, filp>>
        ELSE \E i \in Entries(l.dir, l.path[l.done + 1]) :
               IF i = NULL
               THEN /\ filp' = [filp EXCEPT ![t][l.fd] = NULL]
                    /\ file_tbl' = [file_tbl EXCEPT ![l.f].f_count = 0]
                    /\ Fail(t, l.svc, l.path, -3)
                    /\ UNCHANGED memory
               ELSE get_inode(t, i) /\ UNCHANGED <<file_tbl, filp>>
  /\ UNCHANGED <<raw, drops>>

Opened(n) == [f_inode |-> n, f_count |-> 1, f_pos |-> 0]

OpenEnd(t) ==
  /\ At(t, "namei")
  /\ pc[t].done = Len(pc[t].path)
  /\ file_tbl' = [file_tbl EXCEPT ![pc[t].f] = Opened(pc[t].dir)]
  /\ pc' = [pc EXCEPT ![t] = IF syscall_table[@.svc + 1] = "sys_open" THEN user
                             ELSE [@ EXCEPT !.at = "execv"]]
  /\ UNCHANGED <<memory, raw, filp, drops>>

(***************************************************************************)
(* The rest of sys_execv: execv reads the whole file (copy_process is in   *)
(* Sched), then file_close.                                                *)
(***************************************************************************)
\* kmalloc would give out an object that is an inode on s_inodes.
Trampled == freeptr # NULL /\ node[freeptr].i_ino # NULL

execv(t) ==
  /\ At(t, "execv")
  /\ LET f == filp[t][pc[t].fd]
         n == file_tbl[f].f_inode
         i == node[n].i_ino
     IN CASE i \in Dirs ->
               pc' = [pc EXCEPT ![t].at = "null_call"] /\ UNCHANGED file_tbl
          [] i \in Small /\ Trampled ->
               pc' = [pc EXCEPT ![t].at = "trampled"] /\ UNCHANGED file_tbl
          [] OTHER ->
               /\ file_tbl' = [file_tbl EXCEPT ![f].f_pos = i_size[i]]
               /\ pc' = [pc EXCEPT ![t].at = "close",
                           ![t].got = <<i, WrittenBack(node[n]).i_zone>>]
  /\ UNCHANGED <<memory, raw, filp, drops>>

\* Error: the descriptor is cleared and the slot is forgotten.
ClosedForgotten(x) == x

Closed(x) == IF x.f_count = 0 THEN x ELSE [x EXCEPT !.f_count = @ - 1]

file_close(t) ==
  /\ At(t, "close")
  /\ LET f == filp[t][pc[t].fd] IN
       /\ filp' = [filp EXCEPT ![t][pc[t].fd] = NULL]
       /\ file_tbl' = [file_tbl EXCEPT ![f] = Closed(@)]
       /\ put_inode(file_tbl[f].f_inode)
  /\ pc' = [pc EXCEPT ![t] = user]

(***************************************************************************)
(* The other calls.                                                        *)
(***************************************************************************)
Inode(f) == node[file_tbl[f].f_inode]

\* file_read and file_write of one unit; a directory has neither function.
FileReadWrite(t, f) ==
  IF Inode(f).i_ino \in Dirs
  THEN pc' = [pc EXCEPT ![t].at = "null_call"] /\ UNCHANGED file_tbl
  ELSE /\ file_tbl[f].f_pos < MaxPos
       /\ file_tbl' = [file_tbl EXCEPT ![f].f_pos = @ + 1]
       /\ pc' = [pc EXCEPT ![t] = user]

SysReadWrite(t, n, fd) ==
  /\ Svc(t, n, {"sys_read", "sys_write"})
  /\ filp[t][fd] # NULL
  /\ FileReadWrite(t, filp[t][fd])
  /\ UNCHANGED <<memory, raw, filp, drops>>

\* A zone that is a part of an address: any block of the flash is written.
StrayWrite(t, n, fd) ==
  /\ Svc(t, n, {"sys_write"})
  /\ filp[t][fd] # NULL
  /\ Inode(filp[t][fd]).i_ino \in Regs /\ Inode(filp[t][fd]).i_data # OWN
  /\ pc' = [pc EXCEPT ![t].at = "stray"]
  /\ UNCHANGED <<memory, raw, file_tbl, filp, drops>>

\* file_lseek: the position is moved only to a place inside the file.
Sought(x, offset, whence) ==
  LET pos == CASE whence = "SEEK_SET" -> offset
               [] whence = "SEEK_CUR" -> x.f_pos + offset
               [] whence = "SEEK_END" -> i_size[node[x.f_inode].i_ino] + offset
  IN IF pos \in 0..i_size[node[x.f_inode].i_ino] THEN [x EXCEPT !.f_pos = pos] ELSE x

SysLseek(t, n, fd, offset, whence) ==
  /\ Svc(t, n, {"sys_lseek"})
  /\ filp[t][fd] # NULL
  /\ file_tbl' = [file_tbl EXCEPT ![filp[t][fd]] = Sought(@, offset, whence)]
  /\ pc' = [pc EXCEPT ![t] = user]
  /\ UNCHANGED <<memory, raw, filp, drops>>

\* sys_exit leaves the task's files as they are.
SysExit(t, n) ==
  /\ Svc(t, n, {"sys_exit"})
  /\ pc' = [pc EXCEPT ![t] = [user EXCEPT !.at = "dead"]]
  /\ UNCHANGED <<memory, raw, file_tbl, filp, drops>>

Numbers == 0..(Len(syscall_table) - 1)
Whences == {"SEEK_SET", "SEEK_CUR", "SEEK_END"}

Next == \E t \in Tasks :
  \/ \E n \in Numbers :
       \/ \E p \in Paths : OpenBegin(t, n, p)
       \/ \E fd \in 1..NR_OPEN :
            \/ SysReadWrite(t, n, fd) \/ StrayWrite(t, n, fd)
            \/ \E o \in {-1, 0, 1}, w \in Whences : SysLseek(t, n, fd, o, w)
       \/ SysExit(t, n)
  \/ namei(t) \/ OpenEnd(t) \/ execv(t) \/ file_close(t)

Spec == Init /\ [][Next]_vars

(***************************************************************************)
(* Properties.  They speak of the time until the code leaves the defined,  *)
(* and FaultsExact says when that can be: after one of the places "wild",  *)
(* "null_lookup", "null_call", "trampled" and "stray", and once the page   *)
(* of the inodes was given back, anything may happen.                      *)
(***************************************************************************)
Places == {"user", "dead", "namei", "loop", "execv", "close", "wild", "null_lookup",
           "null_call", "trampled", "stray"}

\* Descriptors are NULL or slots of file_tbl, slots refer to objects of the
\* page, counts stay in their range, and the locals of file_open and namei are
\* inodes, slots and error codes.
TypeOK ==
  /\ node \in [Nodes -> [i_ino : Inos \cup {NULL}, i_count : Nat,
                         i_data : {OWN, STALE, NULL} \cup Nodes,
                         next : Nodes \cup {NULL}]]
  /\ s_inodes \in Nodes /\ freeptr \in Nodes \cup {NULL} /\ refcnt \in Nat
  /\ raw \in [Inos -> [i_zone : {OWN, STALE}, i_nlinks : {OWN, STALE}]]
  /\ file_tbl \in [1..NR_FILE -> [f_inode : Nodes \cup {NULL}, f_count : 0..1,
                                  f_pos : Nat]]
  /\ filp \in [Tasks -> [1..NR_OPEN -> 1..NR_FILE \cup {NULL}]]
  /\ \A t \in Tasks :
       /\ pc[t].at \in Places
       /\ pc[t].svc \in Numbers \cup {NULL} /\ pc[t].path \in Paths \cup {<< >>}
       /\ pc[t].done \in 0..Len(pc[t].path)
       /\ pc[t].fd \in -3..NR_OPEN /\ pc[t].f \in 1..NR_FILE \cup {NULL}
       /\ pc[t].dir \in Nodes \cup {NULL}
  /\ drops \in [Inos -> Nat]

\* The descriptors that refer to slot f, except the one file_open is filling.
Users(f) == {u \in Tasks \X (1..NR_OPEN) :
  /\ filp[u[1]][u[2]] = f
  /\ ~(pc[u[1]].at \in {"namei", "loop", "null_lookup"} /\ pc[u[1]].fd = u[2])}

\* An object that is linked to itself was free and on s_inodes when it was
\* given to another inode.
GivenAgain(n) == node[n].next = n

\* f_count is the number of descriptors that refer to the slot, and the inode
\* of an open file has a reference for every slot that has it: "error, close
\* file whose f_count is 0!" and "error, put a inode with i_count==0!" are
\* never printed.  The exception is memory that was given to a second inode,
\* which starts with one reference whoever still uses the first.
CountsExact ==
  /\ TypeOK
  /\ \A f \in 1..NR_FILE : file_tbl[f].f_count = Cardinality(Users(f))
  /\ \A n \in Nodes :
       LET open == {f \in 1..NR_FILE : file_tbl[f].f_count > 0 /\ file_tbl[f].f_inode = n}
       IN GivenAgain(n) \/ node[n].i_count >= Cardinality(open)

\* execv runs the file its path designates, although the memory of inodes is
\* given to others while it is still linked; and it reads through the zones
\* that the inode on the flash had to begin with, unless generic_drop_inode
\* has freed this very inode before.
ExecvExact == \A t \in Tasks : At(t, "close") =>
  LET i == Target(pc[t].path) IN
  \/ pc[t].got = <<i, OWN>>
  \/ pc[t].got = <<i, STALE>> /\ drops[i] > 0

\* Where the code leaves the defined.  From the path alone: namei calls a
\* lookup that does not exist only for a path that uses a file as a directory,
\* sys_execv indexes with the error of namei only for a path that designates
\* nothing, and execv finds no read function only for a path of a directory.
\* From freed inodes: get_inode walks in circles only if the memory of a
\* dropped inode has gone to another one, the flash is written through a
\* pointer and execv reads a file over an inode only if one was dropped, and
\* the page of all inodes is given back only after more drops, of one or two
\* inodes, than the page had objects in use at the start.
FaultsExact ==
  /\ \A t \in Tasks :
       LET p == pc[t].path IN
       /\ At(t, "null_lookup") =>
            \E k \in 1..(Len(p) - 1) : Target(SubSeq(p, 1, k)) \in Regs
       /\ At(t, "wild") /\ pc[t].fd = -3 =>
            /\ Target(p) = NULL
            /\ \A k \in 1..(Len(p) - 1) : Target(SubSeq(p, 1, k)) \notin Regs
       /\ At(t, "null_call") /\ p # << >> => Target(p) \in Dirs
       /\ At(t, "loop") => \E i \in Inos : drops[i] > 0 /\ \A n \in Nodes : node[n].i_ino # i
       /\ At(t, "stray") \/ At(t, "trampled") => \E i \in Inos : drops[i] > 0
  /\ refcnt = 0 => \E i, j \in Inos :
       i # j /\ drops[i] + drops[j] > Len(BootInodes) + Others

\* An inode on the flash keeps its zones until it is dropped a second time,
\* and is not written at all before it is dropped: put_inode writes it back
\* before kfree overwrites it.
FlashKept == \A i \in Inos :
  /\ raw[i].i_zone = OWN \/ drops[i] > 1
  /\ raw[i].i_nlinks = OWN \/ drops[i] > 0

=============================================================================
