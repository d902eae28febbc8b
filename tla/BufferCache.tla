----------------------------- MODULE BufferCache -----------------------------
(***************************************************************************)
(* The block layer of NBOS (fs/fs.c): bread, get_blk, brelse over the      *)
(* flash, as minix_read, minix_write, minix_lookup, minix_iget and         *)
(* minix_write_inode use it.  It is preemptible everywhere and has no      *)
(* reference counts.                                                       *)
(*                                                                         *)
(* Buffers of file data are released after each use, those of directories, *)
(* bitmaps, the super block and indirect blocks never, and those of the    *)
(* inode table are obtained by bread, so that there may be several.        *)
(***************************************************************************)
EXTENDS Integers, Sequences, FiniteSets

CONSTANTS
  Tasks,
  Bufs,        \* bound: the struct buffer_heads kmalloc can return
  Data,        \* blocks of regular files
  Meta,        \* blocks that are looked up and never released
  ITable,      \* blocks of inodes
  Slots, Vals, \* the parts of a block that are accessed, and their contents
  Overlap,     \* may a task enter the file system while another is inside?
  NULL

Blocks == Data \cup Meta \cup ITable

ASSUME BufferAssumption ==
  /\ Data \cap Meta = {} /\ Data \cap ITable = {} /\ Meta \cap ITable = {}
  /\ Overlap \in BOOLEAN
  /\ NULL \notin Bufs \cup Vals \cup Blocks \cup Slots \cup [Slots -> Vals]
  /\ Bufs \cap {"head", "lost"} = {}

VARIABLES
  disk,   \* the flash
  lru,    \* the list at bh_head, first node first
  alloc,  \* the buffer_heads kmalloc has handed out
  bh,     \* their contents; data is NULL once it is freed
  pc,     \* where each task stands, with its local variables
  done    \* the last access: <<kind, block, slot, value>>

vars == <<disk, lru, alloc, bh, pc, done>>

Ops == {"read", "write", "lookup", "iget", "write_inode"}
idle == [at |-> "idle", op |-> NULL, blk |-> NULL, slot |-> NULL,
         val |-> NULL, bh |-> NULL]
unused == [blk |-> NULL, b_state |-> "Uptodate", data |-> NULL]
OnList == {lru[i] : i \in 1..Len(lru)}

\* pos->next: the head ends the walk, list_del leaves a null pointer.
First == IF lru = << >> THEN "head" ELSE lru[1]
PositionOf(b) == CHOOSE i \in 1..Len(lru) : lru[i] = b
NextOf(b) ==
  IF b \notin OnList THEN "lost"
  ELSE IF PositionOf(b) = Len(lru) THEN "head" ELSE lru[PositionOf(b) + 1]

Init ==
  /\ disk \in [Blocks -> [Slots -> Vals]]
  /\ lru = << >>
  /\ alloc = {}
  /\ bh = [b \in Bufs |-> unused]
  /\ pc = [t \in Tasks |-> idle]
  /\ done = NULL

At(t, at) == pc[t].at = at
GoTo(t, at) == pc' = [pc EXCEPT ![t].at = at]

\* A call of the file system reaches the block layer: get_blk, or bread.
Begin(t, op, blk, slot, val) ==
  /\ At(t, "idle")
  /\ Overlap \/ \A u \in Tasks : At(u, "idle")
  /\ Cardinality(alloc) < Cardinality(Bufs)
  /\ blk \in CASE op \in {"read", "write"} -> Data
               [] op = "lookup" -> Meta
               [] OTHER -> ITable
  /\ val = NULL <=> op \notin {"write", "write_inode"}
  /\ pc' = [pc EXCEPT ![t] =
       [at |-> IF blk \in ITable THEN "bread" ELSE "walk", op |-> op,
        blk |-> blk, slot |-> slot, val |-> val,
        bh |-> IF blk \in ITable THEN NULL ELSE First]]
  /\ UNCHANGED <<disk, lru, alloc, bh, done>>

\* Where a task goes once it has its buffer.
Use(t) == IF pc[t].val = NULL THEN "copy" ELSE "store"

\* One round of list_for_each in get_blk.
get_blk(t) ==
  /\ At(t, "walk")
  /\ pc[t].bh # "lost"
  /\ IF pc[t].bh = "head" THEN GoTo(t, "bread")
     ELSE IF bh[pc[t].bh].blk = pc[t].blk THEN GoTo(t, Use(t))
     ELSE pc' = [pc EXCEPT ![t].bh = NextOf(@)]
  /\ UNCHANGED <<disk, lru, alloc, bh, done>>

\* kmalloc of the two pieces, pflash_read, and the fields.
bread(t) ==
  /\ At(t, "bread")
  /\ \E b \in Bufs \ alloc :
       /\ alloc' = alloc \cup {b}
       /\ bh' = [bh EXCEPT ![b] = [blk |-> pc[t].blk, b_state |-> "Uptodate",
                                   data |-> disk[pc[t].blk]]]
       /\ pc' = [pc EXCEPT ![t].bh = b, ![t].at = "list_add"]
  /\ UNCHANGED <<disk, lru, done>>

list_add(t) ==
  /\ At(t, "list_add")
  /\ lru' = <<pc[t].bh>> \o lru
  /\ GoTo(t, Use(t))
  /\ UNCHANGED <<disk, alloc, bh, done>>

\* Error: the reader returns without brelse.
AfterCopyKept(t) == "idle"

\* Only minix_read gives back a buffer it has read.
AfterCopy(t) == IF pc[t].op = "read" THEN "sync" ELSE "idle"

\* The bytes are copied out of the block; freed memory holds anything.
Copy(t) ==
  /\ At(t, "copy")
  /\ \E v \in IF bh[pc[t].bh].data = NULL THEN Vals
              ELSE {bh[pc[t].bh].data[pc[t].slot]} :
       done' = <<"read", pc[t].blk, pc[t].slot, v>>
  /\ pc' = [pc EXCEPT ![t] = IF AfterCopy(t) = "idle" THEN idle
                             ELSE [@ EXCEPT !.at = AfterCopy(t)]]
  /\ UNCHANGED <<disk, lru, alloc, bh>>

\* Error: the buffer is not marked.
StoredUnmarked(x, s, v) == [x EXCEPT !.data[s] = v]

\* The bytes are copied into the block and the buffer is marked dirty.
Stored(x, s, v) == [x EXCEPT !.data[s] = v, !.b_state = "Dirty"]

Store(t) ==
  /\ At(t, "store")
  /\ bh[pc[t].bh].data # NULL
  /\ bh' = [bh EXCEPT ![pc[t].bh] = Stored(@, pc[t].slot, pc[t].val)]
  /\ done' = <<"written", pc[t].blk, pc[t].slot, pc[t].val>>
  /\ GoTo(t, "sync")
  /\ UNCHANGED <<disk, lru, alloc>>

\* brelse: the block is written back if it is dirty,
Sync(t) ==
  /\ At(t, "sync")
  /\ LET x == bh[pc[t].bh] IN
       disk' = IF x.b_state = "Dirty" /\ x.data # NULL
               THEN [disk EXCEPT ![x.blk] = x.data] ELSE disk
  /\ GoTo(t, "free_data")
  /\ UNCHANGED <<lru, alloc, bh, done>>

\* its memory is freed,
FreeData(t) ==
  /\ At(t, "free_data")
  /\ bh' = [bh EXCEPT ![pc[t].bh].data = NULL]
  /\ GoTo(t, "list_del")
  /\ UNCHANGED <<disk, lru, alloc, done>>

\* Error: the node stays on the list.
UnlinkedNot(b) == lru

Unlinked(b) ==
  LET i == PositionOf(b) IN
  IF b \notin OnList THEN lru
  ELSE SubSeq(lru, 1, i - 1) \o SubSeq(lru, i + 1, Len(lru))

\* the node leaves the list,
list_del(t) ==
  /\ At(t, "list_del")
  /\ lru' = Unlinked(pc[t].bh)
  /\ GoTo(t, "free_bh")
  /\ UNCHANGED <<disk, alloc, bh, done>>

\* and the buffer_head is freed.  Nothing may rely on what it held.
FreeBh(t) ==
  /\ At(t, "free_bh")
  /\ alloc' = alloc \ {pc[t].bh}
  /\ bh' = [bh EXCEPT ![pc[t].bh] = unused]
  /\ pc' = [pc EXCEPT ![t] = idle]
  /\ UNCHANGED <<disk, lru, done>>

Kernel(t) ==
  \/ get_blk(t) \/ bread(t) \/ list_add(t) \/ Copy(t) \/ Store(t)
  \/ Sync(t) \/ FreeData(t) \/ list_del(t) \/ FreeBh(t)

Next == \E t \in Tasks :
  \/ \E op \in Ops, blk \in Blocks, slot \in Slots, val \in Vals \cup {NULL} :
       Begin(t, op, blk, slot, val)
  \/ Kernel(t)

Spec == Init /\ [][Next]_vars

(***************************************************************************)
(* Properties.                                                             *)
(***************************************************************************)
Places == {"idle", "walk", "bread", "list_add", "copy", "store", "sync",
           "free_data", "list_del", "free_bh"}

\* The list and the locals of the calls hold buffers, blocks and places of the
\* code of get_blk, bread and brelse.
TypeOK ==
  /\ disk \in [Blocks -> [Slots -> Vals]]
  /\ lru \in Seq(Bufs)
  /\ alloc \subseteq Bufs
  /\ bh \in [Bufs -> [blk : Blocks \cup {NULL}, b_state : {"Uptodate", "Dirty"},
                      data : [Slots -> Vals] \cup {NULL}]]
  /\ pc \in [Tasks ->
       [at : Places, op : Ops \cup {NULL}, blk : Blocks \cup {NULL},
        slot : Slots \cup {NULL}, val : Vals \cup {NULL},
        bh : Bufs \cup {NULL, "head", "lost"}]]
  /\ done \in ({"read", "written"} \X Blocks \X Slots \X Vals) \cup {NULL}

\* A buffer that a task stands on is real: the walk of get_blk is on the list,
\* and a buffer in use is allocated, on the list and holds the wanted block
\* until its own user frees it.
PointersLive == \A t \in Tasks :
  LET b == pc[t].bh IN
  /\ At(t, "walk") => b = "head" \/ b \in OnList
  /\ pc[t].at \in {"copy", "store", "sync", "free_data"} =>
       b \in OnList \cap alloc /\ bh[b].blk = pc[t].blk /\ bh[b].data # NULL
  /\ At(t, "list_del") => b \in OnList \cap alloc
  /\ At(t, "free_bh") => b \in alloc \ OnList

\* Nothing piles up: with no call in progress the list holds every buffer in
\* memory, none of file data, and one at most of each looked-up block.
Released ==
  /\ TypeOK
  /\ (\A t \in Tasks : At(t, "idle")) =>
       /\ alloc = OnList
       /\ \A b \in OnList : bh[b].blk \notin Data
       /\ \A b, c \in OnList : bh[b].blk = bh[c].blk /\ bh[b].blk \in Meta => b = c

\* The contents of a block: what a task has stored but not yet synced counts.
Pending(k) == {b \in alloc : bh[b].blk = k /\ bh[b].b_state = "Dirty" /\ bh[b].data # NULL}
Contents == [k \in Blocks |->
  IF Pending(k) = {} THEN disk[k] ELSE bh[CHOOSE b \in Pending(k) : TRUE].data]

B == INSTANCE BlockStore WITH store <- Contents

\* Every access through get_blk and bread is an access to a plain store of
\* blocks: reads return what was written last, whatever copies exist.
ImplementsBlockStore == B!StoreSpec

=============================================================================
