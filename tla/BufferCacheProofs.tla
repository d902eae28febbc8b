-------------------------- MODULE BufferCacheProofs --------------------------
(***************************************************************************)
(* Proofs about BufferCache, for any number of tasks, buffers and blocks,  *)
(* as long as one task at a time is inside the file system.                *)
(***************************************************************************)
EXTENDS BufferCache, SequenceTheorems, TLAPS

(***************************************************************************)
(* The inductive invariant.                                                *)
(***************************************************************************)
Using == {"list_add", "copy", "store", "sync", "free_data", "list_del", "free_bh"}

\* One task at most is inside the block layer.
Solo == \A t, u \in Tasks : ~At(t, "idle") /\ ~At(u, "idle") => t = u

\* What a call was made for: the kind of block fits the operation, and there
\* is a value exactly for the operations that store one.
CallShape == \A t \in Tasks : ~At(t, "idle") =>
  LET l == pc[t] IN
  /\ l.op \in Ops /\ l.blk \in Blocks /\ l.slot \in Slots
  /\ l.op \in {"read", "write"} => l.blk \in Data
  /\ l.op = "lookup" => l.blk \in Meta
  /\ l.op \in {"iget", "write_inode"} => l.blk \in ITable
  /\ l.val = NULL <=> l.op \notin {"write", "write_inode"}
  /\ l.at = "copy" => l.val = NULL
  /\ l.at = "store" => l.val # NULL
  /\ l.at \in {"sync", "free_data", "list_del", "free_bh"} =>
       l.op \in {"read", "write", "write_inode"}

\* A buffer is on the list once.
ListOnce == \A i, j \in 1..Len(lru) : lru[i] = lru[j] => i = j

\* Everything the walk of get_blk has passed holds another block.
Passed == \A t \in Tasks :
  LET l == pc[t] IN
  /\ l.at = "walk" =>
       /\ l.blk \notin ITable
       /\ \/ l.bh = "head" /\ \A b \in OnList : bh[b].blk # l.blk
          \/ \E k \in 1..Len(lru) :
               l.bh = lru[k] /\ \A j \in 1..(k - 1) : bh[lru[j]].blk # l.blk
  /\ l.at = "bread" /\ l.blk \notin ITable => \A b \in OnList : bh[b].blk # l.blk

\* The buffer a task has in hand.
InHand == \A t \in Tasks :
  LET l == pc[t]  x == bh[l.bh] IN
  l.at \in Using =>
    /\ l.bh \in alloc /\ x.blk = l.blk
    /\ l.bh \in OnList <=> l.at \notin {"list_add", "free_bh"}
    /\ l.at \in {"list_add", "copy", "store"} =>
         x.b_state = "Uptodate" /\ x.data = disk[l.blk]
    /\ l.at = "sync" => x.data # NULL /\ (x.b_state = "Uptodate" => x.data = disk[l.blk])
    /\ l.at = "free_data" => x.data = disk[l.blk]
    /\ l.at \in {"list_del", "free_bh"} => x.data = NULL

\* The buffers nobody has in hand: on the list, clean, of no file, and the
\* copy of a looked-up block is what the flash has.
AtRest == \A b \in alloc : (\A t \in Tasks : pc[t].at \in Using => pc[t].bh # b) =>
  /\ b \in OnList
  /\ bh[b].blk \in Meta \cup ITable
  /\ bh[b].b_state = "Uptodate" /\ bh[b].data # NULL
  /\ bh[b].blk \in Meta => bh[b].data = disk[bh[b].blk]

\* A block that is looked up is in memory once.
OneCopy == \A b, c \in alloc : bh[b].blk = bh[c].blk /\ bh[b].blk \notin ITable => b = c

IInv ==
  /\ TypeOK /\ Solo /\ CallShape /\ ListOnce /\ OnList \subseteq alloc
  /\ Passed /\ InHand /\ AtRest /\ OneCopy

(***************************************************************************)
(* The locals of a task.                                                   *)
(***************************************************************************)
Locals == [at : Places, op : Ops \cup {NULL}, blk : Blocks \cup {NULL},
           slot : Slots \cup {NULL}, val : Vals \cup {NULL},
           bh : Bufs \cup {NULL, "head", "lost"}]
Heads == [blk : Blocks \cup {NULL}, b_state : {"Uptodate", "Dirty"},
          data : [Slots -> Vals] \cup {NULL}]

\* A record of locals with another place or another buffer.
LEMMA LocalsExcept ==
  ASSUME NEW l \in Locals, NEW at \in Places, NEW b \in Bufs \cup {"head"}
  PROVE  [l EXCEPT !.at = at] \in Locals /\ [l EXCEPT !.bh = b] \in Locals
         /\ [l EXCEPT !.bh = b, !.at = at] \in Locals
<1>1. l = [at |-> l.at, op |-> l.op, blk |-> l.blk, slot |-> l.slot, val |-> l.val, bh |-> l.bh]
      /\ l.at \in Places /\ l.op \in Ops \cup {NULL} /\ l.blk \in Blocks \cup {NULL}
      /\ l.slot \in Slots \cup {NULL} /\ l.val \in Vals \cup {NULL}
      /\ l.bh \in Bufs \cup {NULL, "head", "lost"}
  BY DEF Locals
<1>2. [l EXCEPT !.at = at] = [at |-> at, op |-> l.op, blk |-> l.blk, slot |-> l.slot,
                              val |-> l.val, bh |-> l.bh]
  BY <1>1
<1>3. [l EXCEPT !.bh = b] = [at |-> l.at, op |-> l.op, blk |-> l.blk, slot |-> l.slot,
                             val |-> l.val, bh |-> b]
  BY <1>1
<1>5. [l EXCEPT !.at = at] \in Locals
  BY <1>1, <1>2 DEF Locals
<1>6. [l EXCEPT !.bh = b] \in Locals
  BY <1>1, <1>3 DEF Locals
<1>7. [l EXCEPT !.bh = b, !.at = at] \in Locals
  <2> DEFINE m == [l EXCEPT !.bh = b]
  <2>1. [l EXCEPT !.bh = b, !.at = at] = [m EXCEPT !.at = at]
    OBVIOUS
  <2>2. m = [at |-> m.at, op |-> m.op, blk |-> m.blk, slot |-> m.slot, val |-> m.val, bh |-> m.bh]
        /\ m.at \in Places /\ m.op \in Ops \cup {NULL} /\ m.blk \in Blocks \cup {NULL}
        /\ m.slot \in Slots \cup {NULL} /\ m.val \in Vals \cup {NULL}
        /\ m.bh \in Bufs \cup {NULL, "head", "lost"}
    BY <1>1, <1>3
  <2> HIDE DEF m
  <2>3. [m EXCEPT !.at = at] = [at |-> at, op |-> m.op, blk |-> m.blk, slot |-> m.slot,
                                val |-> m.val, bh |-> m.bh]
    BY <2>2
  <2> QED BY <2>1, <2>2, <2>3 DEF Locals
<1> QED BY <1>5, <1>6, <1>7

\* The effect of GoTo.
LEMMA MoveEffect ==
  ASSUME TypeOK, NEW t \in Tasks, NEW at \in Places, pc' = [pc EXCEPT ![t].at = at]
  PROVE  /\ pc' \in [Tasks -> Locals]
         /\ pc'[t].at = at /\ pc'[t].bh = pc[t].bh /\ pc'[t].blk = pc[t].blk
         /\ pc'[t].op = pc[t].op /\ pc'[t].val = pc[t].val /\ pc'[t].slot = pc[t].slot
         /\ \A u \in Tasks \ {t} : pc'[u] = pc[u]
<1>1. pc \in [Tasks -> Locals]
  BY DEF TypeOK, Locals
<1>2. [pc[t] EXCEPT !.at = at] \in Locals
  BY <1>1, LocalsExcept
<1>3. pc' \in [Tasks -> Locals]
  BY <1>1, <1>2
<1>4. pc[t] \in Locals
  BY <1>1
<1> QED BY <1>1, <1>3, <1>4 DEF Locals

\* TypeOK by the names of its record sets.
LEMMA TypeByName ==
  ASSUME disk' \in [Blocks -> [Slots -> Vals]], lru' \in Seq(Bufs), alloc' \subseteq Bufs,
         bh' \in [Bufs -> Heads], pc' \in [Tasks -> Locals],
         done' \in ({"read", "written"} \X Blocks \X Slots \X Vals) \cup {NULL}
  PROVE  TypeOK'
BY DEF TypeOK, Heads, Locals

(***************************************************************************)
(* The list.                                                               *)
(***************************************************************************)
\* list_add: the new node is the first one, the others move up.
LEMMA PrependProps ==
  ASSUME NEW s \in Seq(Bufs), NEW b \in Bufs
  PROVE  /\ <<b>> \o s \in Seq(Bufs)
         /\ Len(<<b>> \o s) = Len(s) + 1
         /\ (<<b>> \o s)[1] = b
         /\ \A i \in 1..Len(s) : (<<b>> \o s)[i + 1] = s[i]
         /\ \A i \in 2..(Len(s) + 1) : (<<b>> \o s)[i] = s[i - 1]
<1>1. <<b>> \in Seq(Bufs) /\ Len(<<b>>) = 1 /\ <<b>>[1] = b
  OBVIOUS
<1> DEFINE r == <<b>> \o s
<1>2. /\ r \in Seq(Bufs) /\ Len(r) = 1 + Len(s)
      /\ \A i \in 1..(1 + Len(s)) : r[i] = IF i <= 1 THEN <<b>>[i] ELSE s[i - 1]
  BY <1>1, ConcatProperties
<1>3. Len(s) \in Nat
  OBVIOUS
<1> HIDE DEF r
<1>4. r[1] = b
  BY <1>1, <1>2, <1>3
<1>5. \A i \in 1..Len(s) : r[i + 1] = s[i]
  BY <1>2, <1>3
<1>6. \A i \in 2..(Len(s) + 1) : r[i] = s[i - 1]
  BY <1>2, <1>3
<1> QED BY <1>2, <1>3, <1>4, <1>5, <1>6 DEF r

\* The effect of list_add on a list without the node.
LEMMA AddEffect ==
  ASSUME TypeOK, ListOnce, NEW b \in Bufs \ OnList, lru' = <<b>> \o lru
  PROVE  lru' \in Seq(Bufs) /\ ListOnce' /\ OnList' = OnList \cup {b}
<1>1. /\ lru' \in Seq(Bufs)
      /\ Len(lru') = Len(lru) + 1
      /\ lru'[1] = b
      /\ \A i \in 1..Len(lru) : lru'[i + 1] = lru[i]
      /\ \A i \in 2..(Len(lru) + 1) : lru'[i] = lru[i - 1]
  BY PrependProps DEF TypeOK
<1>2. Len(lru) \in Nat
  BY DEF TypeOK
<1>3. ListOnce'
  BY <1>1, <1>2 DEF ListOnce, OnList
<1>4. OnList' \subseteq OnList \cup {b}
  BY <1>1, <1>2 DEF OnList
<1>5. OnList \subseteq OnList'
  <2> SUFFICES ASSUME NEW i \in 1..Len(lru) PROVE lru[i] \in OnList'
    BY DEF OnList
  <2>1. i + 1 \in 1..Len(lru') /\ lru'[i + 1] = lru[i]
    BY <1>1, <1>2
  <2> QED BY <2>1 DEF OnList
<1>6. b \in OnList'
  BY <1>1, <1>2 DEF OnList
<1> QED BY <1>1, <1>3, <1>4, <1>5, <1>6

\* The effect of list_del on a list that has the node once.
LEMMA DelEffect ==
  ASSUME TypeOK, ListOnce, NEW b \in OnList, lru' = Unlinked(b)
  PROVE  lru' \in Seq(Bufs) /\ ListOnce' /\ OnList' = OnList \ {b}
<1> DEFINE i == PositionOf(b)
           n == Len(lru)
           p == SubSeq(lru, 1, i - 1)
           q == SubSeq(lru, i + 1, n)
<1>1. n \in Nat /\ \A j \in 1..n : lru[j] \in Bufs
  BY DEF TypeOK
<1>2. i \in 1..n /\ lru[i] = b
  BY DEF OnList, PositionOf
<1>3. lru' = p \o q
  BY DEF Unlinked
<1> HIDE DEF i, n
<1>4. /\ p \in Seq(Bufs) /\ Len(p) = i - 1
      /\ \A j \in 1..(i - 1) : p[j] = lru[j]
  <2>1. \A j \in 1..(i - 1) : lru[j] \in Bufs
    BY <1>1, <1>2
  <2> QED BY <1>1, <1>2, <2>1, SubSeqProperties
<1>5. /\ q \in Seq(Bufs) /\ Len(q) = n - i
      /\ \A j \in 1..(n - i) : q[j] = lru[i + j]
  <2>1. \A j \in (i + 1)..n : lru[j] \in Bufs
    BY <1>1, <1>2
  <2>2. /\ q \in Seq(Bufs) /\ Len(q) = IF i + 1 <= n THEN n - (i + 1) + 1 ELSE 0
        /\ \A j \in 1..(n - (i + 1) + 1) : q[j] = lru[(i + 1) + j - 1]
    BY <1>1, <1>2, <2>1, SubSeqProperties
  <2> HIDE DEF q
  <2> QED BY <1>1, <1>2, <2>2
<1> HIDE DEF p, q
<1>6. /\ lru' \in Seq(Bufs) /\ Len(lru') = n - 1
      /\ \A j \in 1..(n - 1) : lru'[j] = IF j < i THEN lru[j] ELSE lru[j + 1]
  <2>1. /\ p \o q \in Seq(Bufs) /\ Len(p \o q) = Len(p) + Len(q)
        /\ \A j \in 1..(Len(p) + Len(q)) :
             (p \o q)[j] = IF j <= Len(p) THEN p[j] ELSE q[j - Len(p)]
    BY <1>4, <1>5, ConcatProperties
  <2>2. lru' \in Seq(Bufs) /\ Len(lru') = n - 1
    BY <1>1, <1>2, <1>3, <1>4, <1>5, <2>1
  <2>3. ASSUME NEW j \in 1..(n - 1)
        PROVE  lru'[j] = IF j < i THEN lru[j] ELSE lru[j + 1]
    <3>1. lru'[j] = IF j <= Len(p) THEN p[j] ELSE q[j - Len(p)]
      <4>1. j \in 1..(Len(p) + Len(q))
        BY <1>1, <1>2, <1>4, <1>5
      <4> QED BY <1>3, <2>1, <4>1
    <3>2. CASE j < i
      BY <1>1, <1>2, <1>4, <3>1, <3>2
    <3>3. CASE j >= i
      <4>1. j - (i - 1) \in 1..(n - i) /\ i + (j - (i - 1)) = j + 1
        BY <1>1, <1>2, <3>3
      <4> QED BY <1>1, <1>2, <1>4, <1>5, <3>1, <3>3, <4>1
    <3> QED BY <1>1, <1>2, <3>2, <3>3
  <2> QED BY <2>2, <2>3
<1>7. ListOnce'
  <2> SUFFICES ASSUME NEW j \in 1..(n - 1), NEW k \in 1..(n - 1), lru'[j] = lru'[k]
               PROVE  j = k
    BY <1>6 DEF ListOnce
  <2> DEFINE jj == IF j < i THEN j ELSE j + 1
             kk == IF k < i THEN k ELSE k + 1
  <2>1. jj \in 1..n /\ kk \in 1..n /\ lru[jj] = lru[kk]
    BY <1>1, <1>2, <1>6
  <2>2. jj = kk
    BY <2>1 DEF ListOnce, n
  <2> QED BY <1>1, <1>2, <2>2
<1>8. OnList' \subseteq OnList \ {b}
  BY <1>1, <1>2, <1>6 DEF ListOnce, OnList, n
<1>9. OnList \ {b} \subseteq OnList'
  <2> SUFFICES ASSUME NEW j \in 1..n, lru[j] # b PROVE lru[j] \in OnList'
    BY DEF OnList, n
  <2>1. CASE j < i
    BY <1>1, <1>2, <1>6, <2>1 DEF OnList
  <2>2. CASE j > i
    <3>1. j - 1 \in 1..(n - 1) /\ lru'[j - 1] = lru[j]
      BY <1>1, <1>2, <1>6, <2>2
    <3> QED BY <1>6, <3>1 DEF OnList
  <2> QED BY <1>1, <1>2, <2>1, <2>2
<1> QED BY <1>6, <1>7, <1>8, <1>9

(***************************************************************************)
(* Every step keeps the invariant.                                         *)
(***************************************************************************)
LEMMA BeginStep ==
  ASSUME ~Overlap, IInv, NEW t \in Tasks, NEW op \in Ops, NEW blk \in Blocks, NEW slot \in Slots,
         NEW val \in Vals \cup {NULL}, Begin(t, op, blk, slot, val)
  PROVE  IInv'
<1> USE DEF IInv, At
<1>1. TypeOK'
  BY BufferAssumption DEF Begin, First, TypeOK, Places, Ops, Blocks
<1>2. Solo'
  BY BufferAssumption DEF Begin, First, Solo, TypeOK, Blocks
<1>3. CallShape'
  BY BufferAssumption DEF Begin, First, CallShape, TypeOK, Ops, Solo, Blocks
<1>4. ListOnce'
  BY BufferAssumption DEF Begin, First, ListOnce, TypeOK, Blocks
<1>5. (OnList \subseteq alloc)'
  BY BufferAssumption DEF Begin, First, OnList, TypeOK, InHand, Using, Blocks
<1>6. Passed'
  BY BufferAssumption DEF Begin, First, Passed, TypeOK, OnList, Solo, Using, ListOnce,
     AtRest, Blocks
<1>7. InHand'
  BY BufferAssumption DEF Begin, First, InHand, TypeOK, OnList, Using, Solo, CallShape,
     OneCopy, Blocks
<1>8. AtRest'
  BY BufferAssumption DEF Begin, First, AtRest, InHand, TypeOK, OnList, Using, Solo,
     CallShape, OneCopy, Blocks
<1>9. OneCopy'
  BY BufferAssumption DEF Begin, First, OneCopy, TypeOK, Passed, Solo, AtRest, InHand,
     Using, OnList, Blocks
<1> QED BY <1>1, <1>2, <1>3, <1>4, <1>5, <1>6, <1>7, <1>8, <1>9

\* get_blk keeps the invariant.
LEMMA get_blkStep ==
  ASSUME ~Overlap, IInv, NEW t \in Tasks, get_blk(t)
  PROVE  IInv'
<1> DEFINE l == pc[t]
<1> USE DEF IInv, At
<1>1. /\ l.at = "walk" /\ l.bh # "lost" /\ pc \in [Tasks -> Locals]
      /\ UNCHANGED <<disk, lru, alloc, bh, done>>
      /\ \A u \in Tasks \ {t} : pc[u].at = "idle"
  BY DEF get_blk, TypeOK, Locals, Solo
<1>2. /\ l.op \in {"read", "write", "lookup"}
      /\ l.blk \in Data \cup Meta /\ l.slot \in Slots
  BY <1>1, BufferAssumption DEF CallShape, Passed, Ops, Blocks
<1>3. alloc = OnList /\ \A b \in alloc : \A u \in Tasks : pc[u].at \notin Using
  BY <1>1 DEF AtRest, Using
<1>4. CASE l.bh = "head"
  <2>1. pc' = [pc EXCEPT ![t].at = "bread"]
    BY <1>4 DEF get_blk, GoTo
  <2>2. TypeOK'
    <3>1. pc' \in [Tasks -> Locals]
      BY <2>1, MoveEffect DEF Places
    <3> QED BY <1>1, <3>1, TypeByName DEF TypeOK, Heads
  <2>3. Solo' /\ ListOnce' /\ (OnList \subseteq alloc)' /\ OneCopy'
    BY <1>1, <2>1 DEF Solo, ListOnce, OnList, OneCopy
  <2>4. CallShape'
    BY <1>1, <2>1 DEF CallShape
  <2>5. \A b \in OnList : bh[b].blk # l.blk
    BY <1>1, <1>4, BufferAssumption DEF Passed, TypeOK
  <2>6. Passed'
    BY <1>1, <2>1, <2>5 DEF Passed, OnList
  <2>7. InHand' /\ AtRest'
    BY <1>1, <2>1 DEF InHand, AtRest, OnList, Using
  <2> QED BY <2>2, <2>3, <2>4, <2>6, <2>7
<1>5. CASE l.bh # "head" /\ bh[l.bh].blk = l.blk
  <2>1. l.bh \in OnList
    BY <1>1, <1>5 DEF Passed, OnList
  <2>2. /\ bh[l.bh].blk \in Meta \cup ITable
        /\ bh[l.bh].b_state = "Uptodate"
        /\ bh[l.bh].blk \in Meta => bh[l.bh].data = disk[bh[l.bh].blk]
    BY <1>3, <2>1 DEF AtRest
  <2>3. l.op = "lookup" /\ l.blk \in Meta /\ l.val = NULL
    BY <1>1, <1>2, <1>5, <2>2, BufferAssumption DEF CallShape
  <2>4. pc' = [pc EXCEPT ![t].at = "copy"]
    BY <1>5, <2>3 DEF get_blk, GoTo, Use
  <2>5. TypeOK'
    <3>1. pc' \in [Tasks -> Locals]
      BY <2>4, MoveEffect DEF Places
    <3> QED BY <1>1, <3>1, TypeByName DEF TypeOK, Heads
  <2>6. Solo' /\ ListOnce' /\ (OnList \subseteq alloc)' /\ OneCopy'
    BY <1>1, <2>4 DEF Solo, ListOnce, OnList, OneCopy
  <2>7. CallShape'
    BY <1>1, <2>3, <2>4 DEF CallShape
  <2>8. Passed'
    BY <1>1, <2>4 DEF Passed, OnList
  <2>9. InHand'
    BY <1>1, <1>3, <1>5, <2>1, <2>2, <2>3, <2>4 DEF InHand, OnList, Using
  <2>10. AtRest'
    BY <1>1, <2>4 DEF AtRest, OnList, Using
  <2> QED BY <2>5, <2>6, <2>7, <2>8, <2>9, <2>10
<1>6. CASE l.bh # "head" /\ bh[l.bh].blk # l.blk
  <2>1. pc' = [pc EXCEPT ![t].bh = NextOf(l.bh)]
    BY <1>1, <1>6 DEF get_blk, GoTo
  <2>2. PICK k \in 1..Len(lru) :
          l.bh = lru[k] /\ \A j \in 1..(k - 1) : bh[lru[j]].blk # l.blk
    BY <1>1, <1>6 DEF Passed
  <2>3. PositionOf(l.bh) = k /\ l.bh \in OnList
    BY <2>2 DEF PositionOf, ListOnce, OnList
  <2>4. NextOf(l.bh) = IF k = Len(lru) THEN "head" ELSE lru[k + 1]
    BY <2>3 DEF NextOf
  <2>5. Len(lru) \in Nat /\ NextOf(l.bh) \in Bufs \cup {"head"}
    BY <2>2, <2>4 DEF TypeOK
  <2>6. TypeOK'
    <3>1. [pc[t] EXCEPT !.bh = NextOf(l.bh)] \in Locals
      <4>1. pc[t] \in Locals /\ NextOf(l.bh) \in Bufs \cup {"head"} /\ pc[t].at \in Places
        BY <1>1, <2>5 DEF Locals
      <4> QED BY <4>1, LocalsExcept
    <3>2. pc' \in [Tasks -> Locals]
      BY <1>1, <2>1, <3>1
    <3> QED BY <1>1, <3>2, TypeByName DEF TypeOK, Heads
  <2>7. Solo' /\ ListOnce' /\ (OnList \subseteq alloc)' /\ OneCopy'
    BY <1>1, <2>1 DEF Solo, ListOnce, OnList, OneCopy
  <2>8. CallShape'
    BY <1>1, <2>1 DEF CallShape
  <2>9. \A j \in 1..k : bh[lru[j]].blk # l.blk
    BY <1>6, <2>2, <2>5
  <2>10. pc'[t].at = "walk" /\ pc'[t].blk = l.blk /\ pc'[t].bh = NextOf(l.bh)
         /\ \A u \in Tasks \ {t} : pc'[u] = pc[u]
    BY <1>1, <2>1
  <2>11. \/ NextOf(l.bh) = "head" /\ \A b \in OnList : bh[b].blk # l.blk
         \/ \E n \in 1..Len(lru) :
              NextOf(l.bh) = lru[n] /\ \A j \in 1..(n - 1) : bh[lru[j]].blk # l.blk
    <3>1. CASE k = Len(lru)
      BY <2>4, <2>9, <3>1 DEF OnList
    <3>2. CASE k # Len(lru)
      <4>1. k + 1 \in 1..Len(lru) /\ \A j \in 1..((k + 1) - 1) : bh[lru[j]].blk # l.blk
        BY <2>5, <2>9, <3>2
      <4> QED BY <2>4, <3>2, <4>1
    <3> QED BY <3>1, <3>2
  <2>12. Passed'
    <3> SUFFICES ASSUME NEW u \in Tasks
                 PROVE  /\ pc'[u].at = "walk" =>
                             /\ pc'[u].blk \notin ITable
                             /\ \/ pc'[u].bh = "head" /\ \A b \in OnList : bh[b].blk # pc'[u].blk
                                \/ \E n \in 1..Len(lru) : pc'[u].bh = lru[n] /\
                                     \A j \in 1..(n - 1) : bh[lru[j]].blk # pc'[u].blk
                        /\ pc'[u].at = "bread" /\ pc'[u].blk \notin ITable =>
                             \A b \in OnList : bh[b].blk # pc'[u].blk
      BY <1>1 DEF Passed, OnList
    <3>1. CASE u = t
      BY <1>1, <1>2, <2>10, <2>11, <3>1, BufferAssumption
    <3>2. CASE u # t
      BY <1>1, <2>10, <3>2
    <3> QED BY <3>1, <3>2
  <2>13. InHand' /\ AtRest'
    BY <1>1, <2>10 DEF InHand, AtRest, OnList, Using
  <2> QED BY <2>6, <2>7, <2>8, <2>12, <2>13
<1> QED BY <1>4, <1>5, <1>6

\* bread keeps the invariant.
LEMMA breadStep ==
  ASSUME ~Overlap, IInv, NEW t \in Tasks, bread(t)
  PROVE  IInv'
<1> USE DEF IInv, At
<1>1. TypeOK'
  <2>1. pc[t].blk \in Blocks /\ disk[pc[t].blk] \in [Slots -> Vals]
    BY DEF bread, CallShape, TypeOK
  <2>2. PICK b \in Bufs \ alloc :
          /\ alloc' = alloc \cup {b}
          /\ bh' = [bh EXCEPT ![b] = [blk |-> pc[t].blk, b_state |-> "Uptodate",
                                      data |-> disk[pc[t].blk]]]
          /\ pc' = [pc EXCEPT ![t].bh = b, ![t].at = "list_add"]
          /\ UNCHANGED <<disk, lru, done>>
    BY DEF bread
  <2>3. pc \in [Tasks -> Locals] /\ pc[t] \in Locals
    BY DEF TypeOK, Locals
  <2>4. [pc[t] EXCEPT !.bh = b, !.at = "list_add"] \in Locals
    BY <2>3, LocalsExcept DEF Places
  <2>5. pc' \in [Tasks -> Locals]
    BY <2>2, <2>3, <2>4
  <2>6. bh' \in [Bufs -> Heads]
    BY <2>1, <2>2 DEF TypeOK, Heads
  <2> QED BY <2>2, <2>5, <2>6, TypeByName DEF TypeOK
<1>2. Solo'
  BY BufferAssumption DEF bread, Solo, TypeOK, Blocks
<1>3. CallShape'
  BY BufferAssumption DEF bread, CallShape, TypeOK, Ops, Solo, Blocks
<1>4. ListOnce'
  BY BufferAssumption DEF bread, ListOnce, TypeOK, Blocks
<1>5. (OnList \subseteq alloc)'
  BY BufferAssumption DEF bread, OnList, TypeOK, InHand, Using, Blocks
<1>6. Passed'
  BY BufferAssumption DEF bread, Passed, TypeOK, OnList, Solo, Using, ListOnce, AtRest,
     Blocks
<1>7. InHand'
  BY BufferAssumption DEF bread, InHand, TypeOK, OnList, Using, Solo, CallShape, OneCopy,
     Blocks
<1>8. AtRest'
  BY BufferAssumption DEF bread, AtRest, InHand, TypeOK, OnList, Using, Solo, CallShape,
     OneCopy, Blocks
<1>9. OneCopy'
  BY BufferAssumption DEF bread, OneCopy, TypeOK, Passed, Solo, AtRest, InHand, Using,
     OnList, Blocks
<1> QED BY <1>1, <1>2, <1>3, <1>4, <1>5, <1>6, <1>7, <1>8, <1>9

\* list_add keeps the invariant.
LEMMA list_addStep ==
  ASSUME ~Overlap, IInv, NEW t \in Tasks, list_add(t)
  PROVE  IInv'
<1> DEFINE l == pc[t]
<1> USE DEF IInv, At
<1>1. /\ l.at = "list_add" /\ pc' = [pc EXCEPT ![t].at = Use(t)]
      /\ lru' = <<l.bh>> \o lru
      /\ UNCHANGED <<disk, alloc, bh, done>>
      /\ \A u \in Tasks \ {t} : pc[u].at = "idle"
      /\ Use(t) = IF l.val = NULL THEN "copy" ELSE "store"
  BY DEF list_add, GoTo, Solo, Use
<1>2. l.bh \in alloc \ OnList /\ l.bh \in Bufs
  BY <1>1 DEF InHand, Using, TypeOK
<1>3. lru' \in Seq(Bufs) /\ ListOnce' /\ OnList' = OnList \cup {l.bh}
  BY <1>1, <1>2, AddEffect
<1>4. /\ pc'[t].at = Use(t) /\ pc'[t].bh = l.bh /\ pc'[t].blk = l.blk
      /\ pc'[t].op = l.op /\ pc'[t].val = l.val /\ pc'[t].slot = l.slot
      /\ \A u \in Tasks \ {t} : pc'[u] = pc[u]
      /\ pc' \in [Tasks -> Locals]
  BY <1>1, MoveEffect DEF Places
<1>5. TypeOK'
  BY <1>1, <1>3, <1>4, TypeByName DEF TypeOK, Heads
<1>6. Solo' /\ (OnList \subseteq alloc)' /\ OneCopy' /\ CallShape'
  BY <1>1, <1>2, <1>3, <1>4 DEF Solo, OneCopy, CallShape
<1>7. Passed'
  BY <1>1, <1>4 DEF Passed
<1>8. InHand'
  BY <1>1, <1>2, <1>3, <1>4 DEF InHand, Using
<1>9. AtRest'
  BY <1>1, <1>2, <1>3, <1>4 DEF AtRest, Using
<1> QED BY <1>3, <1>5, <1>6, <1>7, <1>8, <1>9

\* Copy keeps the invariant.
LEMMA CopyStep ==
  ASSUME ~Overlap, IInv, NEW t \in Tasks, Copy(t)
  PROVE  IInv'
<1> DEFINE l == pc[t]
<1> USE DEF IInv, At
<1>1. /\ l.at = "copy" /\ UNCHANGED <<disk, lru, alloc, bh>>
      /\ \A u \in Tasks \ {t} : pc[u].at = "idle"
  BY DEF Copy, Solo
<1>2. /\ l.slot \in Slots /\ l.blk \in Blocks /\ l.val = NULL
      /\ l.op \in {"read", "lookup", "iget"}
      /\ l.op = "lookup" => l.blk \in Meta
      /\ l.op = "iget" => l.blk \in ITable
  BY <1>1 DEF CallShape, Ops
<1>3. /\ l.bh \in alloc /\ l.bh \in OnList /\ bh[l.bh].blk = l.blk
      /\ bh[l.bh].b_state = "Uptodate" /\ bh[l.bh].data = disk[l.blk]
  BY <1>1 DEF InHand, Using
<1>4. disk[l.blk] \in [Slots -> Vals] /\ bh[l.bh].data # NULL
  BY <1>2, <1>3, BufferAssumption DEF TypeOK
<1>5. done' = <<"read", l.blk, l.slot, disk[l.blk][l.slot]>>
  BY <1>3, <1>4 DEF Copy
<1>6. pc' = [pc EXCEPT ![t] = IF l.op = "read" THEN [l EXCEPT !.at = "sync"] ELSE idle]
  BY DEF Copy, AfterCopy
<1>7. TypeOK'
  <2>1. done' \in ({"read", "written"} \X Blocks \X Slots \X Vals) \cup {NULL}
    BY <1>2, <1>4, <1>5
  <2>2. pc' \in [Tasks -> Locals]
    <3>1. pc \in [Tasks -> Locals] /\ pc[t] \in Locals
      BY DEF TypeOK, Locals
    <3>2. [l EXCEPT !.at = "sync"] \in Locals
      BY <3>1, LocalsExcept DEF Places
    <3>3. idle \in Locals
      BY DEF idle, Locals, Places
    <3> QED BY <1>6, <3>1, <3>2, <3>3
  <2> QED BY <1>1, <2>1, <2>2, TypeByName DEF TypeOK, Heads
<1>8. /\ l.op = "read" => /\ pc'[t].at = "sync" /\ pc'[t].bh = l.bh /\ pc'[t].blk = l.blk
                          /\ pc'[t].op = l.op /\ pc'[t].val = l.val /\ pc'[t].slot = l.slot
      /\ l.op # "read" => pc'[t].at = "idle"
      /\ \A u \in Tasks \ {t} : pc'[u] = pc[u]
  BY <1>6 DEF TypeOK, idle
<1>9. Solo' /\ ListOnce' /\ (OnList \subseteq alloc)' /\ OneCopy' /\ Passed'
  BY <1>1, <1>8 DEF Solo, OneCopy, ListOnce, OnList, Passed
<1>10. CallShape'
  BY <1>1, <1>8 DEF CallShape
<1>11. InHand'
  BY <1>1, <1>3, <1>4, <1>8 DEF InHand, Using, OnList
<1>12. AtRest'
  <2> SUFFICES ASSUME NEW b \in alloc, \A u \in Tasks : pc'[u].at \in Using => pc'[u].bh # b
               PROVE  /\ b \in OnList
                      /\ bh[b].blk \in Meta \cup ITable
                      /\ bh[b].b_state = "Uptodate" /\ bh[b].data # NULL
                      /\ bh[b].blk \in Meta => bh[b].data = disk[bh[b].blk]
    BY <1>1 DEF AtRest, OnList
  <2>1. CASE b = l.bh
    BY <1>1, <1>2, <1>3, <1>4, <1>8, <2>1 DEF Using
  <2>2. CASE b # l.bh
    BY <1>1, <2>2 DEF AtRest, Using
  <2> QED BY <2>1, <2>2
<1> QED BY <1>7, <1>9, <1>10, <1>11, <1>12

\* Store keeps the invariant.
LEMMA StoreStep ==
  ASSUME ~Overlap, IInv, NEW t \in Tasks, Store(t)
  PROVE  IInv'
<1> USE DEF IInv, At
<1>1. TypeOK'
  <2> DEFINE l == pc[t]
  <2>1. /\ l.slot \in Slots /\ l.blk \in Blocks /\ l.val \in Vals /\ l.bh \in Bufs
        /\ bh[l.bh].data \in [Slots -> Vals]
    BY DEF Store, CallShape, InHand, Using, TypeOK
  <2>2. Stored(bh[l.bh], l.slot, l.val) \in
          Heads
    <3>1. bh[l.bh] \in Heads
      BY <2>1 DEF TypeOK, Heads
    <3>2. [bh[l.bh].data EXCEPT ![l.slot] = l.val] \in [Slots -> Vals]
      BY <2>1
    <3>3. Stored(bh[l.bh], l.slot, l.val) =
            [blk |-> bh[l.bh].blk, b_state |-> "Dirty",
             data |-> [bh[l.bh].data EXCEPT ![l.slot] = l.val]]
      <4> DEFINE x == bh[l.bh]
                 y == [x EXCEPT !.data[l.slot] = l.val]
      <4>1. Stored(x, l.slot, l.val) = [y EXCEPT !.b_state = "Dirty"]
        BY DEF Stored
      <4>2. x = [blk |-> x.blk, b_state |-> x.b_state, data |-> x.data]
        BY <3>1 DEF Heads
      <4>3. y = [blk |-> x.blk, b_state |-> x.b_state,
                 data |-> [x.data EXCEPT ![l.slot] = l.val]]
        BY <4>2
      <4> HIDE DEF y
      <4> QED BY <4>1, <4>3
    <3> QED BY <3>1, <3>2, <3>3 DEF Heads
  <2>3. bh' = [bh EXCEPT ![l.bh] = Stored(bh[l.bh], l.slot, l.val)]
        /\ UNCHANGED <<disk, lru, alloc>> /\ pc' = [pc EXCEPT ![t].at = "sync"]
        /\ done' = <<"written", l.blk, l.slot, l.val>>
    BY DEF Store, GoTo
  <2>4. bh' \in [Bufs -> Heads]
    BY <2>1, <2>2, <2>3 DEF TypeOK, Heads
  <2>5. done' \in ({"read", "written"} \X Blocks \X Slots \X Vals) \cup {NULL}
    BY <2>1, <2>3
  <2>6. pc' \in [Tasks -> Locals]
    BY <2>3, MoveEffect DEF Places
  <2> QED BY <2>3, <2>4, <2>5, <2>6, TypeByName DEF TypeOK
<1>2. Solo'
  BY BufferAssumption DEF Store, Stored, GoTo, Solo, TypeOK, Blocks
<1>3. CallShape'
  BY BufferAssumption DEF Store, Stored, GoTo, CallShape, TypeOK, Ops, Solo, Blocks
<1>4. ListOnce'
  BY BufferAssumption DEF Store, Stored, GoTo, ListOnce, TypeOK, Blocks
<1>5. (OnList \subseteq alloc)'
  BY BufferAssumption DEF Store, Stored, GoTo, OnList, TypeOK, InHand, Using, Blocks
<1>6. Passed'
  BY BufferAssumption DEF Store, Stored, GoTo, Passed, TypeOK, OnList, Solo, Using,
     ListOnce, AtRest, Blocks
<1>7. InHand'
  <2> DEFINE l == pc[t]
  <2>1. /\ l.at = "store" /\ bh[l.bh].data # NULL /\ l.bh \in alloc /\ l.bh \in Bufs
        /\ l.bh \in OnList /\ bh[l.bh].blk = l.blk /\ l.slot \in Slots
        /\ bh[l.bh].data \in [Slots -> Vals] /\ l.val \in Vals
        /\ UNCHANGED <<disk, lru, alloc>>
        /\ \A u \in Tasks \ {t} : pc[u].at = "idle"
    BY DEF Store, InHand, Using, TypeOK, CallShape, Solo
  <2>2. /\ bh'[l.bh].blk = l.blk /\ bh'[l.bh].b_state = "Dirty"
        /\ bh'[l.bh].data \in [Slots -> Vals]
    BY <2>1 DEF Store, Stored, TypeOK
  <2>3. /\ pc'[t].at = "sync" /\ pc'[t].bh = l.bh /\ pc'[t].blk = l.blk
        /\ \A u \in Tasks \ {t} : pc'[u] = pc[u]
    BY DEF Store, GoTo, TypeOK
  <2> QED BY <2>1, <2>2, <2>3, BufferAssumption DEF InHand, Using, OnList
<1>8. AtRest'
  BY BufferAssumption DEF Store, Stored, GoTo, AtRest, InHand, TypeOK, OnList, Using,
     Solo, CallShape, OneCopy, Blocks
<1>9. OneCopy'
  BY BufferAssumption DEF Store, Stored, GoTo, OneCopy, TypeOK, Passed, Solo, AtRest,
     InHand, Using, OnList, Blocks
<1> QED BY <1>1, <1>2, <1>3, <1>4, <1>5, <1>6, <1>7, <1>8, <1>9

\* Sync keeps the invariant.
LEMMA SyncStep ==
  ASSUME ~Overlap, IInv, NEW t \in Tasks, Sync(t)
  PROVE  IInv'
<1> USE DEF IInv, At
<1>1. TypeOK'
  <2>1. pc[t].bh \in Bufs /\ bh[pc[t].bh].blk \in Blocks
    BY DEF Sync, InHand, Using, TypeOK, CallShape
  <2>2. disk' \in [Blocks -> [Slots -> Vals]]
    BY <2>1 DEF Sync, TypeOK
  <2>3. pc' \in [Tasks -> Locals] /\ UNCHANGED <<lru, alloc, bh, done>>
    BY MoveEffect DEF Sync, GoTo, Places
  <2> QED BY <2>2, <2>3, TypeByName DEF TypeOK, Heads
<1>2. Solo'
  BY BufferAssumption DEF Sync, GoTo, Solo, TypeOK, Blocks
<1>3. CallShape'
  BY BufferAssumption DEF Sync, GoTo, CallShape, TypeOK, Ops, Solo, Blocks
<1>4. ListOnce'
  BY BufferAssumption DEF Sync, GoTo, ListOnce, TypeOK, Blocks
<1>5. (OnList \subseteq alloc)'
  BY BufferAssumption DEF Sync, GoTo, OnList, TypeOK, InHand, Using, Blocks
<1>6. Passed'
  BY BufferAssumption DEF Sync, GoTo, Passed, TypeOK, OnList, Solo, Using, ListOnce,
     AtRest, Blocks
<1>7. InHand'
  BY BufferAssumption DEF Sync, GoTo, InHand, TypeOK, OnList, Using, Solo, CallShape,
     OneCopy, Blocks
<1>8. AtRest'
  BY BufferAssumption DEF Sync, GoTo, AtRest, InHand, TypeOK, OnList, Using, Solo,
     CallShape, OneCopy, Blocks
<1>9. OneCopy'
  BY BufferAssumption DEF Sync, GoTo, OneCopy, TypeOK, Passed, Solo, AtRest, InHand,
     Using, OnList, Blocks
<1> QED BY <1>1, <1>2, <1>3, <1>4, <1>5, <1>6, <1>7, <1>8, <1>9

\* FreeData keeps the invariant.
LEMMA FreeDataStep ==
  ASSUME ~Overlap, IInv, NEW t \in Tasks, FreeData(t)
  PROVE  IInv'
<1> USE DEF IInv, At
<1>1. TypeOK'
  <2>1. pc[t].bh \in Bufs
    BY DEF FreeData, InHand, Using, TypeOK
  <2>2. pc' \in [Tasks -> Locals] /\ UNCHANGED <<disk, lru, alloc, done>>
    BY MoveEffect DEF FreeData, GoTo, Places
  <2>3. bh \in [Bufs -> Heads] /\ bh[pc[t].bh] \in Heads
    BY <2>1 DEF TypeOK, Heads
  <2>4. [bh[pc[t].bh] EXCEPT !.data = NULL] =
          [blk |-> bh[pc[t].bh].blk, b_state |-> bh[pc[t].bh].b_state, data |-> NULL]
    BY <2>3 DEF Heads
  <2>5. bh' \in [Bufs -> Heads]
    BY <2>3, <2>4 DEF FreeData, Heads
  <2> QED BY <2>2, <2>5, TypeByName DEF TypeOK
<1>2. Solo'
  BY BufferAssumption DEF FreeData, GoTo, Solo, TypeOK, Blocks
<1>3. CallShape'
  BY BufferAssumption DEF FreeData, GoTo, CallShape, TypeOK, Ops, Solo, Blocks
<1>4. ListOnce'
  BY BufferAssumption DEF FreeData, GoTo, ListOnce, TypeOK, Blocks
<1>5. (OnList \subseteq alloc)'
  BY BufferAssumption DEF FreeData, GoTo, OnList, TypeOK, InHand, Using, Blocks
<1>6. Passed'
  BY BufferAssumption DEF FreeData, GoTo, Passed, TypeOK, OnList, Solo, Using, ListOnce,
     AtRest, Blocks
<1>7. InHand'
  BY BufferAssumption DEF FreeData, GoTo, InHand, TypeOK, OnList, Using, Solo, CallShape,
     OneCopy, Blocks
<1>8. AtRest'
  BY BufferAssumption DEF FreeData, GoTo, AtRest, InHand, TypeOK, OnList, Using, Solo,
     CallShape, OneCopy, Blocks
<1>9. OneCopy'
  BY BufferAssumption DEF FreeData, GoTo, OneCopy, TypeOK, Passed, Solo, AtRest, InHand,
     Using, OnList, Blocks
<1> QED BY <1>1, <1>2, <1>3, <1>4, <1>5, <1>6, <1>7, <1>8, <1>9

\* list_del keeps the invariant.
LEMMA list_delStep ==
  ASSUME ~Overlap, IInv, NEW t \in Tasks, list_del(t)
  PROVE  IInv'
<1> DEFINE l == pc[t]
<1> USE DEF IInv, At
<1>1. /\ l.at = "list_del" /\ pc' = [pc EXCEPT ![t].at = "free_bh"]
      /\ lru' = Unlinked(l.bh)
      /\ UNCHANGED <<disk, alloc, bh, done>>
      /\ \A u \in Tasks \ {t} : pc[u].at = "idle"
  BY DEF list_del, GoTo, Solo
<1>2. l.bh \in alloc /\ l.bh \in OnList
  BY <1>1 DEF InHand, Using
<1>3. lru' \in Seq(Bufs) /\ ListOnce' /\ OnList' = OnList \ {l.bh}
  BY <1>1, <1>2, DelEffect
<1>4. /\ pc'[t].at = "free_bh" /\ pc'[t].bh = l.bh /\ pc'[t].blk = l.blk
      /\ pc'[t].op = l.op /\ pc'[t].val = l.val /\ pc'[t].slot = l.slot
      /\ \A u \in Tasks \ {t} : pc'[u] = pc[u]
      /\ pc' \in [Tasks -> Locals]
  BY <1>1, MoveEffect DEF Places
<1>5. TypeOK'
  BY <1>1, <1>3, <1>4, TypeByName DEF TypeOK, Heads
<1>6. Solo' /\ (OnList \subseteq alloc)' /\ OneCopy' /\ CallShape'
  BY <1>1, <1>2, <1>3, <1>4 DEF Solo, OneCopy, CallShape
<1>7. Passed'
  BY <1>1, <1>4 DEF Passed
<1>8. InHand'
  BY <1>1, <1>2, <1>3, <1>4 DEF InHand, Using
<1>9. AtRest'
  BY <1>1, <1>2, <1>3, <1>4 DEF AtRest, Using
<1> QED BY <1>3, <1>5, <1>6, <1>7, <1>8, <1>9

\* FreeBh keeps the invariant.
LEMMA FreeBhStep ==
  ASSUME ~Overlap, IInv, NEW t \in Tasks, FreeBh(t)
  PROVE  IInv'
<1> USE DEF IInv, At
<1>1. TypeOK'
  BY BufferAssumption DEF FreeBh, idle, unused, TypeOK, Places, Ops, Blocks
<1>2. Solo'
  BY BufferAssumption DEF FreeBh, idle, unused, Solo, TypeOK, Blocks
<1>3. CallShape'
  BY BufferAssumption DEF FreeBh, idle, unused, CallShape, TypeOK, Ops, Solo, Blocks
<1>4. ListOnce'
  BY BufferAssumption DEF FreeBh, idle, unused, ListOnce, TypeOK, Blocks
<1>5. (OnList \subseteq alloc)'
  BY BufferAssumption DEF FreeBh, idle, unused, OnList, TypeOK, InHand, Using, Blocks
<1>6. Passed'
  BY BufferAssumption DEF FreeBh, idle, unused, Passed, TypeOK, OnList, Solo, Using,
     ListOnce, AtRest, Blocks
<1>7. InHand'
  BY BufferAssumption DEF FreeBh, idle, unused, InHand, TypeOK, OnList, Using, Solo,
     CallShape, OneCopy, Blocks
<1>8. AtRest'
  BY BufferAssumption DEF FreeBh, idle, unused, AtRest, InHand, TypeOK, OnList, Using,
     Solo, CallShape, OneCopy, Blocks
<1>9. OneCopy'
  BY BufferAssumption DEF FreeBh, idle, unused, OneCopy, TypeOK, Passed, Solo, AtRest,
     InHand, Using, OnList, Blocks
<1> QED BY <1>1, <1>2, <1>3, <1>4, <1>5, <1>6, <1>7, <1>8, <1>9

\* The invariant at the start: an empty list.
LEMMA InitIInv == Init => IInv
<1> SUFFICES ASSUME Init PROVE IInv
  OBVIOUS
<1> USE DEF Init, At
<1>1. TypeOK
  <2>1. unused \in Heads
    BY DEF unused, Heads
  <2>2. idle \in Locals
    BY DEF idle, Locals, Places
  <2> QED BY <2>1, <2>2 DEF TypeOK, Heads, Locals
<1>2. Solo /\ CallShape
  BY DEF Solo, CallShape, idle
<1>3. ListOnce /\ OnList \subseteq alloc
  BY DEF ListOnce, OnList
<1>4. Passed /\ InHand
  BY DEF Passed, InHand, idle, Using
<1>5. AtRest /\ OneCopy
  BY DEF AtRest, OneCopy
<1> QED BY <1>1, <1>2, <1>3, <1>4, <1>5 DEF IInv

\* A step that changes nothing.
LEMMA StutterIInv == IInv /\ UNCHANGED vars => IInv'
BY DEF IInv, vars, TypeOK, Solo, CallShape, ListOnce, Passed, InHand, AtRest, OneCopy,
       OnList, At

\* Every step keeps the invariant.
LEMMA NextIInv ==
  ASSUME ~Overlap
  PROVE  IInv /\ [Next]_vars => IInv'
<1> SUFFICES ASSUME IInv, [Next]_vars PROVE IInv'
  OBVIOUS
<1>1. CASE UNCHANGED vars
  BY <1>1, StutterIInv
<1>2. ASSUME NEW t \in Tasks, NEW op \in Ops, NEW blk \in Blocks, NEW slot \in Slots,
             NEW val \in Vals \cup {NULL}, Begin(t, op, blk, slot, val)
      PROVE  IInv'
  BY <1>2, BeginStep
<1>3. ASSUME NEW t \in Tasks, Kernel(t)
      PROVE  IInv'
  BY <1>3, get_blkStep, breadStep, list_addStep, CopyStep, StoreStep, SyncStep,
     FreeDataStep, list_delStep, FreeBhStep DEF Kernel
<1> QED BY <1>1, <1>2, <1>3 DEF Next

\* The invariant holds in every reachable state of the block layer.
THEOREM Inductive ==
  ASSUME ~Overlap
  PROVE  Spec => []IInv
<1>1. Init => IInv
  BY InitIInv
<1>2. IInv /\ [Next]_vars => IInv'
  BY NextIInv
<1> QED BY <1>1, <1>2, PTL DEF Spec

\* No task of get_blk, bread or brelse stands on a buffer that is freed, off
\* the list or of another block.
THEOREM BuffersLive ==
  ASSUME ~Overlap
  PROVE  Spec => []PointersLive
<1>1. IInv => PointersLive
  <2> SUFFICES ASSUME IInv, NEW t \in Tasks
               PROVE  LET b == pc[t].bh IN
                      /\ At(t, "walk") => b = "head" \/ b \in OnList
                      /\ pc[t].at \in {"copy", "store", "sync", "free_data"} =>
                           b \in OnList \cap alloc /\ bh[b].blk = pc[t].blk /\ bh[b].data # NULL
                      /\ At(t, "list_del") => b \in OnList \cap alloc
                      /\ At(t, "free_bh") => b \in alloc \ OnList
    BY DEF PointersLive
  <2>1. At(t, "walk") => pc[t].bh = "head" \/ pc[t].bh \in OnList
    BY DEF IInv, Passed, At, OnList
  <2>2. ASSUME pc[t].at \in {"copy", "store", "sync", "free_data"}
        PROVE  /\ pc[t].bh \in OnList \cap alloc /\ bh[pc[t].bh].blk = pc[t].blk
               /\ bh[pc[t].bh].data # NULL
    <3>1. disk[pc[t].blk] \in [Slots -> Vals]
      BY <2>2 DEF IInv, TypeOK, CallShape, At
    <3>2. disk[pc[t].blk] # NULL
      BY <3>1, BufferAssumption
    <3> QED BY <2>2, <3>2 DEF IInv, InHand, Using
  <2>3. /\ At(t, "list_del") => pc[t].bh \in OnList \cap alloc
        /\ At(t, "free_bh") => pc[t].bh \in alloc \ OnList
    BY DEF IInv, InHand, Using, At
  <2> QED BY <2>1, <2>2, <2>3
<1>2. Spec => []IInv
  BY Inductive
<1> QED BY <1>1, <1>2, PTL

\* With no call in progress nothing is left behind: the buffers in memory are
\* those on the list, none of file data, one of each looked-up block.
THEOREM NothingPilesUp ==
  ASSUME ~Overlap
  PROVE  Spec => []Released
<1>1. IInv => Released
  <2> SUFFICES ASSUME IInv, \A t \in Tasks : At(t, "idle")
               PROVE  /\ alloc = OnList
                      /\ \A b \in OnList : bh[b].blk \notin Data
                      /\ \A b, c \in OnList :
                           bh[b].blk = bh[c].blk /\ bh[b].blk \in Meta => b = c
    BY DEF Released, IInv
  <2>1. alloc = OnList /\ \A b \in alloc : bh[b].blk \in Meta \cup ITable
    BY DEF IInv, AtRest, Using, At
  <2> QED BY <2>1, BufferAssumption DEF IInv, OneCopy
<1>2. Spec => []IInv
  BY Inductive
<1> QED BY <1>1, <1>2, PTL

(***************************************************************************)
(* The refinement.                                                         *)
(***************************************************************************)
NobodySyncs == \A t \in Tasks : pc[t].at # "sync"

\* What the blocks hold when nobody has stored anything that is not synced.
LEMMA ContentsQuiet == IInv /\ NobodySyncs => Contents = disk
<1> SUFFICES ASSUME IInv, NobodySyncs PROVE Contents = disk
  OBVIOUS
<1>1. disk \in [Blocks -> [Slots -> Vals]]
  BY DEF IInv, TypeOK
<1>2. ASSUME NEW k \in Blocks, NEW b \in Pending(k)
      PROVE  bh[b].data = disk[k]
  <2>1. b \in alloc /\ bh[b].blk = k /\ bh[b].b_state = "Dirty" /\ bh[b].data # NULL
    BY DEF Pending
  <2>2. PICK t \in Tasks : pc[t].at \in Using /\ pc[t].bh = b
    BY <2>1 DEF IInv, AtRest
  <2> QED BY <2>1, <2>2 DEF IInv, InHand, Using, NobodySyncs
<1>3. \A k \in Blocks : Contents[k] = disk[k]
  BY <1>2 DEF Contents
<1>4. Contents = [k \in Blocks |-> Contents[k]]
  BY DEF Contents
<1> QED BY <1>1, <1>3, <1>4

\* What they hold while a task is about to sync its buffer.
LEMMA ContentsSync ==
  ASSUME NEW t \in Tasks
  PROVE  IInv /\ pc[t].at = "sync" =>
           Contents = [disk EXCEPT ![pc[t].blk] = bh[pc[t].bh].data]
<1> SUFFICES ASSUME IInv, pc[t].at = "sync"
             PROVE  Contents = [disk EXCEPT ![pc[t].blk] = bh[pc[t].bh].data]
  OBVIOUS
<1> DEFINE l == pc[t]
<1>1. disk \in [Blocks -> [Slots -> Vals]] /\ l.blk \in Blocks
  BY DEF IInv, TypeOK, CallShape, At
<1>2. /\ l.bh \in alloc /\ bh[l.bh].blk = l.blk /\ bh[l.bh].data # NULL
      /\ bh[l.bh].b_state = "Uptodate" => bh[l.bh].data = disk[l.blk]
      /\ bh[l.bh].b_state \in {"Uptodate", "Dirty"}
  BY DEF IInv, InHand, Using, TypeOK
<1>3. ASSUME NEW k \in Blocks, NEW b \in Pending(k)
      PROVE  b = l.bh /\ k = l.blk /\ bh[b].b_state = "Dirty"
  <2>1. b \in alloc /\ bh[b].blk = k /\ bh[b].b_state = "Dirty"
    BY DEF Pending
  <2>2. PICK u \in Tasks : pc[u].at \in Using /\ pc[u].bh = b
    BY <2>1 DEF IInv, AtRest
  <2>3. u = t
    BY <2>2 DEF IInv, Solo, At, Using
  <2> QED BY <1>2, <2>1, <2>2, <2>3
<1>4. ASSUME NEW k \in Blocks
      PROVE  Contents[k] = IF k = l.blk THEN bh[l.bh].data ELSE disk[k]
  <2>1. CASE Pending(k) = {}
    <3>1. k = l.blk => bh[l.bh].b_state = "Uptodate"
      BY <1>2, <2>1 DEF Pending
    <3> QED BY <1>2, <2>1, <3>1 DEF Contents
  <2>2. CASE Pending(k) # {}
    BY <1>3, <2>2 DEF Contents
  <2> QED BY <2>1, <2>2
<1>5. Contents = [k \in Blocks |-> Contents[k]]
  BY DEF Contents
<1> QED BY <1>1, <1>4, <1>5

\* Steps other than Copy and Store leave the blocks as they are.
LEMMA QuietSteps ==
  ASSUME ~Overlap, IInv, IInv', NEW t \in Tasks,
         \/ \E op \in Ops, blk \in Blocks, slot \in Slots, val \in Vals \cup {NULL} :
              Begin(t, op, blk, slot, val)
         \/ get_blk(t) \/ bread(t) \/ list_add(t)
         \/ FreeData(t) \/ list_del(t) \/ FreeBh(t)
  PROVE  UNCHANGED <<Contents, done>>
<1>1. UNCHANGED <<disk, done>>
  BY DEF Begin, get_blk, bread, list_add, FreeData, list_del, FreeBh
<1>2. pc[t].at # "sync"
  BY DEF Begin, get_blk, bread, list_add, FreeData, list_del, FreeBh, At
<1>3. NobodySyncs
  BY <1>2 DEF NobodySyncs, IInv, Solo, At, Begin, get_blk, bread, list_add, FreeData,
              list_del, FreeBh
<1>4. pc'[t].at # "sync" /\ \A u \in Tasks \ {t} : pc'[u] = pc[u]
  <2> USE DEF IInv, TypeOK
  <2>1. CASE \E op \in Ops, blk \in Blocks, slot \in Slots, val \in Vals \cup {NULL} :
              Begin(t, op, blk, slot, val)
    BY <2>1 DEF Begin
  <2>2. CASE get_blk(t)
    BY <2>2 DEF get_blk, GoTo, Use, At
  <2>3. CASE bread(t)
    <3>1. PICK b \in Bufs \ alloc : pc' = [pc EXCEPT ![t].bh = b, ![t].at = "list_add"]
      BY <2>3 DEF bread
    <3>2. pc'[t] = [pc[t] EXCEPT !.bh = b, !.at = "list_add"]
          /\ \A u \in Tasks \ {t} : pc'[u] = pc[u]
      BY <3>1
    <3> QED BY <3>2
  <2>4. CASE list_add(t)
    BY <2>4 DEF list_add, GoTo, Use
  <2>5. CASE FreeData(t)
    BY <2>5 DEF FreeData, GoTo
  <2>6. CASE list_del(t)
    BY <2>6 DEF list_del, GoTo
  <2>7. CASE FreeBh(t)
    BY <2>7 DEF FreeBh, idle
  <2> QED BY <2>1, <2>2, <2>3, <2>4, <2>5, <2>6, <2>7
<1>5. NobodySyncs'
  BY <1>3, <1>4 DEF NobodySyncs
<1>6. Contents = disk
  BY <1>3, ContentsQuiet
<1>7. (IInv /\ NobodySyncs => Contents = disk)'
  BY ContentsQuiet, PTL
<1> QED BY <1>1, <1>5, <1>6, <1>7

\* Writing a buffer back makes no difference to what the blocks hold.
LEMMA SyncQuiet ==
  ASSUME ~Overlap, IInv, IInv', NEW t \in Tasks, Sync(t)
  PROVE  UNCHANGED <<Contents, done>>
<1> DEFINE l == pc[t]
<1>1. l.at = "sync" /\ UNCHANGED done
  BY DEF Sync, At
<1>2. Contents = [disk EXCEPT ![l.blk] = bh[l.bh].data]
  BY <1>1, ContentsSync
<1>3. /\ bh[l.bh].blk = l.blk /\ bh[l.bh].data # NULL
      /\ bh[l.bh].b_state = "Uptodate" => bh[l.bh].data = disk[l.blk]
      /\ bh[l.bh].b_state \in {"Uptodate", "Dirty"}
      /\ disk \in [Blocks -> [Slots -> Vals]] /\ l.blk \in Blocks
  BY <1>1 DEF IInv, InHand, Using, TypeOK, CallShape, At
<1>4. disk' = Contents
  BY <1>2, <1>3 DEF Sync
<1>5. pc'[t].at # "sync" /\ \A u \in Tasks \ {t} : pc'[u] = pc[u]
  BY DEF Sync, GoTo, IInv, TypeOK
<1>6. NobodySyncs'
  BY <1>1, <1>5 DEF NobodySyncs, IInv, Solo, At
<1>7. (IInv /\ NobodySyncs => Contents = disk)'
  BY ContentsQuiet, PTL
<1> QED BY <1>1, <1>4, <1>6, <1>7

\* Copying bytes out is a read of the store.
LEMMA CopyReads ==
  ASSUME ~Overlap, IInv, IInv', NEW t \in Tasks, Copy(t)
  PROVE  \E b \in Blocks, s \in Slots : B!Read(b, s)
<1> DEFINE l == pc[t]
<1>1. /\ l.at = "copy" /\ UNCHANGED <<disk, bh>>
      /\ \A u \in Tasks \ {t} : pc[u].at = "idle"
  BY DEF Copy, At, IInv, Solo
<1>2. NobodySyncs
  BY <1>1 DEF NobodySyncs
<1>3. Contents = disk
  BY <1>2, ContentsQuiet
<1>4. l.blk \in Blocks /\ l.slot \in Slots /\ bh[l.bh].data = disk[l.blk]
      /\ disk \in [Blocks -> [Slots -> Vals]]
  BY <1>1 DEF IInv, CallShape, At, InHand, Using, TypeOK
<1>5. bh[l.bh].data # NULL
  BY <1>4, BufferAssumption
<1>6. done' = <<"read", l.blk, l.slot, Contents[l.blk][l.slot]>>
  BY <1>3, <1>4, <1>5 DEF Copy
<1>7. /\ \A u \in Tasks \ {t} : pc'[u] = pc[u]
      /\ \/ pc'[t].at = "sync" /\ pc'[t].blk = l.blk /\ pc'[t].bh = l.bh
         \/ pc'[t].at = "idle"
  BY DEF Copy, AfterCopy, idle, IInv, TypeOK
<1>8. Contents' = Contents
  <2>1. CASE pc'[t].at = "idle"
    <3>1. NobodySyncs'
      BY <1>1, <1>7, <2>1 DEF NobodySyncs
    <3>2. (IInv /\ NobodySyncs => Contents = disk)'
      BY ContentsQuiet, PTL
    <3> QED BY <1>1, <1>3, <3>1, <3>2
  <2>2. CASE pc'[t].at = "sync" /\ pc'[t].blk = l.blk /\ pc'[t].bh = l.bh
    <3>1. (IInv /\ pc[t].at = "sync" =>
             Contents = [disk EXCEPT ![pc[t].blk] = bh[pc[t].bh].data])'
      BY ContentsSync, PTL
    <3>2. Contents' = [disk EXCEPT ![l.blk] = bh[l.bh].data]
      BY <1>1, <2>2, <3>1
    <3> QED BY <1>3, <1>4, <3>2
  <2> QED BY <1>7, <2>1, <2>2
<1> QED BY <1>4, <1>6, <1>8 DEF B!Read

\* Copying bytes in is a write of the store.
LEMMA StoreWrites ==
  ASSUME ~Overlap, IInv, IInv', NEW t \in Tasks, Store(t)
  PROVE  \E b \in Blocks, s \in Slots, v \in Vals : B!Write(b, s, v)
<1> DEFINE l == pc[t]
<1>1. /\ l.at = "store" /\ UNCHANGED disk
      /\ \A u \in Tasks \ {t} : pc[u].at = "idle"
  BY DEF Store, At, IInv, Solo
<1>2. NobodySyncs
  BY <1>1 DEF NobodySyncs
<1>3. Contents = disk
  BY <1>2, ContentsQuiet
<1>4. /\ l.blk \in Blocks /\ l.slot \in Slots /\ l.val \in Vals
      /\ l.bh \in Bufs /\ bh[l.bh].data = disk[l.blk]
      /\ disk \in [Blocks -> [Slots -> Vals]]
  BY <1>1 DEF IInv, CallShape, At, InHand, Using, TypeOK
<1>5. done' = <<"written", l.blk, l.slot, l.val>>
  BY DEF Store
<1>6. pc'[t].at = "sync" /\ pc'[t].blk = l.blk /\ pc'[t].bh = l.bh
  BY DEF Store, GoTo, IInv, TypeOK
<1>7. bh'[l.bh].data = [disk[l.blk] EXCEPT ![l.slot] = l.val]
  <2>1. bh \in [Bufs -> Heads] /\ bh[l.bh] \in Heads
    BY <1>4 DEF IInv, TypeOK, Heads
  <2>2. bh'[l.bh] = Stored(bh[l.bh], l.slot, l.val)
    BY <1>4, <2>1 DEF Store
  <2>3. Stored(bh[l.bh], l.slot, l.val).data = [bh[l.bh].data EXCEPT ![l.slot] = l.val]
    BY <2>1 DEF Stored, Heads
  <2> QED BY <1>4, <2>2, <2>3
<1>8. (IInv /\ pc[t].at = "sync" =>
         Contents = [disk EXCEPT ![pc[t].blk] = bh[pc[t].bh].data])'
  BY ContentsSync, PTL
<1>9. Contents' = [disk EXCEPT ![l.blk] = [disk[l.blk] EXCEPT ![l.slot] = l.val]]
  BY <1>1, <1>6, <1>7, <1>8
<1>10. Contents' = [Contents EXCEPT ![l.blk][l.slot] = l.val]
  BY <1>3, <1>9
<1> QED BY <1>4, <1>5, <1>10 DEF B!Write

\* The block layer implements a plain store of blocks: every read through
\* get_blk and bread returns what was written last, whatever copies exist.
THEOREM BlockStoreImplemented ==
  ASSUME ~Overlap
  PROVE  Spec => ImplementsBlockStore
<1>1. Init => B!StoreTypeOK
  <2> SUFFICES ASSUME Init PROVE B!StoreTypeOK
    OBVIOUS
  <2>1. IInv /\ NobodySyncs
    BY InitIInv DEF Init, NobodySyncs, idle
  <2>2. Contents = disk
    BY <2>1, ContentsQuiet
  <2> QED BY <2>1, <2>2 DEF B!StoreTypeOK, IInv, TypeOK
<1>2. IInv /\ IInv' /\ [Next]_vars => [B!StoreNext]_<<Contents, done>>
  <2> SUFFICES ASSUME IInv, IInv', [Next]_vars
               PROVE  B!StoreNext \/ UNCHANGED <<Contents, done>>
    OBVIOUS
  <2>1. CASE UNCHANGED vars
    BY <2>1 DEF vars, Contents, Pending
  <2>2. ASSUME NEW t \in Tasks,
               \E op \in Ops, blk \in Blocks, slot \in Slots, val \in Vals \cup {NULL} :
                 Begin(t, op, blk, slot, val)
        PROVE  UNCHANGED <<Contents, done>>
    BY <2>2, QuietSteps
  <2>3. ASSUME NEW t \in Tasks, Kernel(t)
        PROVE  B!StoreNext \/ UNCHANGED <<Contents, done>>
    <3>1. CASE get_blk(t) \/ bread(t) \/ list_add(t) \/ FreeData(t) \/ list_del(t) \/ FreeBh(t)
      BY <3>1, QuietSteps
    <3>2. CASE Sync(t)
      BY <3>2, SyncQuiet
    <3>3. CASE Copy(t)
      BY <3>3, CopyReads DEF B!StoreNext
    <3>4. CASE Store(t)
      BY <3>4, StoreWrites DEF B!StoreNext
    <3> QED BY <2>3, <3>1, <3>2, <3>3, <3>4 DEF Kernel
  <2> QED BY <2>1, <2>2, <2>3 DEF Next
<1>3. Spec => []IInv
  BY Inductive
<1> QED BY <1>1, <1>2, <1>3, PTL DEF Spec, ImplementsBlockStore, B!StoreSpec

=============================================================================
