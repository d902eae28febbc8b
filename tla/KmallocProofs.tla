---------------------------- MODULE KmallocProofs ----------------------------
(***************************************************************************)
(* Proofs about Kmalloc, for any number of tasks, pages and buckets, as    *)
(* long as one task at a time is inside free_s.                            *)
(***************************************************************************)
EXTENDS Kmalloc, FiniteSetTheorems, SequenceTheorems, TLAPS

(***************************************************************************)
(* The inductive invariant.  A chain is described without following it: bk *)
(* is the bucket of a descriptor, rk the time at which it was put at the   *)
(* head of its chain, and now is later than all of these.  Each chain is   *)
(* sorted, the latest first.                                               *)
(***************************************************************************)
MaskedAt == {"scan", "wild", "fix_prev", "unlink"}
HandAt == {"scan", "fix_prev", "unlink"}

\* The descriptors in a chain: they have objects in use, or the task that runs
\* with interrupts masked works on them.
Hand == {d \in Descs : \E t \in Tasks : pc[t].at \in HandAt /\ pc[t].bdesc = d}
Act == {d \in Descs : desc[d].refcnt > 0} \cup Hand
Ready == {d \in Descs : flags[d[1]] = "PG_kmalloc"}
Spare == Ready \ Act

\* Who has interrupts masked, and who is inside free_s.
MaskExact == \A t \in Tasks : masked = t <=> pc[t].at \in MaskedAt
OneFreer == \A t, u \in Freeing : t = u

\* The list of spare descriptors: nothing in a chain is on it, no descriptor
\* has two predecessors, the first one has none.
SpareList ==
  /\ Act \subseteq Ready
  /\ free_bucket_desc # NULL => free_bucket_desc \in Spare
  /\ \A d \in Spare :
       desc[d].next # NULL => desc[d].next \in Spare /\ desc[d].next # free_bucket_desc
  /\ \A d, e \in Spare : desc[d].next = desc[e].next /\ desc[d].next # NULL => d = e

\* A page that is allocated holds descriptors, or the objects of one.
PageUse ==
  /\ \A p \in Pages : flags[p] = "PG_kmalloc" => count[p] = 1
  /\ \A d \in Act : /\ desc[d].page \in Pages
                    /\ count[desc[d].page] = 1 /\ flags[desc[d].page] = "PG_free"
  /\ \A d, e \in Act : desc[d].page = desc[e].page => d = e
  /\ \A p \in Pages : count[p] = 1 =>
       flags[p] = "PG_kmalloc" \/ \E d \in Act : desc[d].page = p

\* The objects of a page are in use or on its free list, never both.
Used(p) == {x \in InUse : x.page = p}
ObjectsOf(d, bk) ==
  LET f == desc[d].freeptr IN
  /\ \A i \in 1..Len(f) : /\ f[i].page = desc[d].page /\ f[i].of = SlotsOf(bk[d])
                          /\ f[i] \notin InUse
                          /\ \A j \in 1..Len(f) : f[i] = f[j] => i = j
  /\ \A x \in Used(desc[d].page) : x.of = SlotsOf(bk[d])
  /\ desc[d].refcnt = Cardinality(Used(desc[d].page))
  /\ desc[d].refcnt + Len(f) = SlotsOf(bk[d])
PageObjects(bk) ==
  /\ IsFiniteSet(InUse)
  /\ \A t, u \in Tasks : t # u => held[t] \cap held[u] = {}
  /\ \A x \in InUse : \E d \in Act : desc[d].page = x.page
  /\ \A d \in Act : ObjectsOf(d, bk)

Sorted(rk, bk, now) ==
  /\ \A d \in Act : rk[d] < now /\ bk[d] \in Requests
  /\ \A d, e \in Act : bk[d] = bk[e] /\ rk[d] = rk[e] => d = e
  /\ \A b \in Buckets :
       /\ chain[b] = NULL => \A e \in Act : bk[e] # b
       /\ chain[b] # NULL => /\ chain[b] \in Act /\ bk[chain[b]] = b
                             /\ \A e \in Act : bk[e] = b => rk[e] <= rk[chain[b]]
  /\ \A d \in Act : LET n == desc[d].next IN
       /\ n = NULL => \A e \in Act : bk[e] = bk[d] => rk[d] <= rk[e]
       /\ n # NULL => /\ n \in Act /\ bk[n] = bk[d] /\ rk[n] < rk[d]
                      /\ \A e \in Act : bk[e] = bk[d] => rk[e] <= rk[n] \/ rk[d] <= rk[e]

\* The walk of kmalloc is in the chain it was started in.
ScanLocal(t, bk) == pc[t].at = "scan" =>
  /\ pc[t].bdir \in Requests
  /\ pc[t].bdesc # NULL => bk[pc[t].bdesc] = pc[t].bdir
ScanLocals(bk) == \A t \in Tasks : ScanLocal(t, bk)

\* The descriptor free_s looks for is ahead of its walk, and prev is the
\* predecessor, or NULL for a descriptor that headed its chain.
Walking(t, bk) ==
  LET l == pc[t] IN
  /\ l.obj \in held[t] /\ l.bdir < EndMarker
  /\ l.bdesc # NULL => l.bdesc \in Act /\ bk[l.bdesc] = l.bdir
  /\ l.prev # NULL => /\ l.prev \in Act /\ bk[l.prev] = l.bdir
                      /\ desc[l.prev].next = l.bdesc

FreeLocal(t, rk, bk) ==
  LET l == pc[t] IN
  /\ l.at \in {"compare", "advance", "found"} => Walking(t, bk)
  /\ l.at = "compare" => \A d \in Act : desc[d].page = l.obj.page =>
       bk[d] > l.bdir \/ (bk[d] = l.bdir /\ l.bdesc # NULL /\ rk[d] <= rk[l.bdesc])
  /\ l.at = "advance" =>
       /\ l.bdesc # NULL
       /\ \A d \in Act : desc[d].page = l.obj.page =>
            bk[d] > l.bdir \/ (bk[d] = l.bdir /\ rk[d] < rk[l.bdesc])
  /\ l.at = "found" => l.bdesc # NULL /\ desc[l.bdesc].page = l.obj.page
  /\ l.at = "bad_address" => EndMarker \in Requests
FreeLocals(rk, bk) == \A t \in Tasks : FreeLocal(t, rk, bk)

\* Once the object is put back: the descriptor has no object in use, and prev
\* is before it in the chain.
UnlinkLocal(t, rk, bk) ==
  LET l == pc[t] IN
  /\ l.at \in {"fix_prev", "unlink"} =>
       /\ l.bdesc # NULL /\ bk[l.bdesc] = l.bdir /\ desc[l.bdesc].refcnt = 0
       /\ l.prev # NULL => l.prev \in Act /\ bk[l.prev] = l.bdir
  /\ l.at = "fix_prev" => l.prev # NULL /\ rk[l.bdesc] < rk[l.prev]
  /\ l.at = "unlink" => IF l.prev = NULL THEN chain[l.bdir] = l.bdesc
                        ELSE desc[l.prev].next = l.bdesc
UnlinkLocals(rk, bk) == \A t \in Tasks : UnlinkLocal(t, rk, bk)

Inv(rk, bk, now) ==
  /\ TypeOK /\ MaskExact /\ OneFreer /\ SpareList /\ PageUse
  /\ PageObjects(bk) /\ Sorted(rk, bk, now)
  /\ ScanLocals(bk) /\ FreeLocals(rk, bk) /\ UnlinkLocals(rk, bk)

IInv == \E rk \in [Descs -> Nat], bk \in [Descs -> Buckets], now \in Nat : Inv(rk, bk, now)

(***************************************************************************)
(* Constants and types.                                                    *)
(***************************************************************************)
DescRecs == [page : Pages \cup {NULL}, next : Descs \cup {NULL},
             freeptr : Seq(Objects), refcnt : 0..MaxRefcnt]
Locals == [at : Places, obj : Objects \cup {NULL}, bdir : Buckets,
           bdesc : Descs \cup {NULL}, prev : Descs \cup {NULL}]

\* The divisions of a page fit the width of refcnt.
LEMMA SlotsOfType == \A b \in Buckets : SlotsOf(b) \in 1..MaxRefcnt
<1> DEFINE W == 1..MaxRefcnt
<1>1. Slots \in Seq(W)
  BY KmallocAssumption
<1>0. 1 \in W
  BY DEF MaxRefcnt
<1> HIDE DEF W
<1>2. Len(Slots) \in Nat /\ \A b \in 1..Len(Slots) : Slots[b] \in W
  BY <1>1
<1>3. \A b \in Buckets : b # EndMarker => b \in 1..Len(Slots)
  BY <1>2 DEF Buckets, EndMarker
<1>4. \A b \in Buckets : SlotsOf(b) \in W
  BY <1>0, <1>2, <1>3 DEF SlotsOf
<1> QED BY <1>4 DEF W

\* NULL is none of the things it stands in for.
LEMMA NullApart == NULL \notin Descs /\ NULL \notin Pages /\ NULL \notin Objects /\ NULL \notin Tasks
BY NullAssumption, KmallocAssumption

\* The type invariant over the named sets of records.
LEMMA TypeByName ==
  TypeOK <=>
  /\ count \in [Pages -> 0..1]
  /\ flags \in [Pages -> {"PG_free", "PG_kmalloc"}]
  /\ chain \in [Buckets -> Descs \cup {NULL}]
  /\ free_bucket_desc \in Descs \cup {NULL}
  /\ desc \in [Descs -> DescRecs]
  /\ pc \in [Tasks -> Locals]
  /\ held \in [Tasks -> SUBSET Objects]
  /\ masked \in Tasks \cup {NULL}
BY DEF TypeOK, DescRecs, Locals

\* The fields of a record of each kind.
LEMMA DescFields ==
  ASSUME NEW x \in DescRecs
  PROVE  /\ x.page \in Pages \cup {NULL} /\ x.next \in Descs \cup {NULL}
         /\ x.freeptr \in Seq(Objects) /\ x.refcnt \in 0..MaxRefcnt
BY DEF DescRecs

\* The fields of a task's local variables.
LEMMA LocalFields ==
  \A l \in Locals : /\ l.at \in Places /\ l.obj \in Objects \cup {NULL}
                       /\ l.bdir \in Buckets /\ l.bdesc \in Descs \cup {NULL}
                       /\ l.prev \in Descs \cup {NULL}
BY DEF Locals

\* Setting fields of a task's local variables.
LEMMA SetAt ==
  ASSUME NEW l \in Locals, NEW a
  PROVE  [l EXCEPT !.at = a] =
           [at |-> a, obj |-> l.obj, bdir |-> l.bdir, bdesc |-> l.bdesc, prev |-> l.prev]
<1>0. l = [at |-> l.at, obj |-> l.obj, bdir |-> l.bdir, bdesc |-> l.bdesc, prev |-> l.prev]
  BY DEF Locals
<1>1. [l EXCEPT !.at = a] =
        [at |-> a, obj |-> l.obj, bdir |-> l.bdir, bdesc |-> l.bdesc, prev |-> l.prev]
  BY <1>0
<1> QED BY <1>1

\* The same for bdesc.
LEMMA SetDesc ==
  ASSUME NEW l \in Locals, NEW d
  PROVE  [l EXCEPT !.bdesc = d] =
           [at |-> l.at, obj |-> l.obj, bdir |-> l.bdir, bdesc |-> d, prev |-> l.prev]
<1>0. l = [at |-> l.at, obj |-> l.obj, bdir |-> l.bdir, bdesc |-> l.bdesc, prev |-> l.prev]
  BY DEF Locals
<1>1. [l EXCEPT !.bdesc = d] =
        [at |-> l.at, obj |-> l.obj, bdir |-> l.bdir, bdesc |-> d, prev |-> l.prev]
  BY <1>0
<1> QED BY <1>1

\* The same for prev.
LEMMA SetPrev ==
  ASSUME NEW l \in Locals, NEW p
  PROVE  [l EXCEPT !.prev = p] =
           [at |-> l.at, obj |-> l.obj, bdir |-> l.bdir, bdesc |-> l.bdesc, prev |-> p]
<1>0. l = [at |-> l.at, obj |-> l.obj, bdir |-> l.bdir, bdesc |-> l.bdesc, prev |-> l.prev]
  BY DEF Locals
<1>1. [l EXCEPT !.prev = p] =
        [at |-> l.at, obj |-> l.obj, bdir |-> l.bdir, bdesc |-> l.bdesc, prev |-> p]
  BY <1>0
<1> QED BY <1>1

\* The same for the place and prev.
LEMMA SetAtPrev ==
  ASSUME NEW l \in Locals, NEW a, NEW p
  PROVE  [l EXCEPT !.at = a, !.prev = p] =
           [at |-> a, obj |-> l.obj, bdir |-> l.bdir, bdesc |-> l.bdesc, prev |-> p]
<1>0. l = [at |-> l.at, obj |-> l.obj, bdir |-> l.bdir, bdesc |-> l.bdesc, prev |-> l.prev]
  BY DEF Locals
<1>1. [l EXCEPT !.at = a] =
        [at |-> a, obj |-> l.obj, bdir |-> l.bdir, bdesc |-> l.bdesc, prev |-> l.prev]
  BY <1>0
<1>2. [l EXCEPT !.at = a, !.prev = p] =
        [at |-> a, obj |-> l.obj, bdir |-> l.bdir, bdesc |-> l.bdesc, prev |-> p]
  <2> DEFINE m == [at |-> a, obj |-> l.obj, bdir |-> l.bdir, bdesc |-> l.bdesc, prev |-> l.prev]
  <2>1. [l EXCEPT !.at = a, !.prev = p] = [m EXCEPT !.prev = p]
    BY <1>1
  <2> QED BY <2>1
<1> QED BY <1>2

\* The same for a step along a chain.
LEMMA SetAdvance ==
  ASSUME NEW l \in Locals, NEW a, NEW p, NEW d
  PROVE  [l EXCEPT !.at = a, !.prev = p, !.bdesc = d] =
           [at |-> a, obj |-> l.obj, bdir |-> l.bdir, bdesc |-> d, prev |-> p]
<1>0. l = [at |-> l.at, obj |-> l.obj, bdir |-> l.bdir, bdesc |-> l.bdesc, prev |-> l.prev]
  BY DEF Locals
<1>1. [l EXCEPT !.at = a] =
        [at |-> a, obj |-> l.obj, bdir |-> l.bdir, bdesc |-> l.bdesc, prev |-> l.prev]
  BY <1>0
<1>2. [l EXCEPT !.at = a, !.prev = p] =
        [at |-> a, obj |-> l.obj, bdir |-> l.bdir, bdesc |-> l.bdesc, prev |-> p]
  <2> DEFINE m == [at |-> a, obj |-> l.obj, bdir |-> l.bdir, bdesc |-> l.bdesc, prev |-> l.prev]
  <2>1. [l EXCEPT !.at = a, !.prev = p] = [m EXCEPT !.prev = p]
    BY <1>1
  <2> QED BY <2>1
<1>3. [l EXCEPT !.at = a, !.prev = p, !.bdesc = d] =
        [at |-> a, obj |-> l.obj, bdir |-> l.bdir, bdesc |-> d, prev |-> p]
  <2> DEFINE m == [at |-> a, obj |-> l.obj, bdir |-> l.bdir, bdesc |-> l.bdesc, prev |-> p]
  <2>1. [l EXCEPT !.at = a, !.prev = p, !.bdesc = d] = [m EXCEPT !.bdesc = d]
    BY <1>2
  <2> QED BY <2>1
<1> QED BY <1>3

\* The same for a step to another chain.
LEMMA SetBucket ==
  ASSUME NEW l \in Locals, NEW b, NEW d, NEW p
  PROVE  [l EXCEPT !.bdir = b, !.bdesc = d, !.prev = p] =
           [at |-> l.at, obj |-> l.obj, bdir |-> b, bdesc |-> d, prev |-> p]
<1>0. l = [at |-> l.at, obj |-> l.obj, bdir |-> l.bdir, bdesc |-> l.bdesc, prev |-> l.prev]
  BY DEF Locals
<1>1. [l EXCEPT !.bdir = b] =
        [at |-> l.at, obj |-> l.obj, bdir |-> b, bdesc |-> l.bdesc, prev |-> l.prev]
  BY <1>0
<1>2. [l EXCEPT !.bdir = b, !.bdesc = d] =
        [at |-> l.at, obj |-> l.obj, bdir |-> b, bdesc |-> d, prev |-> l.prev]
  <2> DEFINE m == [at |-> l.at, obj |-> l.obj, bdir |-> b, bdesc |-> l.bdesc, prev |-> l.prev]
  <2>1. [l EXCEPT !.bdir = b, !.bdesc = d] = [m EXCEPT !.bdesc = d]
    BY <1>1
  <2> QED BY <2>1
<1>3. [l EXCEPT !.bdir = b, !.bdesc = d, !.prev = p] =
        [at |-> l.at, obj |-> l.obj, bdir |-> b, bdesc |-> d, prev |-> p]
  <2> DEFINE m == [at |-> l.at, obj |-> l.obj, bdir |-> b, bdesc |-> d, prev |-> l.prev]
  <2>1. [l EXCEPT !.bdir = b, !.bdesc = d, !.prev = p] = [m EXCEPT !.prev = p]
    BY <1>2
  <2> QED BY <2>1
<1> QED BY <1>3

\* The local variables at the start of kmalloc.
LEMMA SetScan ==
  ASSUME NEW a, NEW b, NEW d
  PROVE  [idle EXCEPT !.at = a, !.bdir = b, !.bdesc = d] =
           [at |-> a, obj |-> NULL, bdir |-> b, bdesc |-> d, prev |-> NULL]
<1>0. idle = [at |-> "idle", obj |-> NULL, bdir |-> 1, bdesc |-> NULL, prev |-> NULL]
  BY DEF idle
<1>1. [idle EXCEPT !.at = a] =
        [at |-> a, obj |-> NULL, bdir |-> 1, bdesc |-> NULL, prev |-> NULL]
  BY <1>0
<1>2. [idle EXCEPT !.at = a, !.bdir = b] =
        [at |-> a, obj |-> NULL, bdir |-> b, bdesc |-> NULL, prev |-> NULL]
  <2> DEFINE m == [at |-> a, obj |-> NULL, bdir |-> 1, bdesc |-> NULL, prev |-> NULL]
  <2>1. [idle EXCEPT !.at = a, !.bdir = b] = [m EXCEPT !.bdir = b]
    BY <1>1
  <2> QED BY <2>1
<1>3. [idle EXCEPT !.at = a, !.bdir = b, !.bdesc = d] =
        [at |-> a, obj |-> NULL, bdir |-> b, bdesc |-> d, prev |-> NULL]
  <2> DEFINE m == [at |-> a, obj |-> NULL, bdir |-> b, bdesc |-> NULL, prev |-> NULL]
  <2>1. [idle EXCEPT !.at = a, !.bdir = b, !.bdesc = d] = [m EXCEPT !.bdesc = d]
    BY <1>2
  <2> QED BY <2>1
<1> QED BY <1>3

\* The local variables at the start of free_s.
LEMMA SetFree ==
  ASSUME NEW a, NEW o, NEW d
  PROVE  [idle EXCEPT !.at = a, !.obj = o, !.bdesc = d] =
           [at |-> a, obj |-> o, bdir |-> 1, bdesc |-> d, prev |-> NULL]
<1>0. idle = [at |-> "idle", obj |-> NULL, bdir |-> 1, bdesc |-> NULL, prev |-> NULL]
  BY DEF idle
<1>1. [idle EXCEPT !.at = a] =
        [at |-> a, obj |-> NULL, bdir |-> 1, bdesc |-> NULL, prev |-> NULL]
  BY <1>0
<1>2. [idle EXCEPT !.at = a, !.obj = o] =
        [at |-> a, obj |-> o, bdir |-> 1, bdesc |-> NULL, prev |-> NULL]
  <2> DEFINE m == [at |-> a, obj |-> NULL, bdir |-> 1, bdesc |-> NULL, prev |-> NULL]
  <2>1. [idle EXCEPT !.at = a, !.obj = o] = [m EXCEPT !.obj = o]
    BY <1>1
  <2> QED BY <2>1
<1>3. [idle EXCEPT !.at = a, !.obj = o, !.bdesc = d] =
        [at |-> a, obj |-> o, bdir |-> 1, bdesc |-> d, prev |-> NULL]
  <2> DEFINE m == [at |-> a, obj |-> o, bdir |-> 1, bdesc |-> NULL, prev |-> NULL]
  <2>1. [idle EXCEPT !.at = a, !.obj = o, !.bdesc = d] = [m EXCEPT !.bdesc = d]
    BY <1>2
  <2> QED BY <2>1
<1> QED BY <1>3

\* A literal record of local variables is one.
LEMMA LocalMade ==
  ASSUME NEW a \in Places, NEW o \in Objects \cup {NULL}, NEW b \in Buckets,
         NEW d \in Descs \cup {NULL}, NEW p \in Descs \cup {NULL}
  PROVE  [at |-> a, obj |-> o, bdir |-> b, bdesc |-> d, prev |-> p] \in Locals
BY DEF Locals

\* A task that can run is the only one that may have interrupts masked.
LEMMA OthersUnmasked ==
  ASSUME MaskExact, NEW t \in Tasks, Runs(t)
  PROVE  \A u \in Tasks : u # t => pc[u].at \notin MaskedAt
BY NullApart DEF MaskExact, Runs

\* A step that moves only the local variables of tasks, and leaves the same
\* descriptors in the chains, keeps every part that is about shared state.
LEMMA SharedKept ==
  ASSUME NEW rk \in [Descs -> Nat], NEW bk \in [Descs -> Buckets], NEW now \in Nat,
         SpareList, PageUse, PageObjects(bk), Sorted(rk, bk, now),
         UNCHANGED <<count, flags, chain, free_bucket_desc, desc, held>>, Act' = Act
  PROVE  SpareList' /\ PageUse' /\ PageObjects(bk)' /\ Sorted(rk, bk, now)'
<1>1. Ready' = Ready /\ Spare' = Spare
  BY DEF Ready, Spare
<1>2. InUse' = InUse
  BY DEF InUse
<1>3. SpareList'
  BY <1>1 DEF SpareList
<1>4. PageUse'
  BY DEF PageUse
<1>5. PageObjects(bk)'
  BY <1>2 DEF PageObjects, ObjectsOf, Used
<1>6. Sorted(rk, bk, now)'
  BY DEF Sorted
<1> QED BY <1>3, <1>4, <1>5, <1>6

\* The effect of a step on the local variables of its task.
LEMMA PcSet ==
  ASSUME TypeOK, NEW t \in Tasks, NEW l \in Locals, pc' = [pc EXCEPT ![t] = l]
  PROVE  /\ pc' \in [Tasks -> Locals] /\ pc'[t] = l
         /\ \A u \in Tasks : u # t => pc'[u] = pc[u]
BY TypeByName

\* The type invariant after a step, over the named sets of records.
LEMMA TypeNext ==
  ASSUME count' \in [Pages -> 0..1],
         flags' \in [Pages -> {"PG_free", "PG_kmalloc"}],
         chain' \in [Buckets -> Descs \cup {NULL}],
         free_bucket_desc' \in Descs \cup {NULL},
         desc' \in [Descs -> DescRecs],
         pc' \in [Tasks -> Locals],
         held' \in [Tasks -> SUBSET Objects],
         masked' \in Tasks \cup {NULL}
  PROVE  TypeOK'
BY DEF TypeOK, DescRecs, Locals

\* What a task between calls has in its local variables.
LEMMA IdleLocal == idle \in Locals
<1>1. 1 \in Buckets
  BY KmallocAssumption DEF Buckets, EndMarker
<1> QED BY <1>1 DEF idle, Locals, Places

\* A descriptor whose free list is empty has objects in use.
LEMMA FullInUse ==
  ASSUME NEW bk \in [Descs -> Buckets], TypeOK, PageObjects(bk), NEW d \in Act,
         desc[d].freeptr = << >>
  PROVE  desc[d].refcnt > 0
<1>1. d \in Descs /\ bk[d] \in Buckets
  BY DEF Act, Hand
<1>2. desc[d].refcnt + Len(desc[d].freeptr) = SlotsOf(bk[d])
  BY DEF PageObjects, ObjectsOf
<1>3. Len(desc[d].freeptr) = 0
  OBVIOUS
<1>4. desc[d].refcnt \in 0..MaxRefcnt
  BY <1>1, DescFields, TypeByName
<1>5. SlotsOf(bk[d]) \in 1..MaxRefcnt
  BY <1>1, SlotsOfType
<1>6. desc[d].refcnt >= 0 /\ desc[d].refcnt \in Int /\ SlotsOf(bk[d]) > 0 /\ SlotsOf(bk[d]) \in Int
  BY <1>4, <1>5
<1> QED BY <1>2, <1>3, <1>6

\* Tasks that do not move keep what holds of their local variables.
LEMMA OthersKept ==
  ASSUME NEW rk \in [Descs -> Nat], NEW bk \in [Descs -> Buckets], NEW now \in Nat,
         Inv(rk, bk, now), UNCHANGED <<chain, desc, held>>, Act' = Act,
         NEW t \in Tasks, \A u \in Tasks : u # t => pc'[u] = pc[u],
         ScanLocal(t, bk)', FreeLocal(t, rk, bk)', UnlinkLocal(t, rk, bk)'
  PROVE  ScanLocals(bk)' /\ FreeLocals(rk, bk)' /\ UnlinkLocals(rk, bk)'
<1> SUFFICES ASSUME NEW u \in Tasks, u # t
             PROVE  ScanLocal(u, bk)' /\ FreeLocal(u, rk, bk)' /\ UnlinkLocal(u, rk, bk)'
  BY DEF ScanLocals, FreeLocals, UnlinkLocals
<1>1. ScanLocal(u, bk) /\ FreeLocal(u, rk, bk) /\ UnlinkLocal(u, rk, bk) /\ pc'[u] = pc[u]
  BY DEF Inv, ScanLocals, FreeLocals, UnlinkLocals
<1> QED BY <1>1 DEF ScanLocal, FreeLocal, UnlinkLocal, Walking

(***************************************************************************)
(* One lemma for each action.                                              *)
(***************************************************************************)
LEMMA KmallocBeginStep ==
  ASSUME ~FreeRace, NEW rk \in [Descs -> Nat], NEW bk \in [Descs -> Buckets], NEW now \in Nat,
         Inv(rk, bk, now), NEW t \in Tasks, NEW b \in Requests, KmallocBegin(t, b)
  PROVE  Inv(rk, bk, now)'
<1> DEFINE l == pc[t]
<1> DEFINE m == [at |-> "scan", obj |-> NULL, bdir |-> b, bdesc |-> chain[b], prev |-> NULL]
<1> USE DEF Inv
<1>1. l \in Locals /\ l.at = "idle" /\ Runs(t) /\ l.bdir \in Buckets /\ desc \in [Descs -> DescRecs]
      /\ l.bdesc \in Descs \cup {NULL} /\ l.prev \in Descs \cup {NULL} /\ l.obj \in Objects \cup {NULL}
  BY TypeByName, LocalFields DEF KmallocBegin, At
<1>2. \A u \in Tasks : u # t => pc[u].at \notin MaskedAt
  BY OthersUnmasked, <1>1
<1>20. ScanLocal(t, bk) /\ FreeLocal(t, rk, bk) /\ UnlinkLocal(t, rk, bk)
  BY DEF ScanLocals, FreeLocals, UnlinkLocals
<1>3. m \in Locals
  BY <1>1, <1>20, LocalMade, DescFields, KmallocAssumption, NullApart,
     TypeByName DEF KmallocBegin, Places, FreeLocal, Buckets, EndMarker
<1>4. pc' = [pc EXCEPT ![t] = m]
  <2>1. [idle EXCEPT !.at = "scan", !.bdir = b, !.bdesc = chain[b]] = m
    BY SetScan
  <2> QED BY <2>1 DEF KmallocBegin, GoTo
<1>5. pc' \in [Tasks -> Locals] /\ \A u \in Tasks : u # t => pc'[u] = pc[u]
  BY <1>3, <1>4, PcSet
<1>50. pc'[t].at = ("scan") /\ pc'[t].obj = NULL /\ pc'[t].bdir = b
      /\ pc'[t].bdesc = chain[b] /\ pc'[t].prev = NULL
  BY <1>3, <1>4, PcSet
<1> HIDE DEF m
<1>6. TypeOK'
  BY <1>5, TypeByName, TypeNext DEF KmallocBegin
<1>7. Act' = Act
  <2>1. Hand' \subseteq Act
    <3>1. Hand' \subseteq {chain[b]} \ {NULL}
      BY <1>2, <1>5, <1>50, NullApart DEF Hand, HandAt, MaskedAt
    <3>2. chain[b] # NULL => chain[b] \in Act
      BY KmallocAssumption DEF Sorted
    <3> QED BY <3>1, <3>2
  <2>2. Hand \subseteq Act'
    BY <1>1, <1>2, <1>5, <1>50, FullInUse DEF KmallocBegin, Hand, HandAt, MaskedAt, Act
  <2> QED BY <2>1, <2>2 DEF Act, KmallocBegin
<1>9. SpareList' /\ PageUse' /\ PageObjects(bk)' /\ Sorted(rk, bk, now)'
  BY <1>7, SharedKept DEF KmallocBegin
<1>10. MaskExact'
  BY <1>1, <1>2, <1>5, <1>50, NullApart DEF MaskExact, KmallocBegin, MaskedAt, Runs
<1>11. OneFreer'
  BY <1>1, <1>5, <1>50 DEF OneFreer, Freeing, KmallocBegin
<1>12. ScanLocal(t, bk)'
  <2>1. chain[b] # NULL => bk[chain[b]] = b
    BY KmallocAssumption DEF Sorted
  <2> QED BY <1>50, <2>1 DEF ScanLocal
<1>13. FreeLocal(t, rk, bk)'
  BY <1>1, <1>20, <1>50, <1>7, NullApart DEF FreeLocal, Walking, KmallocBegin, Sorted
<1>14. UnlinkLocal(t, rk, bk)'
  BY <1>50 DEF UnlinkLocal
<1>15. ScanLocals(bk)' /\ FreeLocals(rk, bk)' /\ UnlinkLocals(rk, bk)'
  BY <1>5, <1>7, <1>12, <1>13, <1>14, OthersKept DEF KmallocBegin
<1> QED BY <1>6, <1>9, <1>10, <1>11, <1>15

\* KmallocScan keeps the invariant.
LEMMA KmallocScanStep ==
  ASSUME ~FreeRace, NEW rk \in [Descs -> Nat], NEW bk \in [Descs -> Buckets], NEW now \in Nat,
         Inv(rk, bk, now), NEW t \in Tasks, KmallocScan(t)
  PROVE  Inv(rk, bk, now)'
<1> DEFINE l == pc[t]
<1> DEFINE m == [at |-> "scan", obj |-> l.obj, bdir |-> l.bdir, bdesc |-> desc[l.bdesc].next, prev |-> l.prev]
<1> USE DEF Inv
<1>1. l \in Locals /\ l.at = "scan" /\ Runs(t) /\ l.bdir \in Buckets /\ desc \in [Descs -> DescRecs]
      /\ l.bdesc \in Descs \cup {NULL} /\ l.prev \in Descs \cup {NULL} /\ l.obj \in Objects \cup {NULL}
  BY TypeByName, LocalFields DEF KmallocScan, At
<1>2. \A u \in Tasks : u # t => pc[u].at \notin MaskedAt
  BY OthersUnmasked, <1>1
<1>20. ScanLocal(t, bk) /\ FreeLocal(t, rk, bk) /\ UnlinkLocal(t, rk, bk)
  BY DEF ScanLocals, FreeLocals, UnlinkLocals
<1>3. m \in Locals
  BY <1>1, <1>20, LocalMade, DescFields, KmallocAssumption, NullApart,
     TypeByName DEF KmallocScan, Places, FreeLocal, Buckets, EndMarker
<1>4. pc' = [pc EXCEPT ![t] = m]
  <2>1. [l EXCEPT !.bdesc = desc[l.bdesc].next] = m
    BY <1>1, SetDesc
  <2> QED BY <2>1 DEF KmallocScan, GoTo
<1>5. pc' \in [Tasks -> Locals] /\ \A u \in Tasks : u # t => pc'[u] = pc[u]
  BY <1>3, <1>4, PcSet
<1>50. pc'[t].at = ("scan") /\ pc'[t].obj = l.obj /\ pc'[t].bdir = l.bdir
      /\ pc'[t].bdesc = desc[l.bdesc].next /\ pc'[t].prev = l.prev
  BY <1>3, <1>4, PcSet
<1> HIDE DEF m
<1>6. TypeOK'
  BY <1>5, TypeByName, TypeNext DEF KmallocScan
<1>7. Act' = Act
  <2>1. Hand' \subseteq Act
    <3>1. Hand' \subseteq {desc[l.bdesc].next} \ {NULL}
      BY <1>2, <1>5, <1>50, NullApart DEF Hand, HandAt, MaskedAt
    <3>2. l.bdesc \in Act
      BY <1>1 DEF Act, Hand, HandAt, KmallocScan
    <3>3. desc[l.bdesc].next # NULL => desc[l.bdesc].next \in Act
      BY <3>2 DEF Sorted
    <3> QED BY <3>1, <3>3
  <2>2. Hand \subseteq Act'
    BY <1>1, <1>2, <1>5, <1>50, FullInUse DEF KmallocScan, Hand, HandAt, MaskedAt, Act
  <2> QED BY <2>1, <2>2 DEF Act, KmallocScan
<1>9. SpareList' /\ PageUse' /\ PageObjects(bk)' /\ Sorted(rk, bk, now)'
  BY <1>7, SharedKept DEF KmallocScan
<1>10. MaskExact'
  BY <1>1, <1>2, <1>5, <1>50, NullApart DEF MaskExact, KmallocScan, MaskedAt, Runs
<1>11. OneFreer'
  BY <1>1, <1>5, <1>50 DEF OneFreer, Freeing, KmallocScan
<1>12. ScanLocal(t, bk)'
  BY <1>1, <1>20, <1>50, NullApart DEF ScanLocal, KmallocScan, Sorted, Act, Hand, HandAt
<1>13. FreeLocal(t, rk, bk)'
  BY <1>1, <1>20, <1>50, <1>7, NullApart DEF FreeLocal, Walking, KmallocScan, Sorted
<1>14. UnlinkLocal(t, rk, bk)'
  BY <1>50 DEF UnlinkLocal
<1>15. ScanLocals(bk)' /\ FreeLocals(rk, bk)' /\ UnlinkLocals(rk, bk)'
  BY <1>5, <1>7, <1>12, <1>13, <1>14, OthersKept DEF KmallocScan
<1> QED BY <1>6, <1>9, <1>10, <1>11, <1>15

\* OutOfMemory keeps the invariant.
LEMMA OutOfMemoryStep ==
  ASSUME ~FreeRace, NEW rk \in [Descs -> Nat], NEW bk \in [Descs -> Buckets], NEW now \in Nat,
         Inv(rk, bk, now), NEW t \in Tasks, OutOfMemory(t)
  PROVE  Inv(rk, bk, now)'
<1> DEFINE l == pc[t]
<1> DEFINE m == [at |-> "wild", obj |-> l.obj, bdir |-> l.bdir, bdesc |-> l.bdesc, prev |-> l.prev]
<1> USE DEF Inv
<1>1. l \in Locals /\ l.at = "scan" /\ Runs(t) /\ l.bdir \in Buckets /\ desc \in [Descs -> DescRecs]
      /\ l.bdesc \in Descs \cup {NULL} /\ l.prev \in Descs \cup {NULL} /\ l.obj \in Objects \cup {NULL}
  BY TypeByName, LocalFields DEF OutOfMemory, At
<1>2. \A u \in Tasks : u # t => pc[u].at \notin MaskedAt
  BY OthersUnmasked, <1>1
<1>20. ScanLocal(t, bk) /\ FreeLocal(t, rk, bk) /\ UnlinkLocal(t, rk, bk)
  BY DEF ScanLocals, FreeLocals, UnlinkLocals
<1>3. m \in Locals
  BY <1>1, <1>20, LocalMade, DescFields, KmallocAssumption, NullApart,
     TypeByName DEF OutOfMemory, Places, FreeLocal, Buckets, EndMarker
<1>4. pc' = [pc EXCEPT ![t] = m]
  BY <1>1, SetAt DEF OutOfMemory, GoTo
<1>5. pc' \in [Tasks -> Locals] /\ \A u \in Tasks : u # t => pc'[u] = pc[u]
  BY <1>3, <1>4, PcSet
<1>50. pc'[t].at = ("wild") /\ pc'[t].obj = l.obj /\ pc'[t].bdir = l.bdir
      /\ pc'[t].bdesc = l.bdesc /\ pc'[t].prev = l.prev
  BY <1>3, <1>4, PcSet
<1> HIDE DEF m
<1>6. TypeOK'
  BY <1>5, TypeByName, TypeNext DEF OutOfMemory
<1>7. Act' = Act
  <2>1. Hand' \subseteq Act
    BY <1>1, <1>2, <1>5, <1>50 DEF OutOfMemory, Hand, HandAt, MaskedAt, Sorted, Act
  <2>2. Hand \subseteq Act'
    <3>1. Hand = {}
      BY <1>1, <1>2, NullApart DEF Hand, HandAt, MaskedAt, OutOfMemory
    <3> QED BY <3>1
  <2> QED BY <2>1, <2>2 DEF Act, OutOfMemory
<1>9. SpareList' /\ PageUse' /\ PageObjects(bk)' /\ Sorted(rk, bk, now)'
  BY <1>7, SharedKept DEF OutOfMemory
<1>10. MaskExact'
  BY <1>1, <1>2, <1>5, <1>50, NullApart DEF MaskExact, OutOfMemory, MaskedAt, Runs
<1>11. OneFreer'
  BY <1>1, <1>5, <1>50 DEF OneFreer, Freeing, OutOfMemory
<1>12. ScanLocal(t, bk)'
  BY <1>1, <1>20, <1>50, NullApart DEF ScanLocal, OutOfMemory, Sorted, Act, Hand, HandAt
<1>13. FreeLocal(t, rk, bk)'
  BY <1>1, <1>20, <1>50, <1>7, NullApart DEF FreeLocal, Walking, OutOfMemory, Sorted
<1>14. UnlinkLocal(t, rk, bk)'
  BY <1>50 DEF UnlinkLocal
<1>15. ScanLocals(bk)' /\ FreeLocals(rk, bk)' /\ UnlinkLocals(rk, bk)'
  BY <1>5, <1>7, <1>12, <1>13, <1>14, OthersKept DEF OutOfMemory
<1> QED BY <1>6, <1>9, <1>10, <1>11, <1>15

\* FreeBegin keeps the invariant.
LEMMA FreeBeginStep ==
  ASSUME ~FreeRace, NEW rk \in [Descs -> Nat], NEW bk \in [Descs -> Buckets], NEW now \in Nat,
         Inv(rk, bk, now), NEW t \in Tasks, NEW o \in held[t], FreeBegin(t, o)
  PROVE  Inv(rk, bk, now)'
<1> DEFINE l == pc[t]
<1> DEFINE m == [at |-> "compare", obj |-> o, bdir |-> 1, bdesc |-> chain[1], prev |-> NULL]
<1> USE DEF Inv
<1>1. l \in Locals /\ l.at = "idle" /\ Runs(t) /\ l.bdir \in Buckets /\ desc \in [Descs -> DescRecs]
      /\ l.bdesc \in Descs \cup {NULL} /\ l.prev \in Descs \cup {NULL} /\ l.obj \in Objects \cup {NULL}
  BY TypeByName, LocalFields DEF FreeBegin, At
<1>2. \A u \in Tasks : u # t => pc[u].at \notin MaskedAt
  BY OthersUnmasked, <1>1
<1>20. ScanLocal(t, bk) /\ FreeLocal(t, rk, bk) /\ UnlinkLocal(t, rk, bk)
  BY DEF ScanLocals, FreeLocals, UnlinkLocals
<1>3. m \in Locals
  <2>1. 1 \in Buckets
    BY KmallocAssumption DEF Buckets, EndMarker
  <2>2. o \in Objects /\ chain[1] \in Descs \cup {NULL}
    BY <2>1, TypeByName
  <2> QED BY <2>1, <2>2, LocalMade DEF Places
<1>4. pc' = [pc EXCEPT ![t] = m]
  <2>1. [idle EXCEPT !.at = "compare", !.obj = o, !.bdesc = chain[1]] = m
    BY SetFree
  <2> QED BY <2>1 DEF FreeBegin, GoTo
<1>5. pc' \in [Tasks -> Locals] /\ \A u \in Tasks : u # t => pc'[u] = pc[u]
  BY <1>3, <1>4, PcSet
<1>50. pc'[t].at = ("compare") /\ pc'[t].obj = o /\ pc'[t].bdir = 1
      /\ pc'[t].bdesc = chain[1] /\ pc'[t].prev = NULL
  BY <1>3, <1>4, PcSet
<1> HIDE DEF m
<1>6. TypeOK'
  BY <1>5, TypeByName, TypeNext DEF FreeBegin
<1>7. Act' = Act
  <2>1. Hand' \subseteq Act
    BY <1>1, <1>2, <1>5, <1>50 DEF FreeBegin, Hand, HandAt, MaskedAt, Sorted, Act
  <2>2. Hand \subseteq Act'
    BY <1>1, <1>2, <1>5, <1>50, FullInUse DEF FreeBegin, Hand, HandAt, MaskedAt, Act
  <2> QED BY <2>1, <2>2 DEF Act, FreeBegin
<1>9. SpareList' /\ PageUse' /\ PageObjects(bk)' /\ Sorted(rk, bk, now)'
  BY <1>7, SharedKept DEF FreeBegin
<1>10. MaskExact'
  BY <1>1, <1>2, <1>5, <1>50, NullApart DEF MaskExact, FreeBegin, MaskedAt, Runs
<1>11. OneFreer'
  BY <1>1, <1>5, <1>50 DEF OneFreer, Freeing, FreeBegin
<1>12. ScanLocal(t, bk)'
  BY <1>1, <1>20, <1>50, NullApart DEF ScanLocal, FreeBegin, Sorted, Act, Hand, HandAt
<1>13. FreeLocal(t, rk, bk)'
  <2>1. 1 \in Buckets /\ 1 < EndMarker
    BY KmallocAssumption DEF Buckets, EndMarker
  <2>2. \A d \in Act : bk[d] \in Buckets /\ bk[d] >= 1
    BY DEF Act, Hand, Buckets
  <2>3. \A d \in Act : bk[d] > 1 \/ (bk[d] = 1 /\ chain[1] # NULL /\ rk[d] <= rk[chain[1]])
    BY <2>1, <2>2 DEF Sorted, Buckets
  <2>4. chain[1] # NULL => chain[1] \in Act /\ bk[chain[1]] = 1
    BY <2>1 DEF Sorted
  <2>5. UNCHANGED <<held, desc>>
    BY DEF FreeBegin
  <2>6. Walking(t, bk)'
    BY <2>1, <2>4, <2>5, <1>50, <1>7 DEF Walking
  <2> QED BY <2>3, <2>5, <2>6, <1>50, <1>7 DEF FreeLocal
<1>14. UnlinkLocal(t, rk, bk)'
  BY <1>50 DEF UnlinkLocal
<1>15. ScanLocals(bk)' /\ FreeLocals(rk, bk)' /\ UnlinkLocals(rk, bk)'
  BY <1>5, <1>7, <1>12, <1>13, <1>14, OthersKept DEF FreeBegin
<1> QED BY <1>6, <1>9, <1>10, <1>11, <1>15

\* FreeCompare keeps the invariant.
LEMMA FreeCompareStep ==
  ASSUME ~FreeRace, NEW rk \in [Descs -> Nat], NEW bk \in [Descs -> Buckets], NEW now \in Nat,
         Inv(rk, bk, now), NEW t \in Tasks, FreeCompare(t)
  PROVE  Inv(rk, bk, now)'
<1> DEFINE l == pc[t]
<1> DEFINE m == [at |-> IF desc[l.bdesc].page = l.obj.page THEN "found" ELSE "advance", obj |-> l.obj, bdir |-> l.bdir, bdesc |-> l.bdesc, prev |-> l.prev]
<1> USE DEF Inv
<1>1. l \in Locals /\ l.at = "compare" /\ Runs(t) /\ l.bdir \in Buckets /\ desc \in [Descs -> DescRecs]
      /\ l.bdesc \in Descs \cup {NULL} /\ l.prev \in Descs \cup {NULL} /\ l.obj \in Objects \cup {NULL}
  BY TypeByName, LocalFields DEF FreeCompare, At
<1>2. \A u \in Tasks : u # t => pc[u].at \notin MaskedAt
  BY OthersUnmasked, <1>1
<1>20. ScanLocal(t, bk) /\ FreeLocal(t, rk, bk) /\ UnlinkLocal(t, rk, bk)
  BY DEF ScanLocals, FreeLocals, UnlinkLocals
<1>3. m \in Locals
  BY <1>1, <1>20, LocalMade, DescFields, KmallocAssumption, NullApart,
     TypeByName DEF FreeCompare, Places, FreeLocal, Buckets, EndMarker
<1>4. pc' = [pc EXCEPT ![t] = m]
  BY <1>1, SetAt DEF FreeCompare, GoTo
<1>5. pc' \in [Tasks -> Locals] /\ \A u \in Tasks : u # t => pc'[u] = pc[u]
  BY <1>3, <1>4, PcSet
<1>50. pc'[t].at = (IF desc[l.bdesc].page = l.obj.page THEN "found" ELSE "advance") /\ pc'[t].obj = l.obj /\ pc'[t].bdir = l.bdir
      /\ pc'[t].bdesc = l.bdesc /\ pc'[t].prev = l.prev
  BY <1>3, <1>4, PcSet
<1> HIDE DEF m
<1>6. TypeOK'
  BY <1>5, TypeByName, TypeNext DEF FreeCompare
<1>7. Act' = Act
  <2>1. Hand' \subseteq Act
    BY <1>1, <1>2, <1>5, <1>50 DEF FreeCompare, Hand, HandAt, MaskedAt, Sorted, Act
  <2>2. Hand \subseteq Act'
    BY <1>1, <1>2, <1>5, <1>50, FullInUse DEF FreeCompare, Hand, HandAt, MaskedAt, Act
  <2> QED BY <2>1, <2>2 DEF Act, FreeCompare
<1>9. SpareList' /\ PageUse' /\ PageObjects(bk)' /\ Sorted(rk, bk, now)'
  BY <1>7, SharedKept DEF FreeCompare
<1>10. MaskExact'
  BY <1>1, <1>2, <1>5, <1>50, NullApart DEF MaskExact, FreeCompare, MaskedAt, Runs
<1>11. OneFreer'
  BY <1>1, <1>5, <1>50 DEF OneFreer, Freeing, FreeCompare
<1>12. ScanLocal(t, bk)'
  BY <1>1, <1>20, <1>50, NullApart DEF ScanLocal, FreeCompare, Sorted, Act, Hand, HandAt
<1>13. FreeLocal(t, rk, bk)'
  <2>1. UNCHANGED <<held, desc>> /\ l.bdesc # NULL
    BY DEF FreeCompare
  <2>2. Walking(t, bk)
    BY <1>1, <1>20 DEF FreeLocal
  <2>3. Walking(t, bk)'
    BY <2>1, <2>2, <1>50, <1>7 DEF Walking
  <2>4. CASE desc[l.bdesc].page = l.obj.page
    BY <2>1, <2>3, <2>4, <1>50 DEF FreeLocal
  <2>5. CASE desc[l.bdesc].page # l.obj.page
    <3>1. \A d \in Act : desc[d].page = l.obj.page =>
            bk[d] > l.bdir \/ (bk[d] = l.bdir /\ rk[d] <= rk[l.bdesc])
      BY <1>1, <1>20 DEF FreeLocal
    <3>2. l.bdesc \in Act /\ bk[l.bdesc] = l.bdir
      BY <2>1, <2>2 DEF Walking
    <3>3. \A d \in Act : desc[d].page = l.obj.page /\ bk[d] = l.bdir => rk[d] # rk[l.bdesc]
      BY <2>5, <3>2 DEF Sorted
    <3>4. \A d \in Act : rk[d] \in Nat
      BY DEF Act, Hand
    <3>5. \A d \in Act : desc[d].page = l.obj.page =>
            bk[d] > l.bdir \/ (bk[d] = l.bdir /\ rk[d] < rk[l.bdesc])
      BY <3>1, <3>2, <3>3, <3>4
    <3> QED BY <2>1, <2>3, <2>5, <3>5, <1>50, <1>7 DEF FreeLocal
  <2> QED BY <2>4, <2>5
<1>14. UnlinkLocal(t, rk, bk)'
  BY <1>50 DEF UnlinkLocal
<1>15. ScanLocals(bk)' /\ FreeLocals(rk, bk)' /\ UnlinkLocals(rk, bk)'
  BY <1>5, <1>7, <1>12, <1>13, <1>14, OthersKept DEF FreeCompare
<1> QED BY <1>6, <1>9, <1>10, <1>11, <1>15

\* FreeAdvance keeps the invariant.
LEMMA FreeAdvanceStep ==
  ASSUME ~FreeRace, NEW rk \in [Descs -> Nat], NEW bk \in [Descs -> Buckets], NEW now \in Nat,
         Inv(rk, bk, now), NEW t \in Tasks, FreeAdvance(t)
  PROVE  Inv(rk, bk, now)'
<1> DEFINE l == pc[t]
<1> DEFINE m == [at |-> "compare", obj |-> l.obj, bdir |-> l.bdir, bdesc |-> desc[l.bdesc].next, prev |-> l.bdesc]
<1> USE DEF Inv
<1>1. l \in Locals /\ l.at = "advance" /\ Runs(t) /\ l.bdir \in Buckets /\ desc \in [Descs -> DescRecs]
      /\ l.bdesc \in Descs \cup {NULL} /\ l.prev \in Descs \cup {NULL} /\ l.obj \in Objects \cup {NULL}
  BY TypeByName, LocalFields DEF FreeAdvance, At
<1>2. \A u \in Tasks : u # t => pc[u].at \notin MaskedAt
  BY OthersUnmasked, <1>1
<1>20. ScanLocal(t, bk) /\ FreeLocal(t, rk, bk) /\ UnlinkLocal(t, rk, bk)
  BY DEF ScanLocals, FreeLocals, UnlinkLocals
<1>3. m \in Locals
  BY <1>1, <1>20, LocalMade, DescFields, KmallocAssumption, NullApart,
     TypeByName DEF FreeAdvance, Places, FreeLocal, Buckets, EndMarker
<1>4. pc' = [pc EXCEPT ![t] = m]
  <2>1. \A x, y : [l EXCEPT !.at = "compare", !.prev = x, !.bdesc = y] =
          [at |-> "compare", obj |-> l.obj, bdir |-> l.bdir, bdesc |-> y, prev |-> x]
    BY <1>1, SetAdvance
  <2> QED BY <2>1 DEF FreeAdvance, GoTo
<1>5. pc' \in [Tasks -> Locals] /\ \A u \in Tasks : u # t => pc'[u] = pc[u]
  BY <1>3, <1>4, PcSet
<1>50. pc'[t].at = ("compare") /\ pc'[t].obj = l.obj /\ pc'[t].bdir = l.bdir
      /\ pc'[t].bdesc = desc[l.bdesc].next /\ pc'[t].prev = l.bdesc
  BY <1>3, <1>4, PcSet
<1> HIDE DEF m
<1>6. TypeOK'
  BY <1>5, TypeByName, TypeNext DEF FreeAdvance
<1>7. Act' = Act
  <2>1. Hand' \subseteq Act
    BY <1>1, <1>2, <1>5, <1>50 DEF FreeAdvance, Hand, HandAt, MaskedAt, Sorted, Act
  <2>2. Hand \subseteq Act'
    BY <1>1, <1>2, <1>5, <1>50, FullInUse DEF FreeAdvance, Hand, HandAt, MaskedAt, Act
  <2> QED BY <2>1, <2>2 DEF Act, FreeAdvance
<1>9. SpareList' /\ PageUse' /\ PageObjects(bk)' /\ Sorted(rk, bk, now)'
  BY <1>7, SharedKept DEF FreeAdvance
<1>10. MaskExact'
  BY <1>1, <1>2, <1>5, <1>50, NullApart DEF MaskExact, FreeAdvance, MaskedAt, Runs
<1>11. OneFreer'
  BY <1>1, <1>5, <1>50 DEF OneFreer, Freeing, FreeAdvance
<1>12. ScanLocal(t, bk)'
  BY <1>1, <1>20, <1>50, NullApart DEF ScanLocal, FreeAdvance, Sorted, Act, Hand, HandAt
<1>13. FreeLocal(t, rk, bk)'
  <2> DEFINE n == desc[l.bdesc].next
  <2>1. UNCHANGED <<held, desc>>
    BY DEF FreeAdvance
  <2>2. Walking(t, bk) /\ l.bdesc # NULL
    BY <1>1, <1>20 DEF FreeLocal
  <2>3. l.bdesc \in Act /\ bk[l.bdesc] = l.bdir
    BY <2>2 DEF Walking
  <2>4. n # NULL => n \in Act /\ bk[n] = l.bdir
    BY <2>3 DEF Sorted
  <2>5. Walking(t, bk)'
    BY <2>1, <2>2, <2>3, <2>4, <1>50, <1>7 DEF Walking
  <2>6. \A d \in Act : desc[d].page = l.obj.page =>
          bk[d] > l.bdir \/ (bk[d] = l.bdir /\ rk[d] < rk[l.bdesc])
    BY <1>1, <1>20 DEF FreeLocal
  <2>7. \A d \in Act : rk[d] \in Nat
    BY DEF Act, Hand
  <2>8. \A d \in Act : bk[d] = l.bdir /\ rk[d] < rk[l.bdesc] => n # NULL /\ rk[d] <= rk[n]
    BY <2>3, <2>7 DEF Sorted
  <2> QED BY <2>1, <2>5, <2>6, <2>8, <1>50, <1>7 DEF FreeLocal
<1>14. UnlinkLocal(t, rk, bk)'
  BY <1>50 DEF UnlinkLocal
<1>15. ScanLocals(bk)' /\ FreeLocals(rk, bk)' /\ UnlinkLocals(rk, bk)'
  BY <1>5, <1>7, <1>12, <1>13, <1>14, OthersKept DEF FreeAdvance
<1> QED BY <1>6, <1>9, <1>10, <1>11, <1>15

\* FreeNextBucket keeps the invariant.
LEMMA FreeNextBucketStep ==
  ASSUME ~FreeRace, NEW rk \in [Descs -> Nat], NEW bk \in [Descs -> Buckets], NEW now \in Nat,
         Inv(rk, bk, now), NEW t \in Tasks, FreeNextBucket(t)
  PROVE  Inv(rk, bk, now)'
<1> DEFINE l == pc[t]
<1> USE DEF Inv
<1>1. l \in Locals /\ l.at = "compare" /\ Runs(t) /\ l.bdir \in Buckets /\ desc \in [Descs -> DescRecs]
      /\ l.bdesc \in Descs \cup {NULL} /\ l.prev \in Descs \cup {NULL} /\ l.obj \in Objects \cup {NULL}
  BY TypeByName, LocalFields DEF FreeNextBucket, At
<1>2. \A u \in Tasks : u # t => pc[u].at \notin MaskedAt
  BY OthersUnmasked, <1>1
<1>20. ScanLocal(t, bk) /\ FreeLocal(t, rk, bk) /\ UnlinkLocal(t, rk, bk)
  BY DEF ScanLocals, FreeLocals, UnlinkLocals
<1> DEFINE b == l.bdir + 1
<1>3. Walking(t, bk) /\ b \in Buckets /\ l.bdesc = NULL /\ UNCHANGED <<held, desc>>
  BY <1>1, <1>20, KmallocAssumption DEF FreeLocal, Walking, FreeNextBucket, Buckets,
     EndMarker
<1>30. \A d \in Act : bk[d] \in Buckets /\ rk[d] \in Nat
  BY DEF Act, Hand
<1>31. \A d \in Act : desc[d].page = l.obj.page => bk[d] > l.bdir
  BY <1>1, <1>20, <1>3 DEF FreeLocal
<1> DEFINE Moved == /\ pc' \in [Tasks -> Locals] /\ pc'[t].at \in {"compare", "bad_address"}
                    /\ \A u \in Tasks : u # t => pc'[u] = pc[u]
                    /\ ScanLocal(t, bk)' /\ FreeLocal(t, rk, bk)' /\ UnlinkLocal(t, rk, bk)'
<1>4. ASSUME b = EndMarker PROVE Moved
  <2> DEFINE m == [at |-> "bad_address", obj |-> l.obj, bdir |-> l.bdir, bdesc |-> l.bdesc, prev |-> l.prev]
  <2>1. m \in Locals
    BY <1>1, LocalMade DEF Places
  <2>2. pc' = [pc EXCEPT ![t] = m]
    <3>1. [l EXCEPT !.at = "bad_address"] = m
      BY <1>1, SetAt
    <3> QED BY <1>4, <3>1 DEF FreeNextBucket, GoTo
  <2>3. EndMarker \in Requests
    <3>1. l.obj \in InUse
      BY <1>3 DEF Walking, InUse
    <3>2. PICK d \in Act : desc[d].page = l.obj.page
      BY <3>1 DEF PageObjects
    <3>3. bk[d] = EndMarker
      BY <3>2, <1>1, <1>30, <1>31, <1>4 DEF Buckets
    <3> QED BY <3>3 DEF Sorted
  <2>4. pc' \in [Tasks -> Locals] /\ (\A u \in Tasks : u # t => pc'[u] = pc[u]) /\ pc'[t].at = "bad_address"
    BY <2>1, <2>2, PcSet, <1>1
  <2>5. ScanLocal(t, bk)' /\ FreeLocal(t, rk, bk)' /\ UnlinkLocal(t, rk, bk)'
    BY <2>3, <2>4 DEF ScanLocal, FreeLocal, UnlinkLocal
  <2> QED BY <2>4, <2>5
<1>40. ASSUME b # EndMarker PROVE Moved
  <2> DEFINE m == [at |-> l.at, obj |-> l.obj, bdir |-> b, bdesc |-> chain[b], prev |-> NULL]
  <2>0. chain[b] \in Descs \cup {NULL}
    BY <1>3, TypeByName
  <2>1. m \in Locals
    <3>1. l.at \in Places
      BY <1>1 DEF Places
    <3>2. \A x \in Buckets, y \in Descs \cup {NULL}, z \in Descs \cup {NULL} :
            [at |-> l.at, obj |-> l.obj, bdir |-> x, bdesc |-> y, prev |-> z] \in Locals
      BY <1>1, <3>1, LocalMade
    <3> QED BY <1>3, <2>0, <3>2
  <2>2. pc' = [pc EXCEPT ![t] = m]
    <3>1. \A x, y, z : [l EXCEPT !.bdir = x, !.bdesc = y, !.prev = z] =
            [at |-> l.at, obj |-> l.obj, bdir |-> x, bdesc |-> y, prev |-> z]
      BY <1>1, SetBucket
    <3>2. pc' = [pc EXCEPT ![t] = [l EXCEPT !.bdir = b, !.bdesc = chain[b], !.prev = NULL]]
      BY <1>40 DEF FreeNextBucket, GoTo
    <3>3. [l EXCEPT !.bdir = b, !.bdesc = chain[b], !.prev = NULL] = m
      BY <3>1
    <3> HIDE DEF m
    <3> QED BY <3>2, <3>3
  <2>4. /\ pc' \in [Tasks -> Locals] /\ (\A u \in Tasks : u # t => pc'[u] = pc[u]) /\ pc'[t].at = "compare"
        /\ pc'[t].obj = l.obj /\ pc'[t].bdir = b /\ pc'[t].bdesc = chain[b] /\ pc'[t].prev = NULL
    BY <2>1, <2>2, PcSet, <1>1
  <2> HIDE DEF m
  <2>5. Act' = Act
    BY <1>1, <2>4 DEF Act, Hand, HandAt, FreeNextBucket
  <2>6. chain[b] # NULL => chain[b] \in Act /\ bk[chain[b]] = b
    BY <1>3 DEF Sorted
  <2>7. b < EndMarker
    <3>1. EndMarker \in Nat
      BY KmallocAssumption DEF EndMarker
    <3> QED BY <1>3, <1>40, <3>1 DEF Buckets
  <2>8. Walking(t, bk)'
    BY <1>3, <2>4, <2>5, <2>6, <2>7 DEF Walking
  <2>9. \A d \in Act : bk[d] > l.bdir => bk[d] > b \/ (bk[d] = b /\ chain[b] # NULL /\ rk[d] <= rk[chain[b]])
    BY <1>1, <1>3, <1>30 DEF Sorted, Buckets
  <2>10. FreeLocal(t, rk, bk)'
    BY <1>3, <1>31, <2>4, <2>5, <2>8, <2>9 DEF FreeLocal
  <2>11. ScanLocal(t, bk)' /\ UnlinkLocal(t, rk, bk)'
    BY <2>4 DEF ScanLocal, UnlinkLocal
  <2> QED BY <2>4, <2>10, <2>11
<1>5. pc' \in [Tasks -> Locals] /\ (\A u \in Tasks : u # t => pc'[u] = pc[u])
  BY <1>4, <1>40
<1>50. pc'[t].at \in {"compare", "bad_address"}
  BY <1>4, <1>40
<1>12. ScanLocal(t, bk)'
  BY <1>4, <1>40
<1>13. FreeLocal(t, rk, bk)'
  BY <1>4, <1>40
<1>14. UnlinkLocal(t, rk, bk)'
  BY <1>4, <1>40
<1>6. TypeOK'
  BY <1>5, TypeByName, TypeNext DEF FreeNextBucket
<1>7. Act' = Act
  <2>1. Hand' \subseteq Act
    BY <1>1, <1>2, <1>5, <1>50 DEF FreeNextBucket, Hand, HandAt, MaskedAt, Act
  <2>2. Hand \subseteq Act'
    BY <1>1, <1>2, <1>5, <1>50 DEF FreeNextBucket, Hand, HandAt, MaskedAt, Act
  <2> QED BY <2>1, <2>2 DEF Act, FreeNextBucket
<1>9. SpareList' /\ PageUse' /\ PageObjects(bk)' /\ Sorted(rk, bk, now)'
  BY <1>7, SharedKept DEF FreeNextBucket
<1>10. MaskExact'
  BY <1>1, <1>2, <1>5, <1>50, NullApart DEF MaskExact, FreeNextBucket, MaskedAt, Runs
<1>11. OneFreer'
  BY <1>1, <1>5, <1>50 DEF OneFreer, Freeing, FreeNextBucket
<1>15. ScanLocals(bk)' /\ FreeLocals(rk, bk)' /\ UnlinkLocals(rk, bk)'
  BY <1>5, <1>7, <1>12, <1>13, <1>14, OthersKept DEF FreeNextBucket
<1> QED BY <1>6, <1>9, <1>10, <1>11, <1>15

\* FreeFixPrev keeps the invariant.
LEMMA FreeFixPrevStep ==
  ASSUME ~FreeRace, NEW rk \in [Descs -> Nat], NEW bk \in [Descs -> Buckets], NEW now \in Nat,
         Inv(rk, bk, now), NEW t \in Tasks, FreeFixPrev(t)
  PROVE  Inv(rk, bk, now)'
<1> DEFINE l == pc[t]
<1> USE DEF Inv
<1>1. l \in Locals /\ l.at = "fix_prev" /\ Runs(t) /\ l.bdir \in Buckets /\ desc \in [Descs -> DescRecs]
      /\ l.bdesc \in Descs \cup {NULL} /\ l.prev \in Descs \cup {NULL} /\ l.obj \in Objects \cup {NULL}
  BY TypeByName, LocalFields DEF FreeFixPrev, At
<1>2. \A u \in Tasks : u # t => pc[u].at \notin MaskedAt
  BY OthersUnmasked, <1>1
<1>20. ScanLocal(t, bk) /\ FreeLocal(t, rk, bk) /\ UnlinkLocal(t, rk, bk)
  BY DEF ScanLocals, FreeLocals, UnlinkLocals
<1> DEFINE n == desc[l.prev].next
<1>30. l.bdesc \in Act
  BY <1>1, <1>20 DEF Act, Hand, HandAt, UnlinkLocal
<1>31. /\ l.prev \in Act /\ bk[l.prev] = l.bdir /\ bk[l.bdesc] = l.bdir /\ rk[l.bdesc] < rk[l.prev]
       /\ desc[l.bdesc].refcnt = 0 /\ l.bdesc # NULL /\ l.prev # NULL
       /\ UNCHANGED <<chain, held, desc>>
  BY <1>1, <1>20 DEF UnlinkLocal, FreeFixPrev
<1>32. \A d \in Act : bk[d] \in Buckets /\ rk[d] \in Nat
  BY DEF Act, Hand
<1> DEFINE Moved == /\ pc' \in [Tasks -> Locals] /\ pc'[t].at \in {"fix_prev", "unlink"}
                    /\ pc'[t].bdesc = l.bdesc
                    /\ \A u \in Tasks : u # t => pc'[u] = pc[u]
                    /\ ScanLocal(t, bk)' /\ FreeLocal(t, rk, bk)' /\ UnlinkLocal(t, rk, bk)'
<1>4. ASSUME n = l.bdesc PROVE Moved
  <2> DEFINE m == [at |-> "unlink", obj |-> l.obj, bdir |-> l.bdir, bdesc |-> l.bdesc, prev |-> l.prev]
  <2>1. m \in Locals
    BY <1>1, LocalMade DEF Places
  <2>2. pc' = [pc EXCEPT ![t] = m]
    <3>1. [l EXCEPT !.at = "unlink"] = m
      BY <1>1, SetAt
    <3> QED BY <1>4, <3>1 DEF FreeFixPrev, GoTo
  <2>4. /\ pc' \in [Tasks -> Locals] /\ (\A u \in Tasks : u # t => pc'[u] = pc[u]) /\ pc'[t].at = "unlink"
        /\ pc'[t].bdir = l.bdir /\ pc'[t].bdesc = l.bdesc /\ pc'[t].prev = l.prev
    BY <2>1, <2>2, PcSet
  <2> HIDE DEF m
  <2>5. Act' = Act
    BY <1>1, <2>4 DEF Act, Hand, HandAt, FreeFixPrev
  <2>6. ScanLocal(t, bk)' /\ FreeLocal(t, rk, bk)'
    BY <2>4 DEF ScanLocal, FreeLocal
  <2>7. UnlinkLocal(t, rk, bk)'
    BY <1>31, <1>4, <2>4, <2>5 DEF UnlinkLocal
  <2> QED BY <2>4, <2>6, <2>7
<1>40. ASSUME n # l.bdesc PROVE Moved
  <2> DEFINE m == [at |-> "fix_prev", obj |-> l.obj, bdir |-> l.bdir, bdesc |-> l.bdesc, prev |-> n]
  <2>0. n \in Descs \cup {NULL}
    BY <1>1, <1>31, DescFields, NullApart DEF Act, Hand
  <2>1. m \in Locals
    BY <1>1, <2>0, LocalMade DEF Places
  <2>2. pc' = [pc EXCEPT ![t] = m]
    <3>1. \A x : [l EXCEPT !.prev = x] =
            [at |-> l.at, obj |-> l.obj, bdir |-> l.bdir, bdesc |-> l.bdesc, prev |-> x]
      BY <1>1, SetPrev
    <3> QED BY <1>1, <1>31, <1>40, <3>1 DEF FreeFixPrev, GoTo
  <2>4. /\ pc' \in [Tasks -> Locals] /\ (\A u \in Tasks : u # t => pc'[u] = pc[u]) /\ pc'[t].at = "fix_prev"
        /\ pc'[t].bdir = l.bdir /\ pc'[t].bdesc = l.bdesc /\ pc'[t].prev = n
    BY <2>1, <2>2, PcSet
  <2> HIDE DEF m
  <2>5. Act' = Act
    BY <1>1, <2>4 DEF Act, Hand, HandAt, FreeFixPrev
  <2>6. ScanLocal(t, bk)' /\ FreeLocal(t, rk, bk)'
    BY <2>4 DEF ScanLocal, FreeLocal
  <2>7. n # NULL
    BY <1>30, <1>31, <1>32 DEF Sorted
  <2>8. n \in Act /\ bk[n] = l.bdir /\ rk[l.bdesc] <= rk[n]
    BY <2>7, <1>30, <1>31, <1>32 DEF Sorted
  <2>9. rk[l.bdesc] # rk[n]
    BY <2>8, <1>30, <1>31, <1>40 DEF Sorted
  <2>10. UnlinkLocal(t, rk, bk)'
    BY <1>30, <1>31, <1>32, <2>4, <2>5, <2>7, <2>8, <2>9 DEF UnlinkLocal
  <2> QED BY <2>4, <2>6, <2>10
<1>5. pc' \in [Tasks -> Locals] /\ (\A u \in Tasks : u # t => pc'[u] = pc[u])
  BY <1>4, <1>40
<1>50. pc'[t].at \in {"fix_prev", "unlink"} /\ pc'[t].bdesc = l.bdesc
  BY <1>4, <1>40
<1>12. ScanLocal(t, bk)'
  BY <1>4, <1>40
<1>13. FreeLocal(t, rk, bk)'
  BY <1>4, <1>40
<1>14. UnlinkLocal(t, rk, bk)'
  BY <1>4, <1>40
<1>6. TypeOK'
  BY <1>5, TypeByName, TypeNext DEF FreeFixPrev
<1>7. Act' = Act
  <2>1. Hand' \subseteq Act
    BY <1>1, <1>2, <1>5, <1>50 DEF FreeFixPrev, Hand, HandAt, MaskedAt, Act
  <2>2. Hand \subseteq Act'
    BY <1>1, <1>2, <1>5, <1>50 DEF FreeFixPrev, Hand, HandAt, MaskedAt, Act
  <2> QED BY <2>1, <2>2 DEF Act, FreeFixPrev
<1>9. SpareList' /\ PageUse' /\ PageObjects(bk)' /\ Sorted(rk, bk, now)'
  BY <1>7, SharedKept DEF FreeFixPrev
<1>10. MaskExact'
  BY <1>1, <1>2, <1>5, <1>50, NullApart DEF MaskExact, FreeFixPrev, MaskedAt, Runs
<1>11. OneFreer'
  BY <1>1, <1>5, <1>50 DEF OneFreer, Freeing, FreeFixPrev
<1>15. ScanLocals(bk)' /\ FreeLocals(rk, bk)' /\ UnlinkLocals(rk, bk)'
  BY <1>5, <1>7, <1>12, <1>13, <1>14, OthersKept DEF FreeFixPrev
<1> QED BY <1>6, <1>9, <1>10, <1>11, <1>15

\* A descriptor is known by its page and its index there.
LEMMA DescPair ==
  \A d \in Descs : d[1] \in Pages /\ d[2] \in 1..DescPerPage /\ d = <<d[1], d[2]>>
BY DEF Descs

\* A literal record of a descriptor is one.
LEMMA DescMade ==
  ASSUME NEW p \in Pages \cup {NULL}, NEW n \in Descs \cup {NULL},
         NEW f \in Seq(Objects), NEW r \in 0..MaxRefcnt
  PROVE  [page |-> p, next |-> n, freeptr |-> f, refcnt |-> r] \in DescRecs
BY DEF DescRecs

\* A descriptor of a new page.
LEMMA SpareRec ==
  ASSUME NEW n \in Descs \cup {NULL}
  PROVE  /\ [zero EXCEPT !.next = n] \in DescRecs
         /\ [zero EXCEPT !.next = n].next = n
         /\ [zero EXCEPT !.next = n].refcnt = 0
<1>1. [zero EXCEPT !.next = n] = [page |-> NULL, next |-> n, freeptr |-> << >>, refcnt |-> 0]
  BY DEF zero
<1>2. << >> \in Seq(Objects) /\ 0 \in 0..MaxRefcnt
  BY DEF MaxRefcnt
<1> DEFINE e == << >>
<1> HIDE DEF e
<1>3. [page |-> NULL, next |-> n, freeptr |-> e, refcnt |-> 0] \in DescRecs
  BY <1>2, DescMade DEF e
<1>4. [zero EXCEPT !.next = n] = [page |-> NULL, next |-> n, freeptr |-> e, refcnt |-> 0]
  BY <1>1 DEF e
<1> QED BY <1>3, <1>4

\* A step that leaves the chains and their descriptors alone keeps what holds
\* of the objects and of the order of the chains.
LEMMA ChainsKept ==
  ASSUME NEW rk \in [Descs -> Nat], NEW bk \in [Descs -> Buckets], NEW now \in Nat,
         PageObjects(bk), Sorted(rk, bk, now), UNCHANGED <<chain, held>>,
         Act' = Act, \A d \in Act : desc'[d] = desc[d]
  PROVE  PageObjects(bk)' /\ Sorted(rk, bk, now)'
<1>1. InUse' = InUse
  BY DEF InUse
<1>2. PageObjects(bk)'
  <2>1. \A d \in Act : ObjectsOf(d, bk)'
    <3> SUFFICES ASSUME NEW d \in Act PROVE ObjectsOf(d, bk)'
      OBVIOUS
    <3>1. Used(desc[d].page)' = Used(desc[d].page) /\ desc'[d] = desc[d] /\ ObjectsOf(d, bk)
      BY <1>1 DEF Used, PageObjects
    <3> QED BY <1>1, <3>1 DEF ObjectsOf
  <2> QED BY <1>1, <2>1 DEF PageObjects
<1>3. Sorted(rk, bk, now)'
  BY DEF Sorted
<1> QED BY <1>2, <1>3

\* A walk of free_s does not notice a step of another task that neither
\* relinks nor removes a descriptor, nor gives a page in use a second one.
LEMMA WalkKept ==
  ASSUME NEW rk, NEW bk, NEW rk2, NEW bk2, NEW u \in Tasks, FreeLocal(u, rk, bk),
         pc'[u] = pc[u], held'[u] = held[u], Act \subseteq Act',
         \A d \in Act : /\ desc'[d].next = desc[d].next /\ desc'[d].page = desc[d].page
                        /\ rk2[d] = rk[d] /\ bk2[d] = bk[d],
         \A d \in Act' : d \in Act \/ \A x \in InUse : desc'[d].page # x.page
  PROVE  FreeLocal(u, rk2, bk2)'
<1> DEFINE l == pc[u]
<1>1. ASSUME Walking(u, bk) PROVE Walking(u, bk2)' /\ \A d \in Act' : desc'[d].page = l.obj.page => d \in Act
  <2>1. Walking(u, bk2)'
    BY <1>1 DEF Walking
  <2>2. l.obj \in InUse
    BY <1>1 DEF Walking, InUse
  <2> QED BY <2>1, <2>2
<1>2. CASE l.at = "compare"
  <2>1. Walking(u, bk)
    BY <1>2 DEF FreeLocal
  <2> QED BY <1>1, <1>2, <2>1 DEF FreeLocal, Walking
<1>3. CASE l.at = "advance"
  <2>1. Walking(u, bk)
    BY <1>3 DEF FreeLocal
  <2> QED BY <1>1, <1>3, <2>1 DEF FreeLocal, Walking
<1>4. CASE l.at = "found"
  <2>1. Walking(u, bk)
    BY <1>4 DEF FreeLocal
  <2> QED BY <1>1, <1>4, <2>1 DEF FreeLocal, Walking
<1>5. CASE l.at \notin {"compare", "advance", "found"}
  BY <1>5 DEF FreeLocal
<1> QED BY <1>2, <1>3, <1>4, <1>5

\* init_bucket_desc keeps the invariant.
LEMMA init_bucket_descStep ==
  ASSUME ~FreeRace, NEW rk \in [Descs -> Nat], NEW bk \in [Descs -> Buckets], NEW now \in Nat,
         Inv(rk, bk, now), NEW t \in Tasks, init_bucket_desc(t)
  PROVE  Inv(rk, bk, now)'
<1> DEFINE l == pc[t]
<1> USE DEF Inv
<1>1. l \in Locals /\ l.at = "scan" /\ Runs(t) /\ l.bdir \in Buckets /\ desc \in [Descs -> DescRecs]
      /\ l.bdesc \in Descs \cup {NULL} /\ l.prev \in Descs \cup {NULL} /\ l.obj \in Objects \cup {NULL}
  BY TypeByName, LocalFields DEF init_bucket_desc, At
<1>2. \A u \in Tasks : u # t => pc[u].at \notin MaskedAt
  BY OthersUnmasked, <1>1
<1>20. ScanLocal(t, bk) /\ FreeLocal(t, rk, bk) /\ UnlinkLocal(t, rk, bk)
  BY DEF ScanLocals, FreeLocals, UnlinkLocals
<1>3. PICK p \in Pages :
         /\ IsAllocPage(p)
         /\ count' = [count EXCEPT ![p] = 1]
         /\ desc' = [d \in Descs |->
              IF d[1] # p THEN desc[d] ELSE [zero EXCEPT !.next = NextInPage(p, d[2])]]
         /\ flags' = [flags EXCEPT ![p] = "PG_kmalloc"]
         /\ free_bucket_desc' = <<p, 1>>
  BY DEF init_bucket_desc
<1>4. l.bdesc = NULL /\ free_bucket_desc = NULL /\ UNCHANGED <<chain, pc, held, masked>>
  BY DEF init_bucket_desc
<1>5. count[p] = 0 /\ flags[p] = "PG_free"
  BY <1>3 DEF IsAllocPage, FreePages, PageUse, TypeOK
<1> DEFINE New == {d \in Descs : d[1] = p}
<1>6. \A d \in Descs : d[1] # p => desc'[d] = desc[d]
  BY <1>3
<1>7. \A d \in New : desc'[d] = [zero EXCEPT !.next = NextInPage(p, d[2])]
  BY <1>3
<1>8. \A i \in 1..DescPerPage : <<p, i>> \in New
  BY DEF Descs
<1>9. \A d \in New : NextInPage(p, d[2]) = IF d[2] < DescPerPage THEN <<p, d[2] + 1>> ELSE NULL
  BY <1>4 DEF NextInPage
<1>10. \A d \in New : d[2] \in 1..DescPerPage /\ (d[2] < DescPerPage => d[2] + 1 \in 1..DescPerPage)
  BY DescPair, KmallocAssumption
<1>11. \A d \in New : NextInPage(p, d[2]) \in New \cup {NULL}
  BY <1>8, <1>9, <1>10
<1>12. 1 \in 1..DescPerPage
  BY KmallocAssumption
<1>30. \A d \in New : /\ desc'[d] \in DescRecs /\ desc'[d].refcnt = 0
                      /\ desc'[d].next = NextInPage(p, d[2])
  <2> SUFFICES ASSUME NEW d \in New
               PROVE  /\ desc'[d] \in DescRecs /\ desc'[d].refcnt = 0
                      /\ desc'[d].next = NextInPage(p, d[2])
    OBVIOUS
  <2> DEFINE n == NextInPage(p, d[2])
  <2>1. n \in Descs \cup {NULL}
    BY <1>11
  <2>2. desc'[d] = [zero EXCEPT !.next = n]
    BY <1>7
  <2> HIDE DEF n
  <2> QED BY <2>1, <2>2, SpareRec DEF n
<1>13. TypeOK'
  <2>1. \A d \in New : desc'[d] \in DescRecs
    BY <1>11, <1>30
  <2>2. desc' \in [Descs -> DescRecs]
    BY <1>1, <1>3, <1>6, <2>1
  <2>3. count' \in [Pages -> 0..1] /\ flags' \in [Pages -> {"PG_free", "PG_kmalloc"}]
    BY <1>3, TypeByName
  <2>4. free_bucket_desc' \in Descs \cup {NULL}
    BY <1>3, <1>8, <1>12
  <2> QED BY <1>4, <2>2, <2>3, <2>4, TypeByName, TypeNext
<1>14. Act \cap New = {} /\ Spare \cap New = {}
  BY <1>5 DEF SpareList, Ready, Spare
<1>15. Act' = Act
  <2>1. Hand' = Hand
    BY <1>4 DEF Hand
  <2>2. \A d \in New : desc'[d].refcnt = 0
    BY <1>30
  <2>3. \A d \in Act : desc'[d] = desc[d]
    BY <1>6, <1>14 DEF Act, Hand
  <2>4. \A d \in Descs \ New : desc'[d] = desc[d]
    BY <1>6
  <2> HIDE DEF New
  <2> QED BY <2>1, <2>2, <2>3, <2>4 DEF Act
<1>16. \A d \in Act : desc'[d] = desc[d]
  BY <1>6, <1>14 DEF Act, Hand
<1>17. Spare' = Spare \cup New
  <2>1. Ready' = Ready \cup New
    BY <1>3, <1>5, DescPair DEF Ready, TypeOK
  <2> QED BY <2>1, <1>14, <1>15 DEF Spare
<1>18. SpareList'
  <2>1. Act' \subseteq Ready'
    BY <1>3, <1>15, DescPair DEF SpareList, Ready, TypeOK
  <2>2. free_bucket_desc' \in Spare'
    BY <1>3, <1>8, <1>12, <1>17
  <2>3. \A d \in Spare : d \in Descs /\ d[1] # p /\ desc'[d] = desc[d]
    BY <1>6, <1>14 DEF Spare, Ready
  <2>4. \A d \in Spare : desc[d].next # NULL => desc[d].next \in Spare /\ desc[d].next \notin New
    BY <1>14 DEF SpareList
  <2>5. \A d \in New : desc'[d].next = NextInPage(p, d[2])
    BY <1>30
  <2>6. \A d \in New : desc'[d].next # NULL => desc'[d].next = <<p, d[2] + 1>> /\ desc'[d].next \in New
    BY <2>5, <1>9, <1>11
  <2>7. \A d \in New : desc'[d].next # <<p, 1>>
    <3>1. \A d \in New : d[2] + 1 # 1
      BY <1>10
    <3>2. \A d \in New : <<p, d[2] + 1>> # <<p, 1>>
      BY <3>1
    <3>3. <<p, 1>> # NULL
      BY <1>8, <1>12, NullApart
    <3> QED BY <2>6, <3>2, <3>3
  <2>8. \A d \in Spare' : desc'[d].next # NULL => desc'[d].next \in Spare' /\ desc'[d].next # free_bucket_desc'
    <3>1. <<p, 1>> \in New /\ free_bucket_desc' = <<p, 1>>
      BY <1>3, <1>8, <1>12
    <3> HIDE DEF New
    <3> QED BY <1>17, <2>3, <2>4, <2>6, <2>7, <3>1
  <2>9. \A d, e \in New : desc'[d].next = desc'[e].next /\ desc'[d].next # NULL => d = e
    <3> SUFFICES ASSUME NEW d \in New, NEW e \in New, desc'[d].next = desc'[e].next, desc'[d].next # NULL
                 PROVE  d = e
      OBVIOUS
    <3>1. <<p, d[2] + 1>> = <<p, e[2] + 1>>
      BY <2>6
    <3>2. d[2] + 1 = e[2] + 1
      BY <3>1
    <3>3. d[2] = e[2]
      BY <1>10, <3>2
    <3>4. d = <<p, d[2]>> /\ e = <<p, e[2]>>
      BY DescPair
    <3> QED BY <3>3, <3>4
  <2>10. \A d, e \in Spare : desc[d].next = desc[e].next /\ desc[d].next # NULL => d = e
    BY DEF SpareList
  <2> HIDE DEF New
  <2>11. \A d, e \in Spare' : desc'[d].next = desc'[e].next /\ desc'[d].next # NULL => d = e
    BY <1>17, <2>3, <2>4, <2>6, <2>9, <2>10
  <2> QED BY <2>1, <2>2, <2>8, <2>11 DEF SpareList
<1>19. PageUse'
  <2>1. \A d \in Act : desc[d].page # p
    BY <1>5 DEF PageUse
  <2>2. /\ count \in [Pages -> 0..1] /\ flags \in [Pages -> {"PG_free", "PG_kmalloc"}]
        /\ \A q \in Pages : q # p => count'[q] = count[q] /\ flags'[q] = flags[q]
        /\ count'[p] = 1 /\ flags'[p] = "PG_kmalloc"
    BY <1>3 DEF TypeOK
  <2>3. \A d \in Act : /\ desc'[d] = desc[d] /\ desc[d].page \in Pages /\ desc[d].page # p
                       /\ count[desc[d].page] = 1 /\ flags[desc[d].page] = "PG_free"
    BY <1>16, <2>1 DEF PageUse
  <2>4. \A q \in Pages : flags'[q] = "PG_kmalloc" => count'[q] = 1
    BY <2>2 DEF PageUse
  <2>5. \A d, e \in Act : desc'[d].page = desc'[e].page => d = e
    BY <2>3 DEF PageUse
  <2>6. \A q \in Pages : count'[q] = 1 =>
          flags'[q] = "PG_kmalloc" \/ \E d \in Act : desc'[d].page = q
    BY <2>2, <2>3 DEF PageUse
  <2> QED BY <1>15, <2>2, <2>3, <2>4, <2>5, <2>6 DEF PageUse
<1>21. PageObjects(bk)' /\ Sorted(rk, bk, now)'
  BY <1>4, <1>15, <1>16, ChainsKept
<1>22. MaskExact' /\ OneFreer'
  BY <1>4 DEF MaskExact, OneFreer, Freeing
<1>23. \A u \in Tasks : FreeLocal(u, rk, bk)'
  BY <1>4, <1>15, <1>16, WalkKept DEF FreeLocals
<1>24. \A u \in Tasks : ScanLocal(u, bk)'
  BY <1>4 DEF ScanLocals, ScanLocal
<1>25. \A u \in Tasks : UnlinkLocal(u, rk, bk)'
  BY <1>1, <1>2, <1>4 DEF UnlinkLocal, MaskedAt
<1> QED BY <1>13, <1>18, <1>19, <1>21, <1>22, <1>23, <1>24, <1>25 DEF ScanLocals,
           FreeLocals, UnlinkLocals

\* The chain of free objects of a new page.
LEMMA FreeChainIs ==
  ASSUME NEW p \in Pages, NEW b \in Buckets
  PROVE  LET f == FreeChain(p, SlotsOf(b)) IN
         /\ f \in Seq(Objects) /\ Len(f) = SlotsOf(b)
         /\ \A i \in 1..Len(f) : f[i].page = p /\ f[i].of = SlotsOf(b) /\ f[i].i = i
<1> DEFINE n == SlotsOf(b)
<1>1. n \in Nat
  BY SlotsOfType
<1>2. \A i \in 1..n : [page |-> p, of |-> n, i |-> i] \in [page : Pages, of : {n}, i : 1..n]
  OBVIOUS
<1>3. \A x \in [page : Pages, of : {n}, i : 1..n] : x \in Objects
  BY DEF Objects
<1> HIDE DEF n
<1> DEFINE f == [i \in 1..n |-> [page |-> p, of |-> n, i |-> i]]
<1>4. f \in [1..n -> Objects]
  BY <1>2, <1>3
<1>5. f \in Seq(Objects) /\ Len(f) = n
  BY <1>1, <1>4
<1>6. \A i \in 1..n : f[i].page = p /\ f[i].of = n /\ f[i].i = i
  OBVIOUS
<1>7. FreeChain(p, SlotsOf(b)) = f
  BY DEF FreeChain, n
<1> HIDE DEF f
<1> QED BY <1>5, <1>6, <1>7 DEF n

\* KmallocNew keeps the invariant when the descriptor is given the latest rank.
LEMMA KmallocNewInv ==
  ASSUME ~FreeRace, NEW rk \in [Descs -> Nat], NEW bk \in [Descs -> Buckets], NEW now \in Nat,
         Inv(rk, bk, now), NEW t \in Tasks, KmallocNew(t),
         NEW d, d = free_bucket_desc, NEW b, b = pc[t].bdir,
         NEW rk2 \in [Descs -> Nat], rk2[d] = now, NEW bk2 \in [Descs -> Buckets], bk2[d] = b,
         \A e \in Descs : e # d => rk2[e] = rk[e] /\ bk2[e] = bk[e]
  PROVE  Inv(rk2, bk2, now + 1)'
<1> DEFINE l == pc[t]
<1> USE DEF Inv
<1>1. l \in Locals /\ l.at = "scan" /\ Runs(t) /\ l.bdir \in Buckets /\ desc \in [Descs -> DescRecs]
      /\ l.bdesc \in Descs \cup {NULL} /\ l.prev \in Descs \cup {NULL} /\ l.obj \in Objects \cup {NULL}
  BY TypeByName, LocalFields DEF KmallocNew, At
<1>2. \A u \in Tasks : u # t => pc[u].at \notin MaskedAt
  BY OthersUnmasked, <1>1
<1>3. PICK p \in Pages :
         /\ IsAllocPage(p)
         /\ count' = [count EXCEPT ![p] = 1]
         /\ free_bucket_desc' = desc[d].next
         /\ desc' = [desc EXCEPT ![d] = [page |-> p, next |-> LinkIn(b, d), refcnt |-> 0,
                                         freeptr |-> FreeChain(p, SlotsOf(b))]]
         /\ chain' = [chain EXCEPT ![b] = d]
         /\ GoTo(t, [pc[t] EXCEPT !.bdesc = d])
  BY DEF KmallocNew
<1>4. l.bdesc = NULL /\ d # NULL /\ UNCHANGED <<flags, held, masked>>
  BY DEF KmallocNew
<1>5. b \in Buckets /\ b \in Requests
  BY <1>1 DEF ScanLocals, ScanLocal
<1>6. d \in Spare /\ d \in Descs /\ d \notin Act /\ flags[d[1]] = "PG_kmalloc"
  BY <1>4 DEF SpareList, Spare, Ready
<1>7. count[p] = 0 /\ flags[p] = "PG_free" /\ \A e \in Act : e \in Descs /\ e # d /\ desc[e].page # p
  <2>1. count[p] = 0
    BY <1>3 DEF IsAllocPage, FreePages
  <2>2. flags[p] = "PG_free"
    BY <2>1 DEF PageUse, TypeOK
  <2>3. \A e \in Act : e \in Descs
    BY DEF Act, Hand
  <2>4. \A e \in Act : desc[e].page # p
    BY <2>1 DEF PageUse
  <2> QED BY <1>6, <2>1, <2>2, <2>3, <2>4
<1> DEFINE f == FreeChain(p, SlotsOf(b))
<1>8. /\ f \in Seq(Objects) /\ Len(f) = SlotsOf(b)
      /\ \A i \in 1..Len(f) : f[i].page = p /\ f[i].of = SlotsOf(b) /\ f[i].i = i
  BY <1>5, FreeChainIs
<1> HIDE DEF f
<1> DEFINE new == [page |-> p, next |-> chain[b], refcnt |-> 0, freeptr |-> f]
<1>9. desc' = [desc EXCEPT ![d] = new]
  BY <1>3 DEF LinkIn, f
<1>10. chain[b] \in Descs \cup {NULL}
  BY <1>5, TypeByName
<1>11. new \in DescRecs
  BY <1>8, <1>10 DEF DescRecs, MaxRefcnt
<1>12. new.page = p /\ new.next = chain[b] /\ new.refcnt = 0 /\ new.freeptr = f
  OBVIOUS
<1> HIDE DEF new
<1>13. desc' \in [Descs -> DescRecs] /\ desc'[d] = new /\ \A e \in Descs : e # d => desc'[e] = desc[e]
  BY <1>1, <1>6, <1>9, <1>11
<1>14. /\ pc' \in [Tasks -> Locals] /\ \A u \in Tasks : u # t => pc'[u] = pc[u]
       /\ pc'[t].at = "scan" /\ pc'[t].bdir = b /\ pc'[t].bdesc = d
  <2> DEFINE m == [at |-> l.at, obj |-> l.obj, bdir |-> l.bdir, bdesc |-> d, prev |-> l.prev]
  <2>1. pc' = [pc EXCEPT ![t] = m]
    BY <1>1, <1>3, SetDesc DEF GoTo
  <2>2. m \in Locals
    BY <1>1, <1>6, LocalMade, LocalFields
  <2> QED BY <1>1, <2>1, <2>2, PcSet
<1>15. TypeOK'
  <2>1. count' \in [Pages -> 0..1] /\ chain' \in [Buckets -> Descs \cup {NULL}]
    <3>1. count \in [Pages -> 0..1] /\ chain \in [Buckets -> Descs \cup {NULL}]
      BY TypeByName
    <3>2. count' \in [Pages -> 0..1]
      BY <1>3, <3>1
    <3>3. chain' \in [Buckets -> Descs \cup {NULL}]
      BY <1>3, <1>6, <3>1
    <3> QED BY <3>2, <3>3
  <2>2. free_bucket_desc' \in Descs \cup {NULL}
    BY <1>1, <1>3, <1>6, DescFields
  <2> QED BY <1>4, <1>13, <1>14, <2>1, <2>2, TypeByName, TypeNext
<1>16. Act' = Act \cup {d}
  <2>1. Hand = {} /\ Hand' = {d}
    BY <1>1, <1>2, <1>4, <1>6, <1>14, NullApart DEF Hand, HandAt, MaskedAt
  <2> QED BY <1>6, <1>12, <1>13, <2>1 DEF Act
<1>17. Ready' = Ready /\ Spare' = Spare \ {d}
  BY <1>4, <1>16 DEF Ready, Spare
<1>18. \A e \in Act : e \in Descs /\ desc'[e] = desc[e] /\ rk2[e] = rk[e] /\ bk2[e] = bk[e]
                      /\ rk[e] \in Nat /\ bk[e] \in Buckets
  BY <1>7, <1>13 DEF Act, Hand
<1>19. rk2[d] = now /\ bk2[d] = b /\ rk2 \in [Descs -> Nat] /\ bk2 \in [Descs -> Buckets]
  BY <1>5, <1>6
<1>20. SpareList'
  <2>1. Act' \subseteq Ready'
    BY <1>6, <1>16, <1>17 DEF SpareList, Spare
  <2>2. \A e \in Spare' : e \in Spare /\ e # d /\ desc'[e] = desc[e]
    BY <1>13, <1>17 DEF Spare, Ready
  <2>3. free_bucket_desc' # NULL => free_bucket_desc' \in Spare'
    BY <1>3, <1>6, <1>17 DEF SpareList
  <2>4. \A e \in Spare' : desc[e].next # NULL => desc[e].next \in Spare' /\ desc[e].next # free_bucket_desc'
    BY <1>3, <1>6, <1>17, <2>2 DEF SpareList
  <2>5. \A e, g \in Spare' : desc[e].next = desc[g].next /\ desc[e].next # NULL => e = g
    BY <2>2 DEF SpareList
  <2> QED BY <2>1, <2>2, <2>3, <2>4, <2>5 DEF SpareList
<1>21. PageUse'
  <2>1. /\ \A q \in Pages : q # p => count'[q] = count[q]
        /\ count'[p] = 1
    BY <1>3 DEF TypeOK
  <2>2. \A e \in Act : /\ desc'[e].page \in Pages /\ desc'[e].page # p
                       /\ count[desc[e].page] = 1 /\ flags[desc[e].page] = "PG_free"
    BY <1>7, <1>18 DEF PageUse
  <2>3. desc'[d].page = p
    BY <1>12, <1>13
  <2>4. \A q \in Pages : flags'[q] = "PG_kmalloc" => count'[q] = 1
    BY <1>4, <2>1 DEF PageUse
  <2>5. \A e, g \in Act' : desc'[e].page = desc'[g].page => e = g
    BY <1>16, <1>18, <2>2, <2>3 DEF PageUse
  <2>6. \A q \in Pages : count'[q] = 1 =>
          flags'[q] = "PG_kmalloc" \/ \E e \in Act' : desc'[e].page = q
    BY <1>4, <1>16, <1>18, <2>1, <2>3 DEF PageUse
  <2>7. \A e \in Act' : /\ desc'[e].page \in Pages
                        /\ count'[desc'[e].page] = 1 /\ flags'[desc'[e].page] = "PG_free"
    BY <1>4, <1>7, <1>16, <1>18, <2>1, <2>2, <2>3
  <2> QED BY <2>4, <2>5, <2>6, <2>7 DEF PageUse
<1>22. InUse' = InUse
  BY <1>4 DEF InUse
<1>23. \A x \in InUse : x.page # p
  BY <1>7 DEF PageObjects
<1>24. PageObjects(bk2)'
  <2>1. ASSUME NEW e \in Act PROVE ObjectsOf(e, bk2)'
    <3>1. Used(desc[e].page)' = Used(desc[e].page) /\ ObjectsOf(e, bk)
      BY <1>18, <1>22 DEF Used, PageObjects
    <3> QED BY <1>18, <1>22, <3>1 DEF ObjectsOf
  <2>2. ObjectsOf(d, bk2)'
    <3>1. Used(desc[d].page)' = {}
      BY <1>12, <1>13, <1>22, <1>23 DEF Used
    <3>2. Cardinality({}) = 0
      BY FS_EmptySet
    <3>3. /\ desc'[d].freeptr = f /\ desc'[d].refcnt = 0 /\ desc'[d].page = p
      BY <1>12, <1>13
    <3>4. \A i, j \in 1..Len(f) : f[i] = f[j] => i = j
      BY <1>8
    <3>5. \A i \in 1..Len(f) : f[i] \notin InUse
      BY <1>8, <1>23
    <3>6. SlotsOf(b) \in Int
      BY <1>5, SlotsOfType
    <3> QED BY <1>8, <1>19, <1>22, <3>1, <3>2, <3>3, <3>4, <3>5, <3>6 DEF ObjectsOf
  <2>3. \A x \in InUse : \E e \in Act' : desc'[e].page = x.page
    BY <1>16, <1>18 DEF PageObjects
  <2> QED BY <1>4, <1>16, <1>22, <2>1, <2>2, <2>3 DEF PageObjects
<1>25. Sorted(rk2, bk2, now + 1)'
  <2>1. \A e \in Act' : rk2[e] < now + 1 /\ bk2[e] \in Requests
    BY <1>5, <1>16, <1>18, <1>19 DEF Sorted
  <2>2. \A e \in Act : rk[e] < now
    BY DEF Sorted
  <2>3. \A e, g \in Act' : bk2[e] = bk2[g] /\ rk2[e] = rk2[g] => e = g
    BY <1>16, <1>18, <1>19, <2>2 DEF Sorted
  <2>4. chain'[b] = d /\ \A c \in Buckets : c # b => chain'[c] = chain[c]
    BY <1>3, <1>5 DEF TypeOK
  <2>5. ASSUME NEW c \in Buckets
        PROVE  /\ chain'[c] = NULL => \A e \in Act' : bk2[e] # c
               /\ chain'[c] # NULL => /\ chain'[c] \in Act' /\ bk2[chain'[c]] = c
                                      /\ \A e \in Act' : bk2[e] = c => rk2[e] <= rk2[chain'[c]]
    <3>1. CASE c = b
      BY <1>4, <1>16, <1>18, <1>19, <2>2, <2>4, <3>1
    <3>2. CASE c # b
      BY <1>16, <1>18, <1>19, <2>4, <3>2 DEF Sorted
    <3> QED BY <3>1, <3>2
  <2>6. desc'[d].next = chain[b]
    BY <1>12, <1>13
  <2>7. /\ chain[b] = NULL => \A e \in Act' : bk2[e] = bk2[d] => rk2[d] <= rk2[e]
        /\ chain[b] # NULL => /\ chain[b] \in Act' /\ bk2[chain[b]] = bk2[d] /\ rk2[chain[b]] < rk2[d]
                              /\ \A e \in Act' : bk2[e] = bk2[d] => rk2[e] <= rk2[chain[b]] \/ rk2[d] <= rk2[e]
    BY <1>5, <1>16, <1>18, <1>19, <2>2 DEF Sorted
  <2>8. ASSUME NEW g \in Act, NEW n, n = desc[g].next
        PROVE  /\ n = NULL => \A e \in Act' : bk2[e] = bk2[g] => rk2[g] <= rk2[e]
               /\ n # NULL => /\ n \in Act' /\ bk2[n] = bk2[g] /\ rk2[n] < rk2[g]
                              /\ \A e \in Act' : bk2[e] = bk2[g] => rk2[e] <= rk2[n] \/ rk2[g] <= rk2[e]
    BY <1>16, <1>18, <1>19, <2>2, <2>8 DEF Sorted
  <2>9. \A g \in Act' : LET n == desc'[g].next IN
       /\ n = NULL => \A e \in Act' : bk2[e] = bk2[g] => rk2[g] <= rk2[e]
       /\ n # NULL => /\ n \in Act' /\ bk2[n] = bk2[g] /\ rk2[n] < rk2[g]
                      /\ \A e \in Act' : bk2[e] = bk2[g] => rk2[e] <= rk2[n] \/ rk2[g] <= rk2[e]
    BY <1>16, <1>18, <2>6, <2>7, <2>8
  <2> QED BY <2>1, <2>3, <2>5, <2>9 DEF Sorted
<1>26. MaskExact' /\ OneFreer'
  BY <1>1, <1>4, <1>14 DEF MaskExact, OneFreer, Freeing
<1>27. \A u \in Tasks : ScanLocal(u, bk2)' /\ UnlinkLocal(u, rk2, bk2)'
  BY <1>2, <1>5, <1>14, <1>19 DEF ScanLocal, UnlinkLocal, MaskedAt
<1>28. \A u \in Tasks : FreeLocal(u, rk2, bk2)'
  <2>1. FreeLocal(t, rk2, bk2)'
    BY <1>14 DEF FreeLocal
  <2>2. ASSUME NEW u \in Tasks, u # t PROVE FreeLocal(u, rk2, bk2)'
    <3>1. \A e \in Act' : e \in Act \/ \A x \in InUse : desc'[e].page # x.page
      BY <1>12, <1>13, <1>16, <1>23
    <3>2. \A e \in Act : /\ desc'[e].next = desc[e].next /\ desc'[e].page = desc[e].page
                         /\ rk2[e] = rk[e] /\ bk2[e] = bk[e]
      BY <1>18
    <3>3. FreeLocal(u, rk, bk) /\ pc'[u] = pc[u] /\ held'[u] = held[u] /\ Act \subseteq Act'
      BY <1>4, <1>14, <1>16, <2>2 DEF FreeLocals
    <3> QED BY <3>1, <3>2, <3>3, WalkKept
  <2> QED BY <2>1, <2>2
<1> QED BY <1>15, <1>20, <1>21, <1>24, <1>25, <1>26, <1>27, <1>28 DEF ScanLocals,
           FreeLocals, UnlinkLocals

\* KmallocNew keeps the invariant.
LEMMA KmallocNewStep ==
  ASSUME ~FreeRace, NEW rk \in [Descs -> Nat], NEW bk \in [Descs -> Buckets], NEW now \in Nat,
         Inv(rk, bk, now), NEW t \in Tasks, KmallocNew(t)
  PROVE  IInv'
<1>1. PICK d \in Descs : d = free_bucket_desc
  BY DEF KmallocNew, Inv, TypeOK
<1>2. PICK b \in Buckets : b = pc[t].bdir
  BY TypeByName, LocalFields DEF Inv
<1> DEFINE rk2 == [rk EXCEPT ![d] = now]
<1> DEFINE bk2 == [bk EXCEPT ![d] = b]
<1>3. /\ rk2 \in [Descs -> Nat] /\ rk2[d] = now /\ bk2 \in [Descs -> Buckets] /\ bk2[d] = b
      /\ \A e \in Descs : e # d => rk2[e] = rk[e] /\ bk2[e] = bk[e]
  OBVIOUS
<1> HIDE DEF rk2, bk2
<1>4. Inv(rk2, bk2, now + 1)'
  BY <1>1, <1>2, <1>3, KmallocNewInv
<1> QED BY <1>3, <1>4 DEF IInv

\* What is left of a descriptor whose first free object is taken.
LEMMA TakenIs ==
  ASSUME NEW x \in DescRecs, x.freeptr # << >>, x.refcnt < MaxRefcnt
  PROVE  /\ Taken(x) \in DescRecs
         /\ Taken(x).page = x.page /\ Taken(x).next = x.next
         /\ Taken(x).freeptr = Tail(x.freeptr) /\ Taken(x).refcnt = x.refcnt + 1
<1> DEFINE f == Tail(x.freeptr)
<1> DEFINE r == x.refcnt + 1
<1>0. /\ x.page \in Pages \cup {NULL} /\ x.next \in Descs \cup {NULL}
      /\ x.freeptr \in Seq(Objects) /\ x.refcnt \in 0..MaxRefcnt
  BY DescFields
<1>1. f \in Seq(Objects) /\ r \in 0..MaxRefcnt
  <2>1. MaxRefcnt \in Nat
    BY DEF MaxRefcnt
  <2> QED BY <1>0, <2>1
<1>2. x = [page |-> x.page, next |-> x.next, freeptr |-> x.freeptr, refcnt |-> x.refcnt]
  BY DEF DescRecs
<1>3. Taken(x) = [page |-> x.page, next |-> x.next, freeptr |-> f, refcnt |-> r]
  <2> DEFINE y == [page |-> x.page, next |-> x.next, freeptr |-> f, refcnt |-> x.refcnt]
  <2>1. [x EXCEPT !.freeptr = Tail(@)] = y
    BY <1>2
  <2>2. Taken(x) = [y EXCEPT !.refcnt = @ + 1]
    BY <2>1 DEF Taken
  <2> QED BY <2>2
<1> HIDE DEF f, r
<1>4. [page |-> x.page, next |-> x.next, freeptr |-> f, refcnt |-> r] \in DescRecs
  BY <1>0, <1>1, DescMade
<1>5. Taken(x).page = x.page /\ Taken(x).next = x.next /\ Taken(x).freeptr = f /\ Taken(x).refcnt = r
  BY <1>3
<1> QED BY <1>3, <1>4, <1>5 DEF f, r

\* What becomes of a descriptor when an object is put back.
LEMMA PutBackIs ==
  ASSUME NEW x \in DescRecs, NEW o \in Objects, x.refcnt > 0
  PROVE  /\ PutBack(x, o) \in DescRecs
         /\ PutBack(x, o).page = x.page /\ PutBack(x, o).next = x.next
         /\ PutBack(x, o).freeptr = <<o>> \o x.freeptr /\ PutBack(x, o).refcnt = x.refcnt - 1
<1> DEFINE f == <<o>> \o x.freeptr
<1> DEFINE r == x.refcnt - 1
<1>0. /\ x.page \in Pages \cup {NULL} /\ x.next \in Descs \cup {NULL}
      /\ x.freeptr \in Seq(Objects) /\ x.refcnt \in 0..MaxRefcnt
  BY DescFields
<1>1. f \in Seq(Objects)
  BY <1>0
<1>2. r \in 0..MaxRefcnt /\ (x.refcnt - 1) % (MaxRefcnt + 1) = r
  <2>1. MaxRefcnt \in Nat /\ MaxRefcnt + 1 = 65536
    BY DEF MaxRefcnt
  <2>2. r \in 0..MaxRefcnt /\ r \in Nat /\ r < MaxRefcnt + 1
    BY <1>0, <2>1
  <2>3. \A n \in Nat : n < 65536 => n % 65536 = n
    OBVIOUS
  <2> HIDE DEF r
  <2>4. r % (MaxRefcnt + 1) = r
    BY <2>1, <2>2, <2>3
  <2> QED BY <2>2, <2>4 DEF r
<1>3. x = [page |-> x.page, next |-> x.next, freeptr |-> x.freeptr, refcnt |-> x.refcnt]
  BY DEF DescRecs
<1>4. PutBack(x, o) = [page |-> x.page, next |-> x.next, freeptr |-> f, refcnt |-> r]
  <2> DEFINE y == [page |-> x.page, next |-> x.next, freeptr |-> f, refcnt |-> x.refcnt]
  <2>1. [x EXCEPT !.freeptr = <<o>> \o @] = y
    <3>1. [x EXCEPT !.freeptr = <<o>> \o @] = [x EXCEPT !.freeptr = f]
      OBVIOUS
    <3> HIDE DEF f
    <3>2. [x EXCEPT !.freeptr = f] = y
      BY <1>3
    <3> QED BY <3>1, <3>2
  <2>2. PutBack(x, o) = [y EXCEPT !.refcnt = (@ - 1) % (MaxRefcnt + 1)]
    BY <2>1 DEF PutBack
  <2>3. [y EXCEPT !.refcnt = (@ - 1) % (MaxRefcnt + 1)] = [y EXCEPT !.refcnt = r]
    BY <1>2
  <2> QED BY <2>2, <2>3
<1> HIDE DEF f, r
<1>5. [page |-> x.page, next |-> x.next, freeptr |-> f, refcnt |-> r] \in DescRecs
  BY <1>0, <1>1, <1>2, DescMade
<1>6. /\ PutBack(x, o).page = x.page /\ PutBack(x, o).next = x.next
      /\ PutBack(x, o).freeptr = f /\ PutBack(x, o).refcnt = r
  BY <1>4
<1> QED BY <1>4, <1>5, <1>6 DEF f, r

\* One more element, and one less.
LEMMA CountAdd ==
  ASSUME NEW S, IsFiniteSet(S), NEW x
  PROVE  /\ x \notin S => Cardinality(S \cup {x}) = Cardinality(S) + 1
         /\ x \in S => Cardinality(S \ {x}) = Cardinality(S) - 1
         /\ x \in S => Cardinality(S) > 0
         /\ Cardinality(S) \in Nat
<1>1. Cardinality(S) \in Nat
  BY FS_CardinalityType
<1>2. x \notin S => Cardinality(S \cup {x}) = Cardinality(S) + 1
  BY FS_AddElement
<1>3. x \in S => Cardinality(S \ {x}) = Cardinality(S) - 1
  BY FS_RemoveElement
<1>4. x \in S => Cardinality(S \ {x}) \in Nat
  BY FS_RemoveElement, FS_CardinalityType
<1> QED BY <1>1, <1>2, <1>3, <1>4

\* KmallocTake keeps the invariant.
LEMMA KmallocTakeStep ==
  ASSUME ~FreeRace, NEW rk \in [Descs -> Nat], NEW bk \in [Descs -> Buckets], NEW now \in Nat,
         Inv(rk, bk, now), NEW t \in Tasks, KmallocTake(t)
  PROVE  Inv(rk, bk, now)'
<1> DEFINE l == pc[t]
<1> USE DEF Inv
<1>1. l \in Locals /\ l.at = "scan" /\ Runs(t) /\ l.bdir \in Buckets /\ desc \in [Descs -> DescRecs]
      /\ l.bdesc \in Descs \cup {NULL} /\ l.prev \in Descs \cup {NULL} /\ l.obj \in Objects \cup {NULL}
  BY TypeByName, LocalFields DEF KmallocTake, At
<1>2. \A u \in Tasks : u # t => pc[u].at \notin MaskedAt
  BY OthersUnmasked, <1>1
<1>20. ScanLocal(t, bk) /\ FreeLocal(t, rk, bk) /\ UnlinkLocal(t, rk, bk)
  BY DEF ScanLocals, FreeLocals, UnlinkLocals
<1>30. PICK d : d = l.bdesc
  OBVIOUS
<1> DEFINE f == desc[d].freeptr
<1> DEFINE o == Head(f)
<1>3. /\ d # NULL /\ f # << >> /\ held' = [held EXCEPT ![t] = @ \cup {o}]
      /\ desc' = [desc EXCEPT ![d] = Taken(desc[d])]
      /\ pc' = [pc EXCEPT ![t] = idle] /\ masked' = NULL
      /\ UNCHANGED <<count, flags, chain, free_bucket_desc>>
  BY <1>30 DEF KmallocTake, GoTo
<1>4. d \in Act /\ d \in Descs /\ desc[d] \in DescRecs
  BY <1>1, <1>3, <1>30 DEF Act, Hand, HandAt
<1>5. /\ f \in Seq(Objects) /\ Len(f) > 0 /\ o = f[1] /\ o \in Objects /\ desc[d].refcnt \in 0..MaxRefcnt
      /\ Len(Tail(f)) = Len(f) - 1 /\ \A i \in 1..Len(Tail(f)) : Tail(f)[i] = f[i + 1]
  BY <1>3, <1>4, DescFields
<1>6. ObjectsOf(d, bk) /\ bk[d] \in Buckets /\ SlotsOf(bk[d]) \in 1..MaxRefcnt
  BY <1>4, SlotsOfType DEF PageObjects
<1>7. /\ o.page = desc[d].page /\ o.of = SlotsOf(bk[d]) /\ o \notin InUse
      /\ desc[d].refcnt < MaxRefcnt /\ desc[d].refcnt + Len(f) = SlotsOf(bk[d])
  <2>1. 1 \in 1..Len(f) /\ Len(f) \in Nat
    BY <1>5
  <2>2. MaxRefcnt \in Nat
    BY DEF MaxRefcnt
  <2>3. desc[d].refcnt + Len(f) = SlotsOf(bk[d])
    BY <1>6 DEF ObjectsOf
  <2>4. desc[d].refcnt < MaxRefcnt
    BY <1>5, <1>6, <2>1, <2>2, <2>3
  <2> QED BY <1>5, <1>6, <2>1, <2>3, <2>4 DEF ObjectsOf
<1> DEFINE new == Taken(desc[d])
<1>8. /\ new \in DescRecs /\ new.page = desc[d].page /\ new.next = desc[d].next
      /\ new.freeptr = Tail(f) /\ new.refcnt = desc[d].refcnt + 1
  BY <1>3, <1>4, <1>7, TakenIs
<1> HIDE DEF new
<1>9. desc' \in [Descs -> DescRecs] /\ desc'[d] = new /\ \A e \in Descs : e # d => desc'[e] = desc[e]
  BY <1>1, <1>3, <1>4, <1>8 DEF new
<1>10. /\ pc' \in [Tasks -> Locals] /\ \A u \in Tasks : u # t => pc'[u] = pc[u]
       /\ pc'[t].at = "idle"
  BY <1>3, IdleLocal, PcSet DEF idle
<1>11. held \in [Tasks -> SUBSET Objects] /\ held'[t] = held[t] \cup {o} /\ \A u \in Tasks : u # t => held'[u] = held[u]
  BY <1>3, TypeByName
<1>12. TypeOK'
  <2>1. held' \in [Tasks -> SUBSET Objects]
    BY <1>3, <1>5, <1>11
  <2> QED BY <1>3, <1>9, <1>10, <2>1, TypeByName, TypeNext
<1>13. InUse' = InUse \cup {o}
  BY <1>11 DEF InUse
<1>14. Act' = Act
  <2>1. Hand = {d} /\ Hand' = {}
    BY <1>1, <1>2, <1>3, <1>4, <1>10, <1>30 DEF Hand, HandAt, MaskedAt
  <2>2. desc'[d].refcnt > 0
    BY <1>5, <1>8, <1>9
  <2> QED BY <1>4, <1>9, <2>1, <2>2 DEF Act
<1>15. \A e \in Act : /\ e \in Descs /\ desc'[e].page = desc[e].page /\ desc'[e].next = desc[e].next
  BY <1>8, <1>9 DEF Act, Hand
<1>16. SpareList'
  <2>1. Ready' = Ready /\ Spare' = Spare
    BY <1>3, <1>14 DEF Ready, Spare
  <2>2. \A e \in Spare : desc'[e] = desc[e]
    BY <1>4, <1>9 DEF Spare, Ready
  <2> QED BY <1>3, <1>14, <2>1, <2>2 DEF SpareList
<1>17. PageUse'
  BY <1>3, <1>14, <1>15 DEF PageUse
<1>18. Sorted(rk, bk, now)'
  BY <1>3, <1>14, <1>15 DEF Sorted
<1>19. PageObjects(bk)'
  <2>1. IsFiniteSet(InUse')
    BY <1>13, FS_AddElement DEF PageObjects
  <2>2. \A x, u \in Tasks : x # u => held'[x] \cap held'[u] = {}
    BY <1>7, <1>11 DEF PageObjects, InUse
  <2>3. \A x \in InUse' : \E e \in Act : desc'[e].page = x.page
    BY <1>4, <1>7, <1>13, <1>15 DEF PageObjects
  <2>4. ASSUME NEW e \in Act, e # d PROVE ObjectsOf(e, bk)'
    <3>1. desc'[e] = desc[e] /\ desc[e].page # o.page
      BY <1>4, <1>7, <1>9, <1>15, <2>4 DEF PageUse
    <3>2. Used(desc[e].page)' = Used(desc[e].page)
      BY <1>13, <3>1 DEF Used
    <3>3. ObjectsOf(e, bk)
      BY DEF PageObjects
    <3>4. \A i \in 1..Len(desc[e].freeptr) : desc[e].freeptr[i] \notin InUse'
      BY <1>13, <3>1, <3>3 DEF ObjectsOf
    <3> QED BY <3>1, <3>2, <3>3, <3>4 DEF ObjectsOf
  <2>5. ObjectsOf(d, bk)'
    <3> DEFINE U == Used(desc[d].page)
    <3>1. Used(desc[d].page)' = U \cup {o} /\ o \notin U /\ U \subseteq InUse
      BY <1>7, <1>8, <1>9, <1>13 DEF Used
    <3>2. IsFiniteSet(U)
      BY <3>1, FS_Subset DEF PageObjects
    <3> HIDE DEF U
    <3>3. Cardinality(U \cup {o}) = Cardinality(U) + 1
      BY <3>1, <3>2, CountAdd
    <3>4. desc[d].refcnt = Cardinality(U) /\ \A x \in U : x.of = SlotsOf(bk[d])
      BY <1>6 DEF ObjectsOf, U
    <3> DEFINE g == Tail(f)
    <3>15. Len(g) = Len(f) - 1 /\ \A i \in 1..Len(g) : g[i] = f[i + 1]
      BY <1>5
    <3>16. f \in Seq(Objects) /\ Len(f) \in Nat /\ o = f[1]
      BY <1>5
    <3>6. \A i \in 1..Len(f) : /\ f[i].page = desc[d].page /\ f[i].of = SlotsOf(bk[d]) /\ f[i] \notin InUse
                               /\ \A j \in 1..Len(f) : f[i] = f[j] => i = j
      BY <1>6 DEF ObjectsOf
    <3> HIDE DEF g, f, o
    <3>5. \A i \in 1..Len(g) : i + 1 \in 1..Len(f) /\ i + 1 # 1
      BY <3>15, <3>16
    <3>7. 1 \in 1..Len(f)
      BY <1>5
    <3>8. ASSUME NEW i \in 1..Len(g) PROVE g[i].page = desc[d].page /\ g[i].of = SlotsOf(bk[d]) /\ g[i] \notin InUse'
      <4>1. i + 1 \in 1..Len(f) /\ i + 1 # 1 /\ g[i] = f[i + 1]
        BY <3>5, <3>15
      <4>2. f[i + 1] # f[1]
        BY <3>6, <3>7, <4>1
      <4> QED BY <1>13, <3>6, <3>16, <4>1, <4>2
    <3>9. ASSUME NEW i \in 1..Len(g), NEW j \in 1..Len(g), g[i] = g[j] PROVE i = j
      <4>1. i + 1 \in 1..Len(f) /\ g[i] = f[i + 1] /\ j + 1 \in 1..Len(f) /\ g[j] = f[j + 1]
        BY <3>5, <3>15
      <4>2. i + 1 = j + 1
        BY <3>6, <3>9, <4>1
      <4> QED BY <4>2
    <3>10. desc'[d].refcnt + Len(g) = SlotsOf(bk[d])
      <4>1. desc'[d].refcnt = desc[d].refcnt + 1
        BY <1>8, <1>9
      <4>2. desc[d].refcnt \in Int
        BY <1>5
      <4>3. desc[d].refcnt + Len(f) = SlotsOf(bk[d])
        BY <1>7
      <4>4. Len(g) = Len(f) - 1 /\ Len(f) \in Int
        BY <3>15, <3>16
      <4>5. (desc[d].refcnt + 1) + (Len(f) - 1) = desc[d].refcnt + Len(f)
        BY <4>2, <4>4
      <4>6. desc'[d].refcnt + Len(g) = (desc[d].refcnt + 1) + (Len(f) - 1)
        BY <4>1, <4>4, Zenon
      <4> QED BY <4>3, <4>5, <4>6, Zenon
    <3>11. desc'[d].freeptr = g /\ desc'[d].page = desc[d].page /\ desc'[d].refcnt = Cardinality(U \cup {o})
      BY <1>8, <1>9, <3>3, <3>4 DEF g
    <3>12. \A x \in U \cup {o} : x.of = SlotsOf(bk[d])
      BY <1>7, <3>4
    <3>13. /\ desc'[d].freeptr = g /\ desc'[d].refcnt + Len(g) = SlotsOf(bk[d])
           /\ \A i \in 1..Len(g) : /\ g[i].page = desc[d].page /\ g[i].of = SlotsOf(bk[d])
                                   /\ g[i] \notin InUse'
                                   /\ \A j \in 1..Len(g) : g[i] = g[j] => i = j
      BY <3>8, <3>9, <3>10, <3>11
    <3> QED BY <3>1, <3>11, <3>12, <3>13 DEF ObjectsOf
  <2> QED BY <1>14, <2>1, <2>2, <2>3, <2>4, <2>5 DEF PageObjects
<1>21. MaskExact' /\ OneFreer'
  BY <1>2, <1>3, <1>10, NullApart DEF MaskExact, OneFreer, Freeing, MaskedAt
<1>22. \A u \in Tasks : ScanLocal(u, bk)' /\ UnlinkLocal(u, rk, bk)'
  BY <1>2, <1>10 DEF ScanLocal, UnlinkLocal, MaskedAt
<1>23. \A u \in Tasks : FreeLocal(u, rk, bk)'
  <2>1. FreeLocal(t, rk, bk)'
    BY <1>10 DEF FreeLocal
  <2>2. ASSUME NEW u \in Tasks, u # t PROVE FreeLocal(u, rk, bk)'
    <3>1. FreeLocal(u, rk, bk) /\ pc'[u] = pc[u] /\ held'[u] = held[u]
      BY <1>10, <1>11, <2>2 DEF FreeLocals
    <3> QED BY <1>14, <1>15, <3>1, WalkKept
  <2> QED BY <2>1, <2>2
<1> QED BY <1>12, <1>16, <1>17, <1>18, <1>19, <1>21, <1>22, <1>23 DEF ScanLocals,
           FreeLocals, UnlinkLocals

\* FreePut keeps the invariant.
LEMMA FreePutStep ==
  ASSUME ~FreeRace, NEW rk \in [Descs -> Nat], NEW bk \in [Descs -> Buckets], NEW now \in Nat,
         Inv(rk, bk, now), NEW t \in Tasks, FreePut(t)
  PROVE  Inv(rk, bk, now)'
<1> DEFINE l == pc[t]
<1> USE DEF Inv
<1>1. l \in Locals /\ l.at = "found" /\ Runs(t) /\ l.bdir \in Buckets /\ desc \in [Descs -> DescRecs]
      /\ l.bdesc \in Descs \cup {NULL} /\ l.prev \in Descs \cup {NULL} /\ l.obj \in Objects \cup {NULL}
  BY TypeByName, LocalFields DEF FreePut, At
<1>2. \A u \in Tasks : u # t => pc[u].at = "idle"
  <2>1. \A u \in Tasks : u # t => pc[u].at \notin MaskedAt
    BY OthersUnmasked, <1>1
  <2>2. t \in Freeing
    BY <1>1 DEF Freeing
  <2>3. \A u \in Tasks : u # t => u \notin Freeing
    BY <2>2 DEF OneFreer, Freeing
  <2> QED BY <2>1, <2>3 DEF Freeing, MaskedAt
<1>20. ScanLocal(t, bk) /\ FreeLocal(t, rk, bk) /\ UnlinkLocal(t, rk, bk)
  BY DEF ScanLocals, FreeLocals, UnlinkLocals
<1>30. PICK d : d = l.bdesc
  OBVIOUS
<1>31. PICK o : o = l.obj
  OBVIOUS
<1> DEFINE f == desc[d].freeptr
<1>3. /\ d # NULL /\ Walking(t, bk) /\ desc[d].page = o.page
      /\ d \in Act /\ bk[d] = l.bdir /\ o \in held[t]
      /\ l.prev # NULL => l.prev \in Act /\ bk[l.prev] = l.bdir /\ desc[l.prev].next = d
  BY <1>1, <1>20, <1>30, <1>31 DEF FreeLocal, Walking
<1>4. d \in Descs /\ desc[d] \in DescRecs /\ bk[d] \in Buckets /\ o \in Objects
  BY <1>1, <1>3, TypeByName DEF Act, Hand
<1>5. /\ f \in Seq(Objects) /\ desc[d].refcnt \in 0..MaxRefcnt /\ SlotsOf(bk[d]) \in 1..MaxRefcnt
      /\ ObjectsOf(d, bk)
  BY <1>3, <1>4, DescFields, SlotsOfType DEF PageObjects
<1> DEFINE U == Used(o.page)
<1>6. o \in InUse /\ o \in U /\ U \subseteq InUse /\ desc[d].refcnt = Cardinality(U)
  BY <1>3, <1>5 DEF InUse, Used, ObjectsOf
<1>7. IsFiniteSet(U)
  BY <1>6, FS_Subset DEF PageObjects
<1>8. desc[d].refcnt > 0 /\ Cardinality(U \ {o}) = desc[d].refcnt - 1
  <2> HIDE DEF U
  <2> QED BY <1>6, <1>7, CountAdd
<1> DEFINE new == PutBack(desc[d], o)
<1>9. /\ new \in DescRecs /\ new.page = desc[d].page /\ new.next = desc[d].next
      /\ new.freeptr = <<o>> \o f /\ new.refcnt = desc[d].refcnt - 1
  BY <1>4, <1>8, PutBackIs
<1> HIDE DEF new
<1>10. /\ desc' = [desc EXCEPT ![d] = new] /\ held' = [held EXCEPT ![t] = @ \ {o}]
       /\ UNCHANGED <<count, flags, chain, free_bucket_desc>>
  BY <1>30, <1>31 DEF FreePut, new
<1>11. desc' \in [Descs -> DescRecs] /\ desc'[d] = new /\ \A e \in Descs : e # d => desc'[e] = desc[e]
  BY <1>1, <1>4, <1>9, <1>10
<1>12. \A e \in Act : e \in Descs /\ desc'[e].page = desc[e].page /\ desc'[e].next = desc[e].next
  BY <1>9, <1>11 DEF Act, Hand
<1>13. held \in [Tasks -> SUBSET Objects] /\ held'[t] = held[t] \ {o} /\ \A u \in Tasks : u # t => held'[u] = held[u]
  BY <1>10, TypeByName
<1> DEFINE Rest == /\ pc' \in [Tasks -> Locals] /\ masked' \in Tasks \cup {NULL}
                   /\ \A u \in Tasks : u # t => pc'[u] = pc[u]
                   /\ Act' = Act
                   /\ MaskExact'
                   /\ ScanLocal(t, bk)' /\ FreeLocal(t, rk, bk)' /\ UnlinkLocal(t, rk, bk)'
<1>14. Hand = {}
  BY <1>1, <1>2 DEF Hand, HandAt
<1>15. ASSUME new.refcnt # 0 PROVE Rest
  <2>1. pc' = [pc EXCEPT ![t] = idle] /\ masked' = NULL
    BY <1>15, <1>30, <1>31 DEF FreePut, GoTo, new
  <2>2. pc' \in [Tasks -> Locals] /\ (\A u \in Tasks : u # t => pc'[u] = pc[u]) /\ pc'[t].at = "idle"
    BY <2>1, IdleLocal, PcSet DEF idle
  <2>3. Hand' = {}
    BY <1>2, <2>2 DEF Hand, HandAt
  <2>4. desc'[d].refcnt > 0
    BY <1>5, <1>8, <1>9, <1>11, <1>15
  <2>5. Act' = Act
    BY <1>4, <1>8, <1>11, <1>14, <2>3, <2>4 DEF Act
  <2>6. MaskExact'
    BY <1>2, <2>1, <2>2, NullApart DEF MaskExact, MaskedAt
  <2>7. ScanLocal(t, bk)' /\ FreeLocal(t, rk, bk)' /\ UnlinkLocal(t, rk, bk)'
    BY <2>2 DEF ScanLocal, FreeLocal, UnlinkLocal
  <2> QED BY <2>1, <2>2, <2>5, <2>6, <2>7
<1>16. ASSUME new.refcnt = 0, NEW a \in {"unlink", "fix_prev"}, NEW p \in Descs \cup {NULL},
              pc' = [pc EXCEPT ![t] = [at |-> a, obj |-> l.obj, bdir |-> l.bdir, bdesc |-> l.bdesc, prev |-> p]],
              p # NULL => p \in Act /\ bk[p] = l.bdir,
              a = "fix_prev" => p # NULL /\ rk[d] < rk[p],
              a = "unlink" => IF p = NULL THEN chain[l.bdir] = d ELSE desc[p].next = d
       PROVE  Rest
  <2> DEFINE m == [at |-> a, obj |-> l.obj, bdir |-> l.bdir, bdesc |-> l.bdesc, prev |-> p]
  <2>1. m \in Locals
    BY <1>1, LocalMade DEF Places
  <2>2. /\ pc' \in [Tasks -> Locals] /\ (\A u \in Tasks : u # t => pc'[u] = pc[u])
        /\ pc'[t].at = a /\ pc'[t].bdir = l.bdir /\ pc'[t].bdesc = d /\ pc'[t].prev = p
    BY <1>16, <1>30, <2>1, PcSet
  <2>3. masked' = t
    BY <1>16, <1>30, <1>31 DEF FreePut, new
  <2>4. Hand' = {d}
    BY <1>2, <1>4, <2>2 DEF Hand, HandAt
  <2>5. Act' = Act
    BY <1>3, <1>4, <1>8, <1>11, <1>14, <2>4 DEF Act
  <2>6. MaskExact'
    BY <1>2, <2>2, <2>3, NullApart DEF MaskExact, MaskedAt
  <2>7. ScanLocal(t, bk)' /\ FreeLocal(t, rk, bk)'
    BY <2>2 DEF ScanLocal, FreeLocal
  <2>8. desc'[d].refcnt = 0 /\ (p # NULL => desc'[p].next = desc[p].next)
    BY <1>11, <1>12, <1>16
  <2>9. UnlinkLocal(t, rk, bk)'
    BY <1>3, <1>10, <1>16, <2>2, <2>5, <2>8 DEF UnlinkLocal
  <2> QED BY <2>2, <2>3, <2>5, <2>6, <2>7, <2>9
<1>17. ASSUME new.refcnt = 0, Accurate(l) PROVE Rest
  <2>1. pc' = [pc EXCEPT ![t] = [l EXCEPT !.at = "unlink"]]
    BY <1>17, <1>30, <1>31 DEF FreePut, GoTo, new
  <2>2. pc' = [pc EXCEPT ![t] = [at |-> "unlink", obj |-> l.obj, bdir |-> l.bdir, bdesc |-> l.bdesc, prev |-> l.prev]]
    BY <1>1, <2>1, SetAt
  <2>3. IF l.prev = NULL THEN chain[l.bdir] = d ELSE desc[l.prev].next = d
    BY <1>17, <1>30 DEF Accurate
  <2> QED BY <1>1, <1>3, <1>16, <1>17, <2>2, <2>3
<1>18. ASSUME new.refcnt = 0, ~Accurate(l) PROVE Rest
  <2> DEFINE c == chain[l.bdir]
  <2>1. pc' = [pc EXCEPT ![t] = [l EXCEPT !.at = "fix_prev", !.prev = c]]
    BY <1>18, <1>30, <1>31 DEF FreePut, GoTo, new
  <2>2. c \in Descs \cup {NULL}
    BY <1>1, TypeByName
  <2>3. c # d
    BY <1>3, <1>18, <1>30 DEF Accurate
  <2>4. c # NULL /\ c \in Act /\ bk[c] = l.bdir /\ rk[d] <= rk[c]
    BY <1>1, <1>3 DEF Sorted
  <2>5. rk[d] # rk[c] /\ rk[d] \in Nat /\ rk[c] \in Nat
    BY <1>3, <1>4, <2>2, <2>3, <2>4 DEF Sorted
  <2>6. rk[d] < rk[c]
    BY <2>4, <2>5
  <2> HIDE DEF c
  <2>7. pc' = [pc EXCEPT ![t] = [at |-> "fix_prev", obj |-> l.obj, bdir |-> l.bdir, bdesc |-> l.bdesc, prev |-> c]]
    <3>1. \A x, y : [l EXCEPT !.at = x, !.prev = y] =
            [at |-> x, obj |-> l.obj, bdir |-> l.bdir, bdesc |-> l.bdesc, prev |-> y]
      BY <1>1, SetAtPrev
    <3>2. [l EXCEPT !.at = "fix_prev", !.prev = c] =
            [at |-> "fix_prev", obj |-> l.obj, bdir |-> l.bdir, bdesc |-> l.bdesc, prev |-> c]
      BY <3>1
    <3> QED BY <2>1, <3>2, Zenon
  <2> QED BY <1>16, <1>18, <2>2, <2>4, <2>6, <2>7
<1>19. Rest
  BY <1>15, <1>17, <1>18
<1>21. TypeOK'
  <2>1. held' \in [Tasks -> SUBSET Objects]
    BY <1>10, <1>13
  <2> QED BY <1>10, <1>11, <1>19, <2>1, TypeByName, TypeNext
<1>22. InUse' = InUse \ {o}
  BY <1>3, <1>13 DEF InUse, PageObjects
<1>23. SpareList'
  <2>1. Ready' = Ready /\ Spare' = Spare
    BY <1>10, <1>19 DEF Ready, Spare
  <2>2. \A e \in Spare : desc'[e] = desc[e]
    BY <1>3, <1>11 DEF Spare, Ready
  <2> QED BY <1>10, <1>19, <2>1, <2>2 DEF SpareList
<1>24. PageUse'
  BY <1>10, <1>12, <1>19 DEF PageUse
<1>25. Sorted(rk, bk, now)'
  BY <1>10, <1>12, <1>19 DEF Sorted
<1>26. PageObjects(bk)'
  <2>1. IsFiniteSet(InUse')
    BY <1>22, FS_Subset DEF PageObjects
  <2>2. \A x, u \in Tasks : x # u => held'[x] \cap held'[u] = {}
    BY <1>13 DEF PageObjects
  <2>3. \A x \in InUse' : \E e \in Act : desc'[e].page = x.page
    BY <1>12, <1>22 DEF PageObjects
  <2>4. ASSUME NEW e \in Act, e # d PROVE ObjectsOf(e, bk)'
    <3>1. desc'[e] = desc[e] /\ desc[e].page # o.page
      BY <1>3, <1>11, <1>12, <2>4 DEF PageUse
    <3>2. Used(desc[e].page)' = Used(desc[e].page)
      BY <1>22, <3>1 DEF Used
    <3>3. ObjectsOf(e, bk)
      BY DEF PageObjects
    <3>4. \A i \in 1..Len(desc[e].freeptr) : desc[e].freeptr[i] \notin InUse'
      BY <1>22, <3>1, <3>3 DEF ObjectsOf
    <3> QED BY <3>1, <3>2, <3>3, <3>4 DEF ObjectsOf
  <2>5. ObjectsOf(d, bk)'
    <3>1. Used(desc[d].page)' = U \ {o}
      BY <1>3, <1>9, <1>11, <1>22 DEF Used
    <3> DEFINE g == <<o>> \o f
    <3>2. \A i \in 1..Len(f) : /\ f[i].page = desc[d].page /\ f[i].of = SlotsOf(bk[d]) /\ f[i] \notin InUse
                               /\ \A j \in 1..Len(f) : f[i] = f[j] => i = j
      BY <1>5 DEF ObjectsOf
    <3>3. (\A x \in U : x.of = SlotsOf(bk[d])) /\ desc[d].refcnt + Len(f) = SlotsOf(bk[d])
      BY <1>3, <1>5 DEF ObjectsOf
    <3>4. /\ Len(f) \in Nat /\ Len(g) = Len(f) + 1 /\ g[1] = o
          /\ \A i \in 1..Len(g) : i # 1 => i - 1 \in 1..Len(f) /\ g[i] = f[i - 1]
      BY <1>4, <1>5
    <3>5. desc'[d].freeptr = g /\ desc'[d].page = desc[d].page /\ desc'[d].refcnt = Cardinality(U \ {o})
      BY <1>8, <1>9, <1>11
    <3>6. desc'[d].refcnt + Len(g) = SlotsOf(bk[d])
      <4>1. desc'[d].refcnt = desc[d].refcnt - 1 /\ desc[d].refcnt \in Int
        BY <1>5, <1>9, <1>11
      <4>2. Len(g) = Len(f) + 1 /\ Len(f) \in Int
        BY <3>4
      <4> HIDE DEF g, f
      <4>5. desc[d].refcnt \in Int
        BY <4>1
      <4>6. Len(f) \in Int
        BY <4>2
      <4>3. (desc[d].refcnt - 1) + (Len(f) + 1) = desc[d].refcnt + Len(f)
        BY <4>5, <4>6
      <4>4. desc'[d].refcnt + Len(g) = (desc[d].refcnt - 1) + (Len(f) + 1)
        BY <4>1, <4>2, Zenon
      <4> QED BY <3>3, <4>3, <4>4, Zenon
    <3> HIDE DEF g, f, U
    <3>7. ASSUME NEW i \in 1..Len(g)
          PROVE  g[i].page = desc[d].page /\ g[i].of = SlotsOf(bk[d]) /\ g[i] \notin InUse' /\ (i # 1 => g[i] # o)
      BY <1>3, <1>6, <1>22, <3>2, <3>3, <3>4
    <3>8. ASSUME NEW i \in 1..Len(g), NEW j \in 1..Len(g), g[i] = g[j] PROVE i = j
      <4>1. CASE i = 1 \/ j = 1
        BY <3>4, <3>7, <3>8, <4>1
      <4>2. CASE i # 1 /\ j # 1
        <5>1. i - 1 \in 1..Len(f) /\ j - 1 \in 1..Len(f) /\ f[i - 1] = f[j - 1]
          BY <3>4, <3>8, <4>2
        <5>2. i - 1 = j - 1
          BY <3>2, <5>1
        <5> QED BY <5>2, <3>4
      <4> QED BY <4>1, <4>2
    <3>9. \A x \in U \ {o} : x.of = SlotsOf(bk[d])
      BY <3>3
    <3> QED BY <3>1, <3>5, <3>6, <3>7, <3>8, <3>9 DEF ObjectsOf
  <2> QED BY <1>19, <2>1, <2>2, <2>3, <2>4, <2>5 DEF PageObjects
<1>27. OneFreer'
  BY <1>2, <1>19 DEF OneFreer, Freeing
<1>28. \A u \in Tasks : ScanLocal(u, bk)' /\ FreeLocal(u, rk, bk)' /\ UnlinkLocal(u, rk, bk)'
  BY <1>2, <1>19 DEF ScanLocal, FreeLocal, UnlinkLocal
<1> QED BY <1>19, <1>21, <1>23, <1>24, <1>25, <1>26, <1>27, <1>28 DEF ScanLocals,
           FreeLocals, UnlinkLocals

\* A descriptor that is linked to another one.
LEMMA NextSet ==
  ASSUME NEW x \in DescRecs, NEW n \in Descs \cup {NULL}
  PROVE  /\ [x EXCEPT !.next = n] \in DescRecs
         /\ [x EXCEPT !.next = n].page = x.page /\ [x EXCEPT !.next = n].next = n
         /\ [x EXCEPT !.next = n].freeptr = x.freeptr /\ [x EXCEPT !.next = n].refcnt = x.refcnt
<1>1. x = [page |-> x.page, next |-> x.next, freeptr |-> x.freeptr, refcnt |-> x.refcnt]
  BY DEF DescRecs
<1>2. [x EXCEPT !.next = n] = [page |-> x.page, next |-> n, freeptr |-> x.freeptr, refcnt |-> x.refcnt]
  BY <1>1
<1>3. [x EXCEPT !.next = n] \in DescRecs
  <2>1. /\ x.page \in Pages \cup {NULL} /\ x.freeptr \in Seq(Objects) /\ x.refcnt \in 0..MaxRefcnt
    BY DescFields
  <2>2. [page |-> x.page, next |-> n, freeptr |-> x.freeptr, refcnt |-> x.refcnt] \in DescRecs
    BY <2>1, DescMade
  <2> QED BY <1>2, <2>2
<1> QED BY <1>2, <1>3

\* FreeUnlink keeps the invariant.
LEMMA FreeUnlinkStep ==
  ASSUME ~FreeRace, NEW rk \in [Descs -> Nat], NEW bk \in [Descs -> Buckets], NEW now \in Nat,
         Inv(rk, bk, now), NEW t \in Tasks, FreeUnlink(t)
  PROVE  Inv(rk, bk, now)'
<1> DEFINE l == pc[t]
<1> USE DEF Inv
<1>1. l \in Locals /\ l.at = "unlink" /\ Runs(t) /\ l.bdir \in Buckets /\ desc \in [Descs -> DescRecs]
      /\ l.bdesc \in Descs \cup {NULL} /\ l.prev \in Descs \cup {NULL} /\ l.obj \in Objects \cup {NULL}
  BY TypeByName, LocalFields DEF FreeUnlink, At
<1>2. \A u \in Tasks : u # t => pc[u].at = "idle"
  <2>1. \A u \in Tasks : u # t => pc[u].at \notin MaskedAt
    BY OthersUnmasked, <1>1
  <2>2. t \in Freeing
    BY <1>1 DEF Freeing
  <2>3. \A u \in Tasks : u # t => u \notin Freeing
    BY <2>2 DEF OneFreer, Freeing
  <2> QED BY <2>1, <2>3 DEF Freeing, MaskedAt
<1>20. ScanLocal(t, bk) /\ FreeLocal(t, rk, bk) /\ UnlinkLocal(t, rk, bk)
  BY DEF ScanLocals, FreeLocals, UnlinkLocals
<1>30. PICK d : d = l.bdesc
  OBVIOUS
<1>31. PICK p : p = l.prev
  OBVIOUS
<1>32. PICK b : b = l.bdir
  OBVIOUS
<1> DEFINE n == desc[d].next
<1> DEFINE q == desc[d].page
<1>3. /\ d # NULL /\ bk[d] = b /\ desc[d].refcnt = 0 /\ b \in Buckets
      /\ p # NULL => p \in Act /\ bk[p] = b /\ desc[p].next = d
      /\ p = NULL => chain[b] = d
  BY <1>1, <1>20, <1>30, <1>31, <1>32 DEF UnlinkLocal
<1>4. d \in Act /\ d \in Descs
  BY <1>1, <1>3, <1>30 DEF Act, Hand, HandAt
<1>5. p # d /\ (p # NULL => p \in Descs) /\ (p # NULL => rk[d] < rk[p])
  <2>1. \A e \in Act : e \in Descs /\ rk[e] \in Nat
    BY DEF Act, Hand
  <2>2. p # NULL => p \in Act /\ rk[d] < rk[p]
    BY <1>3 DEF Sorted
  <2> QED BY <1>3, <1>4, <2>1, <2>2
<1>6. /\ q \in Pages /\ count[q] = 1 /\ flags[q] = "PG_free"
      /\ \A e \in Act : e # d => desc[e].page # q
  BY <1>4 DEF PageUse
<1>7. /\ desc' = [x \in Descs |->
           IF x = d THEN [desc[d] EXCEPT !.next = free_bucket_desc]
           ELSE IF x = p THEN [desc[x] EXCEPT !.next = n] ELSE desc[x]]
      /\ chain' = IF p = NULL THEN [chain EXCEPT ![b] = n] ELSE chain
      /\ flags' = [flags EXCEPT ![q] = "PG_free"]
      /\ count' = [count EXCEPT ![q] = @ - 1]
      /\ free_bucket_desc' = d
      /\ pc' = [pc EXCEPT ![t] = idle] /\ masked' = NULL /\ held' = held
  BY <1>30, <1>31, <1>32 DEF FreeUnlink, free_page, GoTo
<1>8. /\ n \in Descs \cup {NULL} /\ free_bucket_desc \in Descs \cup {NULL}
      /\ \A e \in Descs : desc[e] \in DescRecs
  BY <1>1, <1>4, DescFields, TypeByName
<1>9. /\ desc'[d] \in DescRecs /\ desc'[d].next = free_bucket_desc
      /\ desc'[d].refcnt = 0
  <2>1. desc'[d] = [desc[d] EXCEPT !.next = free_bucket_desc]
    BY <1>4, <1>7
  <2> QED BY <1>3, <1>4, <1>8, <2>1, NextSet
<1>10. p # NULL => /\ desc'[p] \in DescRecs /\ desc'[p].next = n /\ desc'[p].page = desc[p].page
                   /\ desc'[p].refcnt = desc[p].refcnt /\ desc'[p].freeptr = desc[p].freeptr
  <2>1. p # NULL => desc'[p] = [desc[p] EXCEPT !.next = n]
    BY <1>5, <1>7
  <2>2. PICK m \in Descs \cup {NULL} : m = n
    BY <1>8
  <2>3. p # NULL => desc[p] \in DescRecs
    BY <1>5, <1>8
  <2>4. p # NULL => desc'[p] = [desc[p] EXCEPT !.next = m]
    BY <2>1, <2>2
  <2>5. ASSUME NEW x \in DescRecs
        PROVE  /\ [x EXCEPT !.next = m] \in DescRecs
               /\ [x EXCEPT !.next = m].page = x.page /\ [x EXCEPT !.next = m].next = m
               /\ [x EXCEPT !.next = m].freeptr = x.freeptr /\ [x EXCEPT !.next = m].refcnt = x.refcnt
    BY NextSet
  <2> HIDE DEF n
  <2> QED BY <2>2, <2>3, <2>4, <2>5
<1>11. \A e \in Descs : e # d /\ e # p => desc'[e] = desc[e]
  BY <1>7
<1>12. \A e \in Descs : e # d => /\ desc'[e].page = desc[e].page /\ desc'[e].refcnt = desc[e].refcnt
                                 /\ desc'[e].freeptr = desc[e].freeptr
                                 /\ (e # p => desc'[e].next = desc[e].next)
  BY <1>5, <1>10, <1>11, NullApart
<1>13. flags' = flags /\ count'[q] = 0 /\ \A r \in Pages : r # q => count'[r] = count[r]
  <2>1. flags' = flags
    BY <1>6, <1>7, TypeByName
  <2>2. count'[q] = 0 /\ \A r \in Pages : r # q => count'[r] = count[r]
    BY <1>6, <1>7, TypeByName
  <2> QED BY <2>1, <2>2
<1>14. /\ pc' \in [Tasks -> Locals] /\ \A u \in Tasks : u # t => pc'[u] = pc[u]
       /\ pc'[t].at = "idle"
  BY <1>7, IdleLocal, PcSet DEF idle
<1>15. TypeOK'
  <2>1. desc' \in [Descs -> DescRecs]
    <3>1. \A e \in Descs : desc'[e] \in DescRecs
      BY <1>5, <1>8, <1>9, <1>10, <1>11, NullApart
    <3>2. desc' = [x \in Descs |-> desc'[x]]
      BY <1>7
    <3> QED BY <3>1, <3>2
  <2>2. count' \in [Pages -> 0..1]
    <3>1. count \in [Pages -> 0..1]
      BY TypeByName
    <3> HIDE DEF q
    <3> QED BY <1>6, <1>7, <1>13, <3>1
  <2>3. chain' \in [Buckets -> Descs \cup {NULL}]
    <3>1. chain \in [Buckets -> Descs \cup {NULL}]
      BY TypeByName
    <3> HIDE DEF n
    <3> QED BY <1>3, <1>7, <1>8, <3>1
  <2> QED BY <1>4, <1>7, <1>13, <1>14, <2>1, <2>2, <2>3, TypeByName, TypeNext
<1>16. Act' = Act \ {d}
  <2>1. Hand = {d} /\ Hand' = {}
    BY <1>1, <1>2, <1>4, <1>14, <1>30 DEF Hand, HandAt
  <2> QED BY <1>9, <1>12, <2>1 DEF Act
<1>17. Ready' = Ready /\ Spare' = Spare \cup {d}
  <2>1. d \in Ready
    BY <1>4 DEF SpareList
  <2> QED BY <1>13, <1>16, <2>1 DEF Ready, Spare
<1>18. SpareList'
  <2>1. \A e \in Spare : e # d /\ e # p /\ e \in Descs /\ desc'[e] = desc[e]
    BY <1>3, <1>4, <1>11, NullApart DEF Spare, Ready
  <2>2. Act' \subseteq Ready'
    BY <1>16, <1>17 DEF SpareList
  <2>3. \A e \in Spare' : desc'[e].next # NULL =>
          desc'[e].next \in Spare' /\ desc'[e].next # free_bucket_desc'
    <3>1. free_bucket_desc # NULL => free_bucket_desc \in Spare
      BY DEF SpareList
    <3>2. \A e \in Spare : desc[e].next # NULL => desc[e].next \in Spare
      BY DEF SpareList
    <3>3. d \notin Spare
      BY <2>1
    <3>4. free_bucket_desc' = d
      BY <1>7
    <3>5. desc'[d].next = free_bucket_desc
      BY <1>9
    <3>6. \A e \in Spare : desc'[e].next # NULL => desc'[e].next \in Spare
      BY <2>1, <3>2
    <3> QED BY <1>17, <3>1, <3>3, <3>4, <3>5, <3>6
  <2>4. \A e, g \in Spare' : desc'[e].next = desc'[g].next /\ desc'[e].next # NULL => e = g
    BY <1>9, <1>17, <2>1 DEF SpareList
  <2> QED BY <1>7, <1>17, <2>2, <2>3, <2>4 DEF SpareList
<1>19. \A e \in Act' : /\ e \in Act /\ e # d /\ e \in Descs /\ rk[e] \in Nat
                       /\ desc'[e].page = desc[e].page /\ desc'[e].refcnt = desc[e].refcnt
                       /\ desc'[e].freeptr = desc[e].freeptr
                       /\ (e # p => desc'[e].next = desc[e].next)
  BY <1>12, <1>16 DEF Act, Hand
<1>21. PageUse'
  <2> HIDE DEF q
  <2>1. \A r \in Pages : flags'[r] = "PG_kmalloc" => count'[r] = 1
    BY <1>6, <1>13 DEF PageUse
  <2>2. \A e \in Act' : /\ desc'[e].page \in Pages
                        /\ count'[desc'[e].page] = 1 /\ flags'[desc'[e].page] = "PG_free"
    BY <1>6, <1>13, <1>19 DEF PageUse
  <2>3. \A e, g \in Act' : desc'[e].page = desc'[g].page => e = g
    BY <1>19 DEF PageUse
  <2>4. \A r \in Pages : count'[r] = 1 => flags'[r] = "PG_kmalloc" \/ \E e \in Act' : desc'[e].page = r
    BY <1>13, <1>16, <1>19 DEF PageUse, q
  <2> QED BY <2>1, <2>2, <2>3, <2>4 DEF PageUse
<1>22. InUse' = InUse
  BY <1>7 DEF InUse
<1>23. \A x \in InUse : x.page # q
  <2>1. Used(q) \subseteq InUse /\ Cardinality(Used(q)) = 0
    BY <1>3, <1>4 DEF Used, PageObjects, ObjectsOf
  <2>2. IsFiniteSet(Used(q))
    BY <2>1, FS_Subset DEF PageObjects
  <2>3. Used(q) = {}
    BY <2>1, <2>2, FS_EmptySet
  <2> QED BY <2>3 DEF Used
<1>24. PageObjects(bk)'
  <2>1. ASSUME NEW e \in Act' PROVE ObjectsOf(e, bk)'
    <3>1. ObjectsOf(e, bk)
      BY <1>19 DEF PageObjects
    <3>2. Used(desc[e].page)' = Used(desc[e].page)
      BY <1>19, <1>22 DEF Used
    <3> QED BY <1>19, <1>22, <3>1, <3>2 DEF ObjectsOf
  <2>2. \A x \in InUse : \E e \in Act' : desc'[e].page = x.page
    BY <1>16, <1>19, <1>23 DEF PageObjects
  <2> QED BY <1>7, <1>22, <2>1, <2>2 DEF PageObjects
<1>25. Sorted(rk, bk, now)'
  <2>1. \A e \in Act : rk[e] \in Nat /\ bk[e] \in Buckets
    BY DEF Act, Hand
  <2>2. (\A e \in Act' : rk[e] < now /\ bk[e] \in Requests)
        /\ \A e, g \in Act' : bk[e] = bk[g] /\ rk[e] = rk[g] => e = g
    BY <1>19 DEF Sorted
  <2>3. /\ n = NULL => \A e \in Act : bk[e] = b => rk[d] <= rk[e]
        /\ n # NULL => /\ n \in Act' /\ bk[n] = b /\ rk[n] < rk[d]
                       /\ \A e \in Act : bk[e] = b => rk[e] <= rk[n] \/ rk[d] <= rk[e]
    BY <1>3, <1>4, <1>16, <2>1 DEF Sorted
  <2>4. \A e \in Act' : bk[e] = b => rk[e] # rk[d]
    BY <1>3, <1>4, <1>19 DEF Sorted
  <2>5. ASSUME NEW c \in Buckets
        PROVE  /\ chain'[c] = NULL => \A e \in Act' : bk[e] # c
               /\ chain'[c] # NULL => /\ chain'[c] \in Act' /\ bk[chain'[c]] = c
                                      /\ \A e \in Act' : bk[e] = c => rk[e] <= rk[chain'[c]]
    <3>1. CASE c = b /\ p = NULL
      <4>1. chain'[c] = n
        BY <1>7, <3>1, TypeByName
      <4>2. \A e \in Act' : bk[e] = b => rk[e] < rk[d]
        BY <1>3, <1>19, <2>1, <2>4, <3>1 DEF Sorted
      <4> HIDE DEF n
      <4> QED BY <1>4, <1>19, <2>1, <2>3, <4>1, <4>2, <3>1
    <3>2. CASE c # b \/ p # NULL
      <4>1. chain'[c] = chain[c]
        BY <1>7, <3>2, TypeByName
      <4>2. chain[c] # d
        BY <1>3, <1>4, <1>5, <2>1, <3>2 DEF Sorted
      <4>3. /\ chain[c] = NULL => \A e \in Act : bk[e] # c
            /\ chain[c] # NULL => /\ chain[c] \in Act /\ bk[chain[c]] = c
                                  /\ \A e \in Act : bk[e] = c => rk[e] <= rk[chain[c]]
        BY DEF Sorted
      <4> QED BY <1>16, <4>1, <4>2, <4>3
    <3> QED BY <3>1, <3>2
  <2>6. ASSUME NEW g \in Act', NEW m, m = desc'[g].next
        PROVE  /\ m = NULL => \A e \in Act' : bk[e] = bk[g] => rk[g] <= rk[e]
               /\ m # NULL => /\ m \in Act' /\ bk[m] = bk[g] /\ rk[m] < rk[g]
                              /\ \A e \in Act' : bk[e] = bk[g] => rk[e] <= rk[m] \/ rk[g] <= rk[e]
    <3>1. CASE g = p
      <4>1. p # NULL /\ m = n /\ bk[p] = b /\ rk[d] < rk[p]
        BY <1>3, <1>5, <1>10, <1>19, <2>6, <3>1, NullApart
      <4>2. \A e \in Act : bk[e] = b => rk[e] <= rk[d] \/ rk[p] <= rk[e]
        BY <1>3, <1>4, <4>1, NullApart DEF Sorted
      <4>3. \A e \in Act' : bk[e] = b => rk[e] < rk[d] \/ rk[p] <= rk[e]
        BY <1>4, <1>19, <2>1, <2>4, <4>2
      <4> HIDE DEF n
      <4> QED BY <1>3, <1>4, <1>19, <2>1, <2>3, <3>1, <4>1, <4>3
    <3>2. CASE g # p
      <4>1. m = desc[g].next
        BY <1>19, <2>6, <3>2
      <4>2. m # d
        <5> SUFFICES ASSUME m = d PROVE FALSE
          OBVIOUS
        <5>1. bk[g] = b /\ rk[d] < rk[g] /\ g \in Act
          BY <1>3, <1>19, <4>1 DEF Sorted
        <5>2. p # NULL
          BY <1>3, <1>4, <2>1, <5>1 DEF Sorted
        <5>3. p \in Act /\ bk[p] = b /\ desc[p].next = d /\ rk[d] < rk[p]
          BY <1>3, <1>5, <5>2
        <5>4. rk[p] <= rk[g]
          BY <1>3, <1>4, <2>1, <5>1, <5>3 DEF Sorted
        <5>5. rk[g] <= rk[p]
          BY <1>3, <1>4, <2>1, <4>1, <5>1, <5>3 DEF Sorted
        <5>6. rk[g] = rk[p]
          BY <2>1, <5>1, <5>3, <5>4, <5>5
        <5> QED BY <3>2, <5>1, <5>3, <5>6 DEF Sorted
      <4>3. /\ m = NULL => \A e \in Act : bk[e] = bk[g] => rk[g] <= rk[e]
            /\ m # NULL => /\ m \in Act /\ bk[m] = bk[g] /\ rk[m] < rk[g]
                           /\ \A e \in Act : bk[e] = bk[g] => rk[e] <= rk[m] \/ rk[g] <= rk[e]
        BY <1>19, <4>1 DEF Sorted
      <4> QED BY <1>16, <4>2, <4>3
    <3> QED BY <3>1, <3>2
  <2> QED BY <2>2, <2>5, <2>6 DEF Sorted
<1>26. MaskExact' /\ OneFreer'
  BY <1>2, <1>7, <1>14, NullApart DEF MaskExact, OneFreer, Freeing, MaskedAt
<1>27. \A u \in Tasks : ScanLocal(u, bk)' /\ FreeLocal(u, rk, bk)' /\ UnlinkLocal(u, rk, bk)'
  BY <1>2, <1>14 DEF ScanLocal, FreeLocal, UnlinkLocal
<1> QED BY <1>15, <1>18, <1>21, <1>24, <1>25, <1>26, <1>27 DEF ScanLocals, FreeLocals,
           UnlinkLocals

(***************************************************************************)
(* The theorems.                                                           *)
(***************************************************************************)
\* The invariant holds before the first call.
LEMMA InitInv == Init => IInv
<1> SUFFICES ASSUME Init PROVE IInv
  OBVIOUS
<1> DEFINE rk == [d \in Descs |-> 0]
<1> DEFINE bk == [d \in Descs |-> 1]
<1>0. 1 \in Buckets
  BY KmallocAssumption DEF Buckets, EndMarker
<1>1. rk \in [Descs -> Nat] /\ bk \in [Descs -> Buckets] /\ 0 \in Nat
  BY <1>0
<1> HIDE DEF rk, bk
<1>2. \A t \in Tasks : pc[t] = idle /\ pc[t].at = "idle"
  BY DEF Init, idle
<1>3. \A d \in Descs : desc[d] = zero /\ desc[d].refcnt = 0
  BY DEF Init, zero
<1>4. Hand = {} /\ Act = {}
  BY <1>2, <1>3 DEF Hand, Act, HandAt
<1>5. Spare = {}
  BY DescPair DEF Init, Spare, Ready
<1>6. InUse = {}
  BY DEF Init, InUse
<1>7. TypeOK
  <2>1. zero \in DescRecs
    <3>1. << >> \in Seq(Objects) /\ 0 \in 0..MaxRefcnt
      BY DEF MaxRefcnt
    <3> QED BY <3>1, DescMade DEF zero
  <2>2. pc \in [Tasks -> Locals] /\ desc \in [Descs -> DescRecs]
    BY <2>1, IdleLocal DEF Init
  <2> QED BY <2>2, TypeByName DEF Init
<1>8. MaskExact /\ OneFreer
  BY <1>2, NullApart DEF MaskExact, OneFreer, Freeing, MaskedAt, Init
<1>9. SpareList /\ PageUse
  BY <1>4, <1>5 DEF SpareList, PageUse, Init
<1>10. PageObjects(bk)
  BY <1>4, <1>6, FS_EmptySet DEF PageObjects, Init
<1>11. Sorted(rk, bk, 0)
  BY <1>4 DEF Sorted, Init
<1>12. ScanLocals(bk) /\ FreeLocals(rk, bk) /\ UnlinkLocals(rk, bk)
  BY <1>2 DEF ScanLocals, FreeLocals, UnlinkLocals, ScanLocal, FreeLocal, UnlinkLocal
<1>13. Inv(rk, bk, 0)
  BY <1>7, <1>8, <1>9, <1>10, <1>11, <1>12 DEF Inv
<1> QED BY <1>1, <1>13 DEF IInv

\* A step that changes nothing keeps the invariant.
LEMMA StutterInv ==
  ASSUME NEW rk \in [Descs -> Nat], NEW bk \in [Descs -> Buckets], NEW now \in Nat,
         Inv(rk, bk, now), UNCHANGED vars
  PROVE  Inv(rk, bk, now)'
<1> USE DEF Inv, vars
<1>1. TypeOK'
  BY DEF TypeOK
<1>2. MaskExact' /\ OneFreer'
  BY DEF MaskExact, OneFreer, Freeing
<1>3. Act' = Act
  BY DEF Act, Hand
<1>4. SpareList' /\ PageUse' /\ PageObjects(bk)' /\ Sorted(rk, bk, now)'
  BY <1>3, SharedKept
<1>5. \A u \in Tasks : ScanLocal(u, bk)' /\ FreeLocal(u, rk, bk)' /\ UnlinkLocal(u, rk, bk)'
  BY <1>3 DEF ScanLocals, FreeLocals, UnlinkLocals, ScanLocal, FreeLocal, UnlinkLocal,
     Walking
<1> QED BY <1>1, <1>2, <1>4, <1>5 DEF ScanLocals, FreeLocals, UnlinkLocals

\* Every step of a task keeps the invariant.
LEMMA NextInv == ASSUME ~FreeRace, IInv, [Next]_vars PROVE IInv'
<1>1. PICK rk \in [Descs -> Nat], bk \in [Descs -> Buckets], now \in Nat : Inv(rk, bk, now)
  BY DEF IInv
<1>2. CASE UNCHANGED vars
  BY <1>1, <1>2, StutterInv DEF IInv
<1>3. ASSUME NEW t \in Tasks, Calls(t) PROVE IInv'
  <2>1. ASSUME NEW b \in Requests, KmallocBegin(t, b) PROVE IInv'
    BY <1>1, <2>1, KmallocBeginStep DEF IInv
  <2>2. ASSUME NEW o \in held[t], FreeBegin(t, o) PROVE IInv'
    BY <1>1, <2>2, FreeBeginStep DEF IInv
  <2> QED BY <1>3, <2>1, <2>2 DEF Calls
<1>4. ASSUME NEW t \in Tasks, Kernel(t) PROVE IInv'
  <2>1. CASE KmallocScan(t)
    BY <1>1, <2>1, KmallocScanStep DEF IInv
  <2>2. CASE init_bucket_desc(t)
    BY <1>1, <2>2, init_bucket_descStep DEF IInv
  <2>3. CASE KmallocNew(t)
    BY <1>1, <2>3, KmallocNewStep
  <2>4. CASE KmallocTake(t)
    BY <1>1, <2>4, KmallocTakeStep DEF IInv
  <2>5. CASE OutOfMemory(t)
    BY <1>1, <2>5, OutOfMemoryStep DEF IInv
  <2>6. CASE FreeCompare(t)
    BY <1>1, <2>6, FreeCompareStep DEF IInv
  <2>7. CASE FreeAdvance(t)
    BY <1>1, <2>7, FreeAdvanceStep DEF IInv
  <2>8. CASE FreeNextBucket(t)
    BY <1>1, <2>8, FreeNextBucketStep DEF IInv
  <2>9. CASE FreePut(t)
    BY <1>1, <2>9, FreePutStep DEF IInv
  <2>10. CASE FreeFixPrev(t)
    BY <1>1, <2>10, FreeFixPrevStep DEF IInv
  <2>11. CASE FreeUnlink(t)
    BY <1>1, <2>11, FreeUnlinkStep DEF IInv
  <2> QED BY <1>4, <2>1, <2>2, <2>3, <2>4, <2>5, <2>6, <2>7, <2>8, <2>9, <2>10,
             <2>11 DEF Kernel
<1> QED BY <1>2, <1>3, <1>4 DEF Next

\* The inductive invariant holds in every reachable state, as long as no two
\* tasks are inside free_s.
THEOREM Inductive == ASSUME ~FreeRace PROVE Spec => []IInv
<1>1. IInv /\ [Next]_vars => IInv'
  BY NextInv
<1> QED BY <1>1, InitInv, PTL DEF Spec

\* Every chain, count and local variable of kmalloc and free_s keeps its
\* type: in particular refcnt never wraps.
THEOREM TypeCorrect == ASSUME ~FreeRace PROVE Spec => []TypeOK
<1>1. IInv => TypeOK
  BY DEF IInv, Inv
<1> QED BY <1>1, Inductive, PTL

\* free_s finds every object that kmalloc returned from a bucket, however
\* often kmalloc interrupts its search.
THEOREM EveryObjectFound ==
  ASSUME ~FreeRace, EndMarker \notin Requests
  PROVE  Spec => []NoBadAddress
<1>1. IInv => NoBadAddress
  BY DEF IInv, Inv, FreeLocals, FreeLocal, NoBadAddress
<1> QED BY <1>1, Inductive, PTL

\* Whenever interrupts are on, the descriptor of a page counts exactly the
\* objects in use on it, and the others are on its free list.
THEOREM CountsExact == ASSUME ~FreeRace PROVE Spec => []RefcntExact
<1>1. IInv => RefcntExact
  <2> SUFFICES ASSUME IInv, masked = NULL, NEW o \in InUse
               PROVE  /\ Cardinality({d \in Descs : desc[d].page = o.page /\ desc[d].refcnt > 0}) = 1
                      /\ \E d \in Descs :
                           LET used == {x \in InUse : x.page = o.page} IN
                           /\ desc[d].page = o.page
                           /\ desc[d].refcnt = Cardinality(used)
                           /\ desc[d].refcnt + Len(desc[d].freeptr) = o.of
                           /\ \A i \in 1..Len(desc[d].freeptr) : desc[d].freeptr[i] \notin used
    BY DEF RefcntExact
  <2>1. PICK rk \in [Descs -> Nat], bk \in [Descs -> Buckets], now \in Nat : Inv(rk, bk, now)
    BY DEF IInv
  <2> USE DEF Inv
  <2>2. Hand = {}
    BY <2>1, NullApart DEF Hand, HandAt, MaskExact, MaskedAt
  <2>3. PICK d \in Act : desc[d].page = o.page
    BY <2>1 DEF PageObjects
  <2>4. d \in Descs /\ desc[d].refcnt > 0 /\ ObjectsOf(d, bk)
    BY <2>1, <2>2, <2>3 DEF Act, PageObjects
  <2>5. {e \in Descs : desc[e].page = o.page /\ desc[e].refcnt > 0} = {d}
    BY <2>1, <2>3, <2>4 DEF PageUse, Act
  <2>6. Cardinality({d}) = 1
    BY FS_Singleton
  <2>7. o \in Used(desc[d].page) /\ Used(desc[d].page) = {x \in InUse : x.page = o.page}
    BY <2>3 DEF Used
  <2>8. /\ desc[d].refcnt = Cardinality(Used(desc[d].page))
        /\ desc[d].refcnt + Len(desc[d].freeptr) = o.of
        /\ \A i \in 1..Len(desc[d].freeptr) : desc[d].freeptr[i] \notin InUse
    BY <2>4, <2>7 DEF ObjectsOf
  <2> QED BY <2>3, <2>4, <2>5, <2>6, <2>7, <2>8
<1> QED BY <1>1, Inductive, PTL

\* Whenever interrupts are on, a page is allocated exactly if it holds
\* descriptors or an object in use: none leaks, none is freed early.
THEOREM NoPageLost == ASSUME ~FreeRace PROVE Spec => []PagesAccounted
<1>1. IInv => PagesAccounted
  <2> SUFFICES ASSUME IInv, masked = NULL, NEW p \in Pages
               PROVE  count[p] = IF flags[p] = "PG_kmalloc" \/ \E o \in InUse : o.page = p
                                 THEN 1 ELSE 0
    BY DEF PagesAccounted
  <2>1. PICK rk \in [Descs -> Nat], bk \in [Descs -> Buckets], now \in Nat : Inv(rk, bk, now)
    BY DEF IInv
  <2> USE DEF Inv
  <2>2. Hand = {}
    BY <2>1, NullApart DEF Hand, HandAt, MaskExact, MaskedAt
  <2>3. count[p] \in 0..1
    BY <2>1 DEF TypeOK
  <2>4. ASSUME NEW d \in Act PROVE \E o \in InUse : o.page = desc[d].page
    <3>1. desc[d].refcnt > 0 /\ desc[d].refcnt = Cardinality(Used(desc[d].page))
      BY <2>1, <2>2 DEF Act, PageObjects, ObjectsOf
    <3>2. Used(desc[d].page) # {}
      BY <3>1, FS_EmptySet
    <3> QED BY <3>2 DEF Used
  <2>5. count[p] = 1 => flags[p] = "PG_kmalloc" \/ \E o \in InUse : o.page = p
    BY <2>1, <2>4 DEF PageUse
  <2>6. flags[p] = "PG_kmalloc" => count[p] = 1
    BY <2>1 DEF PageUse
  <2>7. ASSUME NEW o \in InUse, o.page = p PROVE count[p] = 1
    BY <2>1, <2>7 DEF PageObjects, PageUse
  <2> QED BY <2>3, <2>5, <2>6, <2>7
<1> QED BY <1>1, Inductive, PTL

\* An object is known by its page, the division of the page and its index.
LEMMA ObjectFields ==
  ASSUME NEW o \in Objects, NEW x \in Objects, o.page = x.page, o.of = x.of, o.i = x.i
  PROVE  o = x
<1>1. PICK b \in Buckets : o \in [page : Pages, of : {SlotsOf(b)}, i : 1..SlotsOf(b)]
  BY DEF Objects
<1>2. PICK c \in Buckets : x \in [page : Pages, of : {SlotsOf(c)}, i : 1..SlotsOf(c)]
  BY DEF Objects
<1>3. o = [page |-> o.page, of |-> o.of, i |-> o.i]
  BY <1>1
<1>4. x = [page |-> x.page, of |-> x.of, i |-> x.i]
  BY <1>2
<1> QED BY <1>3, <1>4

\* kmalloc returns memory that no object in use shares a byte with.
LEMMA TakeIsMalloc ==
  ASSUME IInv, NEW t \in Tasks, KmallocTake(t)
  PROVE  H!Malloc(t)
<1>1. PICK rk \in [Descs -> Nat], bk \in [Descs -> Buckets], now \in Nat : Inv(rk, bk, now)
  BY DEF IInv
<1> USE DEF Inv
<1> DEFINE d == pc[t].bdesc
<1> DEFINE f == desc[d].freeptr
<1> DEFINE o == Head(f)
<1>2. d # NULL /\ f # << >> /\ held' = [held EXCEPT ![t] = @ \cup {o}] /\ pc[t].at = "scan"
  BY DEF KmallocTake, At
<1>3. pc[t] \in Locals /\ desc \in [Descs -> DescRecs] /\ held \in [Tasks -> SUBSET Objects]
  BY <1>1, TypeByName
<1>4. d \in Act /\ d \in Descs
  BY <1>2, <1>3, LocalFields DEF Act, Hand, HandAt
<1>5. f \in Seq(Objects)
  BY <1>3, <1>4, DescFields
<1>6. o = f[1] /\ 1 \in 1..Len(f) /\ o \in Objects
  BY <1>2, <1>5
<1>7. ObjectsOf(d, bk)
  BY <1>1, <1>4 DEF PageObjects
<1>8. o.page = desc[d].page /\ o.of = SlotsOf(bk[d]) /\ o \notin InUse
  BY <1>6, <1>7 DEF ObjectsOf
<1> HIDE DEF o
<1>9. ASSUME NEW u \in Tasks, NEW x \in held[u] PROVE Disjoint(o, x)
  <2>1. x \in InUse /\ x \in Objects /\ x # o
    BY <1>3, <1>8 DEF InUse
  <2>2. x.page = o.page => x.of = o.of
    BY <1>7, <1>8, <2>1 DEF ObjectsOf, Used
  <2>3. x.page = o.page => x.i # o.i
    BY <1>6, <2>1, <2>2, ObjectFields
  <2> QED BY <2>2, <2>3 DEF Disjoint
<1> QED BY <1>2, <1>6, <1>9 DEF H!Malloc

\* kmalloc and free_s implement the abstract heap: a step that changes what
\* the tasks hold hands out memory nobody has, or takes one object back.
THEOREM HeapImplemented == ASSUME ~FreeRace PROVE Spec => ImplementsHeap
<1>1. Init => H!HeapInit
  BY DEF Init, H!HeapInit
<1>2. IInv /\ [Next]_vars => [H!HeapNext]_held
  <2> SUFFICES ASSUME IInv, [Next]_vars PROVE [H!HeapNext]_held
    OBVIOUS
  <2>1. CASE UNCHANGED vars
    BY <2>1 DEF vars
  <2>2. ASSUME NEW t \in Tasks, Calls(t) PROVE UNCHANGED held
    BY <2>2 DEF Calls, KmallocBegin, FreeBegin
  <2>3. ASSUME NEW t \in Tasks, Kernel(t) PROVE H!Malloc(t) \/ H!Free(t) \/ UNCHANGED held
    <3>1. CASE KmallocTake(t)
      BY <3>1, TakeIsMalloc
    <3>2. CASE FreePut(t)
      <4>1. pc[t].obj \in held[t]
        BY <3>2 DEF FreePut, At, IInv, Inv, FreeLocals, FreeLocal, Walking
      <4> QED BY <3>2, <4>1 DEF FreePut, H!Free
    <3>3. CASE KmallocScan(t) \/ init_bucket_desc(t) \/ KmallocNew(t) \/ OutOfMemory(t)
      BY <3>3 DEF KmallocScan, init_bucket_desc, KmallocNew, OutOfMemory
    <3>4. CASE FreeCompare(t) \/ FreeAdvance(t) \/ FreeNextBucket(t) \/ FreeFixPrev(t) \/ FreeUnlink(t)
      BY <3>4 DEF FreeCompare, FreeAdvance, FreeNextBucket, FreeFixPrev, FreeUnlink
    <3> QED BY <2>3, <3>1, <3>2, <3>3, <3>4 DEF Kernel
  <2> QED BY <2>1, <2>2, <2>3 DEF Next, H!HeapNext
<1> QED BY <1>1, <1>2, Inductive, PTL DEF Spec, ImplementsHeap, H!HeapSpec

=============================================================================
