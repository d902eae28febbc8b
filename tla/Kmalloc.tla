------------------------------- MODULE Kmalloc -------------------------------
(***************************************************************************)
(* The bucket allocator of NBOS (mm/kmalloc.c) over the page allocator     *)
(* (mm/mm.c): kmalloc, free_s, init_bucket_desc, alloc_page and free_page, *)
(* called by tasks that preempt each other.                                *)
(*                                                                         *)
(* kmalloc works with interrupts masked from the walk along the chain to   *)
(* the end; free_s masks them only after it has found the descriptor.      *)
(* `masked' is the task that runs with interrupts masked: nobody else      *)
(* takes a step then.  Otherwise any task may run next.                    *)
(***************************************************************************)
EXTENDS Integers, Sequences, FiniteSets

CONSTANTS
  Tasks,        \* the callers
  NPages,       \* PAGING_PAGES: mem_map has indices 0..NPages-1
  Slots,        \* Slots[b]: objects on a page of bucket b, smallest size first
  DescPerPage,  \* PAGE_SIZE / sizeof(struct bucket_desc)
  Requests,     \* buckets asked for; Len(Slots) + 1 is the end marker's
  MaxHeld,      \* bound: objects in use at a time
  FreeRace,     \* may free_s be called while another task is inside it?
  NULL

Pages == 0..(NPages - 1)
\* The end-of-list marker has size 0 and a chain like any bucket.
EndMarker == Len(Slots) + 1
Buckets == 1..EndMarker
\* PAGE_SIZE / 0 is 0 on this processor: one object on the page.
SlotsOf(b) == IF b = EndMarker THEN 1 ELSE Slots[b]

\* The largest value of refcnt, an unsigned short.
MaxRefcnt == 65535

ASSUME KmallocAssumption ==
  /\ NPages \in Nat /\ DescPerPage \in Nat \ {0} /\ MaxHeld \in Nat
  /\ Slots \in Seq(1..MaxRefcnt) /\ Slots # << >>
  /\ Requests \subseteq Buckets
  /\ FreeRace \in BOOLEAN
  /\ NULL \notin Tasks

\* struct bucket_desc, by the page it lies on and its index there.
Descs == Pages \X (1..DescPerPage)
\* An object: its page, how many share the page, and which of them it is.
Objects == UNION {[page : Pages, of : {SlotsOf(b)}, i : 1..SlotsOf(b)] :
                    b \in Buckets}

ASSUME NullAssumption == NULL \notin Descs \cup Pages \cup Objects

VARIABLES
  count,             \* mem_map[].count
  flags,             \* mem_map[].flags: PG_kmalloc marks pages of descriptors
  chain,             \* bucket_dir[].chain
  free_bucket_desc,
  desc,              \* the contents of the descriptors
  pc,                \* where each task stands, with its local variables
  held,              \* the objects each task has obtained and not yet freed
  masked             \* the task that has interrupts masked, or NULL

vars == <<count, flags, chain, free_bucket_desc, desc, pc, held, masked>>

zero == [page |-> NULL, next |-> NULL, freeptr |-> << >>, refcnt |-> 0]
idle == [at |-> "idle", obj |-> NULL, bdir |-> 1, bdesc |-> NULL, prev |-> NULL]

Runs(t) == masked \in {NULL, t}
At(t, at) == Runs(t) /\ pc[t].at = at
GoTo(t, l) == pc' = [pc EXCEPT ![t] = l]

Init ==
  /\ count = [p \in Pages |-> 0]
  /\ flags = [p \in Pages |-> "PG_free"]
  /\ chain = [b \in Buckets |-> NULL]
  /\ free_bucket_desc = NULL
  /\ desc = [d \in Descs |-> zero]
  /\ pc = [t \in Tasks |-> idle]
  /\ held = [t \in Tasks |-> {}]
  /\ masked = NULL

(***************************************************************************)
(* Pages.  alloc_page scans mem_map from the top.                          *)
(***************************************************************************)
FreePages == {p \in Pages : count[p] = 0}
\* Error: the page is not given back.
FreePageForgotten(p) == count

free_page(p) == [count EXCEPT ![p] = @ - 1]
IsAllocPage(p) == p \in FreePages /\ \A q \in FreePages : q <= p

(***************************************************************************)
(* kmalloc                                                                 *)
(***************************************************************************)
InUse == UNION {held[t] : t \in Tasks}

\* The bucket is found, interrupts are masked, the walk starts.
KmallocBegin(t, b) ==
  /\ At(t, "idle")
  /\ Cardinality(InUse) + Cardinality({u \in Tasks : pc[u].at = "scan"}) < MaxHeld
  /\ masked' = t
  /\ GoTo(t, [idle EXCEPT !.at = "scan", !.bdir = b, !.bdesc = chain[b]])
  /\ UNCHANGED <<count, flags, chain, free_bucket_desc, desc, held>>

KmallocScan(t) ==
  /\ At(t, "scan")
  /\ pc[t].bdesc # NULL
  /\ desc[pc[t].bdesc].freeptr = << >>
  /\ GoTo(t, [pc[t] EXCEPT !.bdesc = desc[pc[t].bdesc].next])
  /\ UNCHANGED <<count, flags, chain, free_bucket_desc, desc, held, masked>>

\* Error: the loop links one descriptor too many.
NextInPageLong(p, i) ==
  IF i <= DescPerPage THEN <<p, i + 1>> ELSE free_bucket_desc

\* The descriptors of a new page are linked, the last one to the old list.
NextInPage(p, i) ==
  IF i < DescPerPage THEN <<p, i + 1>> ELSE free_bucket_desc

\* No bucket has room and there is no spare descriptor: a page of them.
init_bucket_desc(t) ==
  /\ At(t, "scan")
  /\ pc[t].bdesc = NULL
  /\ free_bucket_desc = NULL
  /\ \E p \in Pages :
       /\ IsAllocPage(p)
       /\ count' = [count EXCEPT ![p] = 1]
       /\ desc' = [d \in Descs |->
            IF d[1] # p THEN desc[d]
            ELSE [zero EXCEPT !.next = NextInPage(p, d[2])]]
       /\ flags' = [flags EXCEPT ![p] = "PG_kmalloc"]
       /\ free_bucket_desc' = <<p, 1>>
  /\ UNCHANGED <<chain, pc, held, masked>>

\* The chain of free objects of a new page divided by n.
FreeChain(p, n) == [i \in 1..n |-> [page |-> p, of |-> n, i |-> i]]

\* Error: the chain is set before the descriptor's next is taken from it.
LinkInLooped(b, d) == d

\* What a new descriptor d at the head of chain b is linked to.
LinkIn(b, d) == chain[b]

\* A spare descriptor gets a page of objects and heads the chain.
KmallocNew(t) ==
  /\ At(t, "scan")
  /\ pc[t].bdesc = NULL
  /\ free_bucket_desc # NULL
  /\ LET d == free_bucket_desc
         b == pc[t].bdir
     IN \E p \in Pages :
          /\ IsAllocPage(p)
          /\ count' = [count EXCEPT ![p] = 1]
          /\ free_bucket_desc' = desc[d].next
          /\ desc' = [desc EXCEPT ![d] =
               [page |-> p, next |-> LinkIn(b, d), refcnt |-> 0,
                freeptr |-> FreeChain(p, SlotsOf(b))]]
          /\ chain' = [chain EXCEPT ![b] = d]
          /\ GoTo(t, [pc[t] EXCEPT !.bdesc = d])
  /\ UNCHANGED <<flags, held, masked>>

\* alloc_page returns NULL and get_free_page clears 4096 bytes at an address
\* computed from it: nothing the program does after that is defined.
OutOfMemory(t) ==
  /\ At(t, "scan")
  /\ pc[t].bdesc = NULL
  /\ FreePages = {}
  /\ GoTo(t, [pc[t] EXCEPT !.at = "wild"])
  /\ UNCHANGED <<count, flags, chain, free_bucket_desc, desc, held, masked>>

\* Errors: the object is not counted; the object stays on the free list.
TakenUncounted(x) == [x EXCEPT !.freeptr = Tail(@)]
TakenTwice(x) == [x EXCEPT !.refcnt = @ + 1]

Taken(x) == [x EXCEPT !.freeptr = Tail(@), !.refcnt = @ + 1]

KmallocTake(t) ==
  /\ At(t, "scan")
  /\ pc[t].bdesc # NULL
  /\ LET d == pc[t].bdesc IN
       /\ desc[d].freeptr # << >>
       /\ held' = [held EXCEPT ![t] = @ \cup {Head(desc[d].freeptr)}]
       /\ desc' = [desc EXCEPT ![d] = Taken(@)]
  /\ GoTo(t, idle)
  /\ masked' = NULL
  /\ UNCHANGED <<count, flags, chain, free_bucket_desc>>

(***************************************************************************)
(* kfree(obj), that is free_s(obj, 0): the search is open to interrupts.   *)
(***************************************************************************)
Freeing == {t \in Tasks : pc[t].at \notin {"idle", "scan", "wild"}}

FreeBegin(t, o) ==
  /\ At(t, "idle")
  /\ FreeRace \/ Freeing = {}
  /\ GoTo(t, [idle EXCEPT !.at = "compare", !.obj = o, !.bdesc = chain[1]])
  /\ UNCHANGED <<count, flags, chain, free_bucket_desc, desc, held, masked>>

FreeCompare(t) ==
  /\ At(t, "compare")
  /\ pc[t].bdesc # NULL
  /\ GoTo(t, [pc[t] EXCEPT !.at = IF desc[pc[t].bdesc].page = pc[t].obj.page
                                  THEN "found" ELSE "advance"])
  /\ UNCHANGED <<count, flags, chain, free_bucket_desc, desc, held, masked>>

FreeAdvance(t) ==
  /\ At(t, "advance")
  /\ GoTo(t, [pc[t] EXCEPT !.at = "compare", !.prev = pc[t].bdesc,
                           !.bdesc = desc[pc[t].bdesc].next])
  /\ UNCHANGED <<count, flags, chain, free_bucket_desc, desc, held, masked>>

\* The next bucket; after the last real one free_s complains and goes on with
\* a null descriptor: nothing the program does after that is defined.
FreeNextBucket(t) ==
  /\ At(t, "compare")
  /\ pc[t].bdesc = NULL
  /\ LET b == pc[t].bdir + 1 IN
       IF b = EndMarker
       THEN GoTo(t, [pc[t] EXCEPT !.at = "bad_address"])
       ELSE GoTo(t, [pc[t] EXCEPT !.bdir = b, !.bdesc = chain[b], !.prev = NULL])
  /\ UNCHANGED <<count, flags, chain, free_bucket_desc, desc, held, masked>>

\* Error: `prev' is taken to be accurate.
AccurateAssumed(l) == TRUE

\* Is `prev' still the predecessor of the descriptor in the chain?
Accurate(l) == IF l.prev # NULL THEN desc[l.prev].next = l.bdesc
                                ELSE chain[l.bdir] = l.bdesc

PutBack(x, o) == [x EXCEPT !.freeptr = <<o>> \o @,
                           !.refcnt = (@ - 1) % (MaxRefcnt + 1)]

\* Interrupts are masked and the object is put back.
FreePut(t) ==
  /\ At(t, "found")
  /\ LET d == pc[t].bdesc
         x == PutBack(desc[d], pc[t].obj)
     IN /\ desc' = [desc EXCEPT ![d] = x]
        /\ IF x.refcnt # 0
           THEN masked' = NULL /\ GoTo(t, idle)
           ELSE /\ masked' = t
                /\ GoTo(t, IF Accurate(pc[t])
                           THEN [pc[t] EXCEPT !.at = "unlink"]
                           ELSE [pc[t] EXCEPT !.at = "fix_prev",
                                              !.prev = chain[pc[t].bdir]])
  /\ held' = [held EXCEPT ![t] = @ \ {pc[t].obj}]
  /\ UNCHANGED <<count, flags, chain, free_bucket_desc>>

FreeFixPrev(t) ==
  /\ At(t, "fix_prev")
  /\ LET l == pc[t] IN
       GoTo(t, IF l.prev # NULL /\ desc[l.prev].next # l.bdesc
               THEN [l EXCEPT !.prev = desc[l.prev].next]
               ELSE [l EXCEPT !.at = "unlink"])
  /\ UNCHANGED <<count, flags, chain, free_bucket_desc, desc, held, masked>>

\* The last object of the page: the descriptor leaves the chain for the list
\* of spare ones, the page is freed.
FreeUnlink(t) ==
  /\ At(t, "unlink")
  /\ LET l == pc[t]
         d == l.bdesc
     IN /\ desc' = [x \in Descs |->
              IF x = d THEN [desc[d] EXCEPT !.next = free_bucket_desc]
              ELSE IF x = l.prev THEN [desc[x] EXCEPT !.next = desc[d].next]
              ELSE desc[x]]
        /\ chain' = IF l.prev = NULL
                    THEN [chain EXCEPT ![l.bdir] = desc[d].next] ELSE chain
        /\ flags' = [flags EXCEPT ![desc[d].page] = "PG_free"]
        /\ count' = free_page(desc[d].page)
        /\ free_bucket_desc' = d
  /\ GoTo(t, idle)
  /\ masked' = NULL
  /\ UNCHANGED held

Kernel(t) ==
  \/ KmallocScan(t) \/ init_bucket_desc(t) \/ KmallocNew(t) \/ KmallocTake(t)
  \/ OutOfMemory(t)
  \/ FreeCompare(t) \/ FreeAdvance(t) \/ FreeNextBucket(t)
  \/ FreePut(t) \/ FreeFixPrev(t) \/ FreeUnlink(t)

Calls(t) ==
  \/ \E b \in Requests : KmallocBegin(t, b)
  \/ \E o \in held[t] : FreeBegin(t, o)

Next == \E t \in Tasks : Calls(t) \/ Kernel(t)

Spec == Init /\ [][Next]_vars

\* A task inside the allocator is scheduled again and again (see Sched).
FairSpec == Spec /\ \A t \in Tasks : WF_vars(Kernel(t))

(***************************************************************************)
(* Properties.                                                             *)
(***************************************************************************)
Places == {"idle", "scan", "wild", "compare", "advance", "found", "fix_prev",
           "unlink", "bad_address"}

\* Every chain, count and local variable of kmalloc and free_s keeps its type;
\* a count never wraps and a free list holds objects only.
TypeOK ==
  /\ count \in [Pages -> 0..1]
  /\ flags \in [Pages -> {"PG_free", "PG_kmalloc"}]
  /\ chain \in [Buckets -> Descs \cup {NULL}]
  /\ free_bucket_desc \in Descs \cup {NULL}
  /\ desc \in [Descs -> [page : Pages \cup {NULL}, next : Descs \cup {NULL},
                         freeptr : Seq(Objects), refcnt : 0..MaxRefcnt]]
  /\ pc \in [Tasks -> [at : Places, obj : Objects \cup {NULL}, bdir : Buckets,
                       bdesc : Descs \cup {NULL}, prev : Descs \cup {NULL}]]
  /\ held \in [Tasks -> SUBSET Objects]
  /\ masked \in Tasks \cup {NULL}

\* Whenever interrupts are on, each page with objects in use has exactly one
\* descriptor that counts them, and the rest of the page is on its free list.
RefcntExact ==
  masked = NULL =>
    \A o \in InUse :
      /\ Cardinality({d \in Descs : desc[d].page = o.page /\ desc[d].refcnt > 0}) = 1
      /\ \E d \in Descs :
           LET used == {x \in InUse : x.page = o.page} IN
           /\ desc[d].page = o.page
           /\ desc[d].refcnt = Cardinality(used)
           /\ desc[d].refcnt + Len(desc[d].freeptr) = o.of
           /\ \A i \in 1..Len(desc[d].freeptr) :
                desc[d].freeptr[i] \notin used

\* No page leaks and none is freed early: whenever interrupts are on, a page
\* is allocated exactly if it holds descriptors or an object in use.
PagesAccounted ==
  masked = NULL =>
    \A p \in Pages :
      count[p] = IF flags[p] = "PG_kmalloc" \/ \E o \in InUse : o.page = p
                 THEN 1 ELSE 0

\* free_s finds every object that kmalloc returned: "Bad address passed to
\* kernel free_s()" is never printed, and the null descriptor never used.
NoBadAddress == \A t \in Tasks : pc[t].at # "bad_address"

\* Two objects share no byte: they lie on different pages, or they are
\* different ones of the same division of a page.
Disjoint(o, x) == o.page # x.page \/ (o.of = x.of /\ o.i # x.i)

H == INSTANCE Heap WITH Owners <- Tasks, owned <- held

\* kmalloc and free_s implement the abstract heap: memory is never handed
\* out while any part of it is in use.
ImplementsHeap == H!HeapSpec

\* Every call returns, until memory runs out (get_free_page then writes
\* through a null page): no chain ever loops and no walk runs for ever.
CallsReturn ==
  \A t \in Tasks :
    []<>(pc[t].at = "idle" \/ \E u \in Tasks : pc[u].at = "wild")

=============================================================================
