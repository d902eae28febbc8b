----------------------------- MODULE FilesProofs -----------------------------
(***************************************************************************)
(* Proofs about Files: with one file system call at a time, whatever the   *)
(* directories, the paths and the sizes of the tables, execv runs the file *)
(* its path designates, the calls leave the defined only where FaultsExact *)
(* says, put_inode keeps the flash, and the counts of slots and inodes are *)
(* exact, although a dropped inode stays linked and its memory is given to *)
(* the next one.                                                           *)
(*                                                                         *)
(* The counts of a slot and of an inode are numbers, and what they count   *)
(* is spread over the descriptors of all tasks and over the reference that *)
(* namei holds but no slot has yet.  IInv relates the three, and says how  *)
(* s_inodes and the chain of free objects lie in the page.                 *)
(***************************************************************************)
EXTENDS Files, WellFoundedInduction, FiniteSetTheorems, TLAPS

(***************************************************************************)
(* Induction over the numbers, from the library's well-foundedness of <.   *)
(***************************************************************************)
\* A set of numbers that is not empty has a least member.
LEMMA NatLeast ==
  ASSUME NEW T, T \subseteq Nat, T # {}
  PROVE \E x \in T : \A y \in T : x <= y
<1> DEFINE R == OpToRel(<, Nat)
<1>1. IsWellFoundedOn(R, Nat)
  BY NatLessThanWellFounded
<1>2. \A x, y \in Nat : <<y, x>> \in R <=> y < x
  BY DEF OpToRel
<1> HIDE DEF R
<1>3. PICK x \in T : \A y \in T : ~(<<y, x>> \in R)
  BY <1>1, WFMin
<1>4. \A y \in T : ~(y < x)
  BY <1>2, <1>3
<1> QED BY <1>4

\* A set that has 0, and n + 1 with every n, has every number.
LEMMA SetInduction ==
  ASSUME NEW S, 0 \in S, \A n \in Nat : n \in S => n + 1 \in S
  PROVE Nat \subseteq S
<1> DEFINE T == Nat \ S
<1> SUFFICES ASSUME T # {} PROVE FALSE
  OBVIOUS
<1>1. PICK x \in T : \A y \in T : x <= y
  BY NatLeast
<1>2. x # 0 /\ x - 1 \in Nat /\ x - 1 \notin T
  BY <1>1
<1> QED BY <1>1, <1>2

\* find_empty_fd and find_empty_file return the lowest free index.
LEMMA LowestIn ==
  ASSUME NEW T, T \subseteq Nat, T # {}
  PROVE Lowest(T) \in T
<1>1. \E x \in T : \A y \in T : x <= y
  BY NatLeast
<1> QED BY <1>1 DEF Lowest

(***************************************************************************)
(* What a path designates.                                                 *)
(***************************************************************************)
IsWalk(w, p) == w = [i \in 0..Len(p) |-> IF i = 0 THEN Root ELSE Lookup(w[i - 1], p[i])]

\* Target follows a walk along the path.
LEMMA TargetByWalk == \A p : Target(p) = (CHOOSE w : IsWalk(w, p))[Len(p)]
BY DEF Target, IsWalk, Lookup

\* What the equation of a walk says of each place.
LEMMA WalkAt ==
  ASSUME NEW p \in Seq(STRING), NEW w, IsWalk(w, p)
  PROVE /\ w[0] = Root
        /\ \A i \in 0..Len(p) : i + 1 \in 0..Len(p) => w[i + 1] = Lookup(w[i], p[i + 1])
<1>1. Len(p) \in Nat
  OBVIOUS
<1>2. \A i \in 0..Len(p) : w[i] = IF i = 0 THEN Root ELSE Lookup(w[i - 1], p[i])
  BY DEF IsWalk
<1>3. w[0] = Root
  BY <1>1, <1>2
<1>4. ASSUME NEW i \in 0..Len(p), i + 1 \in 0..Len(p)
      PROVE w[i + 1] = Lookup(w[i], p[i + 1])
  <2>1. i + 1 # 0 /\ (i + 1) - 1 = i
    BY <1>1
  <2> QED BY <1>2, <1>4, <2>1
<1> QED BY <1>3, <1>4

\* Every path has a walk.
LEMMA WalkExists ==
  ASSUME NEW p \in Seq(STRING)
  PROVE \E w : IsWalk(w, p)
<1> DEFINE E(i, v) == IF i = 0 THEN Root ELSE Lookup(v, p[i])
           S == {n \in Nat : \E w : w = [i \in 0..n |-> E(i, w[i - 1])]}
<1>1. Len(p) \in Nat
  OBVIOUS
<1>2. 0 \in S
  <2> DEFINE w == [i \in 0..0 |-> Root]
  <2>1. w = [i \in 0..0 |-> E(i, w[i - 1])]
    OBVIOUS
  <2> QED BY <2>1
<1>3. ASSUME NEW n \in Nat, n \in S
      PROVE n + 1 \in S
  <2>1. PICK w : w = [i \in 0..n |-> E(i, w[i - 1])]
    BY <1>3
  <2> DEFINE x == Lookup(w[n], p[n + 1])
             v == [i \in 0..(n + 1) |-> IF i = n + 1 THEN x ELSE w[i]]
  <2>2. \A i \in 0..n : v[i] = w[i]
    OBVIOUS
  <2>3. \A i \in 0..n : w[i] = E(i, w[i - 1])
    BY <2>1
  <2>4. \A i \in 0..n : w[i] = E(i, v[i - 1])
    <3> SUFFICES ASSUME NEW i \in 0..n
                 PROVE w[i] = E(i, v[i - 1])
      OBVIOUS
    <3>1. CASE i = 0
      BY <2>3, <3>1
    <3>2. CASE i # 0
      <4>1. i - 1 \in 0..n
        BY <3>2
      <4> QED BY <2>2, <2>3, <4>1
    <3> QED BY <3>1, <3>2
  <2>5. E(n + 1, v[(n + 1) - 1]) = x
    <3>1. (n + 1) - 1 = n /\ n \in 0..n /\ n + 1 # 0
      OBVIOUS
    <3>2. v[n] = w[n]
      BY <2>2, <3>1
    <3> QED BY <3>1, <3>2
  <2> HIDE DEF E, x
  <2>6. \A i \in 0..(n + 1) : v[i] = E(i, v[i - 1])
    <3> SUFFICES ASSUME NEW i \in 0..(n + 1)
                 PROVE v[i] = E(i, v[i - 1])
      OBVIOUS
    <3>1. CASE i = n + 1
      BY <2>5, <3>1
    <3>2. CASE i # n + 1
      <4>1. i \in 0..n
        BY <3>2
      <4> QED BY <2>2, <2>4, <4>1
    <3> QED BY <3>1, <3>2
  <2>7. v = [i \in 0..(n + 1) |-> v[i]]
    OBVIOUS
  <2> HIDE DEF v
  <2>8. v = [i \in 0..(n + 1) |-> E(i, v[i - 1])]
    BY <2>6, <2>7
  <2>9. \E u : u = [i \in 0..(n + 1) |-> E(i, u[i - 1])]
    BY <2>8, Zenon
  <2>10. n + 1 \in Nat
    OBVIOUS
  <2> QED BY <2>9, <2>10, Zenon
<1> HIDE DEF S
<1>4. Len(p) \in S
  BY <1>1, <1>2, <1>3, SetInduction
<1> QED BY <1>4 DEF S, IsWalk

\* A walk along a path is the one along each of its beginnings, as far as
\* that goes.
LEMMA WalkPrefix ==
  ASSUME NEW p \in Seq(STRING), NEW w, IsWalk(w, p), NEW n \in 0..Len(p),
         NEW v, IsWalk(v, SubSeq(p, 1, n))
  PROVE v[n] = w[n]
<1> DEFINE q == SubSeq(p, 1, n)
           S == {k \in Nat : k <= n => v[k] = w[k]}
<1>1. q \in Seq(STRING) /\ Len(q) = n /\ \A k \in 1..n : q[k] = p[k]
  OBVIOUS
<1>2. Len(p) \in Nat /\ n \in Nat
  OBVIOUS
<1> HIDE DEF q
<1>a. IsWalk(v, q)
  BY DEF q
<1>b. /\ v[0] = Root
       /\ \A i \in 0..Len(q) : i + 1 \in 0..Len(q) => v[i + 1] = Lookup(v[i], q[i + 1])
  BY <1>1, <1>a, WalkAt
<1>3. v[0] = Root /\ w[0] = Root
  BY <1>b, WalkAt
<1>4. /\ \A i \in 0..n : i + 1 \in 0..n => v[i + 1] = Lookup(v[i], q[i + 1])
      /\ \A i \in 0..Len(p) : i + 1 \in 0..Len(p) => w[i + 1] = Lookup(w[i], p[i + 1])
  <2>1. \A i \in 0..Len(p) : i + 1 \in 0..Len(p) => w[i + 1] = Lookup(w[i], p[i + 1])
    BY WalkAt
  <2> QED BY <1>1, <1>b, <2>1
<1>5. 0 \in S
  BY <1>3
<1>6. ASSUME NEW k \in Nat, k \in S
      PROVE k + 1 \in S
  <2> SUFFICES ASSUME k + 1 <= n
               PROVE v[k + 1] = w[k + 1]
    OBVIOUS
  <2>1. k \in 0..n /\ k + 1 \in 1..n /\ k + 1 \in 0..n /\ k \in 0..Len(p) /\ k + 1 \in 0..Len(p)
    BY <1>2
  <2>2. v[k] = w[k]
    BY <1>6, <2>1
  <2>3. q[k + 1] = p[k + 1]
    BY <1>1, <2>1
  <2> QED BY <1>4, <2>1, <2>2, <2>3
<1> HIDE DEF S
<1>7. n \in S
  BY <1>2, <1>5, <1>6, SetInduction
<1> QED BY <1>2, <1>7 DEF S

\* Target follows the path name by name, from the root directory on.
LEMMA TargetSteps ==
  ASSUME NEW p \in Seq(STRING)
  PROVE /\ Target(SubSeq(p, 1, 0)) = Root
        /\ \A n \in Nat : n < Len(p) =>
             Target(SubSeq(p, 1, n + 1)) = Lookup(Target(SubSeq(p, 1, n)), p[n + 1])
        /\ SubSeq(p, 1, Len(p)) = p
<1>1. PICK w : IsWalk(w, p)
  BY WalkExists
<1>2. ASSUME NEW n \in 0..Len(p)
      PROVE Target(SubSeq(p, 1, n)) = w[n]
  <2> DEFINE q == SubSeq(p, 1, n)
             v == CHOOSE u : IsWalk(u, q)
  <2>1. q \in Seq(STRING) /\ Len(q) = n
    OBVIOUS
  <2> HIDE DEF q
  <2>2. IsWalk(v, q)
    BY <2>1, WalkExists
  <2>3. Target(q) = v[n]
    BY <2>1, TargetByWalk
  <2> HIDE DEF v
  <2>4. v[n] = w[n]
    BY <1>1, <2>2, WalkPrefix DEF q
  <2> QED BY <2>3, <2>4 DEF q
<1>3. Len(p) \in Nat
  OBVIOUS
<1>4. Target(SubSeq(p, 1, 0)) = Root
  <2>1. 0 \in 0..Len(p)
    BY <1>3
  <2>2. w[0] = Root
    BY <1>1, WalkAt
  <2> QED BY <1>2, <2>1, <2>2
<1>5. ASSUME NEW n \in Nat, n < Len(p)
      PROVE Target(SubSeq(p, 1, n + 1)) = Lookup(Target(SubSeq(p, 1, n)), p[n + 1])
  <2>1. n \in 0..Len(p) /\ n + 1 \in 0..Len(p)
    BY <1>3, <1>5
  <2>2. w[n + 1] = Lookup(w[n], p[n + 1])
    BY <1>1, <2>1, WalkAt
  <2>3. Target(SubSeq(p, 1, n)) = w[n]
    BY <1>2, <2>1
  <2>4. Target(SubSeq(p, 1, n + 1)) = w[n + 1]
    BY <1>2, <2>1
  <2> QED BY <2>2, <2>3, <2>4
<1>6. SubSeq(p, 1, Len(p)) = p
  OBVIOUS
<1> QED BY <1>4, <1>5, <1>6

(***************************************************************************)
(* The inductive invariant.                                                *)
(***************************************************************************)
Fds == 1..NR_OPEN
Slots == 1..NR_FILE
NB == Len(BootInodes)
Zones == {OWN, STALE}
NodeRecs == [i_ino : Inos \cup {NULL}, i_count : Nat, i_data : {OWN, STALE, NULL} \cup Nodes,
             next : Nodes \cup {NULL}]
RawRecs == [i_zone : Zones, i_nlinks : Zones]
FileRecs == [f_inode : Nodes \cup {NULL}, f_count : 0..1, f_pos : Nat]
Locals == [at : Places, svc : Numbers \cup {NULL}, path : Paths \cup {<< >>}, done : Nat,
           fd : -3..NR_OPEN, f : Slots \cup {NULL}, dir : Nodes \cup {NULL},
           got : (Inos \X Zones) \cup {NULL}]

MemTypes ==
  /\ node \in [Nodes -> NodeRecs] /\ s_inodes \in Nodes /\ freeptr \in Nodes \cup {NULL}
  /\ refcnt \in Nat /\ raw \in [Inos -> RawRecs] /\ drops \in [Inos -> Nat]
Types ==
  /\ MemTypes
  /\ file_tbl \in [Slots -> FileRecs]
  /\ filp \in [Tasks -> [Fds -> Slots \cup {NULL}]]
  /\ pc \in [Tasks -> Locals]

(***************************************************************************)
(* The memory of the inodes.  With one call at a time only the object at   *)
(* the head of s_inodes is ever freed: whoever uses another one is not the *)
(* first.  So the page goes through three stages.  At first nothing has    *)
(* been dropped, the objects up to the head are inodes, linked from each   *)
(* to the one below, and those above are spare.  Then the head is dropped, *)
(* and maybe found and dropped again: it is the first free object.  Then   *)
(* it is given to another inode and linked to itself, which ends every     *)
(* search for an inode that is not there.                                  *)
(***************************************************************************)
AfterNode(n) == IF n < NR_OBJ THEN n + 1 ELSE NULL
Below(n) == IF n = 1 THEN NULL ELSE n - 1
\* The objects that have a reference nobody puts.
Old(n) == n < s_inodes \/ n <= NB

Layout ==
  /\ NB <= s_inodes
  /\ \A n \in Nodes : n > s_inodes =>
       node[n].i_ino = NULL /\ node[n].i_count = 0 /\ node[n].i_data = AfterNode(n)
       /\ node[n].next = NULL
  /\ \A n \in Nodes : n <= s_inodes => node[n].i_ino \in Inos
  /\ \A n \in Nodes : n < s_inodes => node[n].next = Below(n) /\ node[n].i_data = OWN
  /\ \A n \in Nodes : Old(n) => node[n].i_count >= 1
  /\ node[1].i_ino = Root
Distinct == \A m, n \in Nodes :
  m <= s_inodes /\ n <= s_inodes /\ node[m].i_ino = node[n].i_ino => m = n

Fresh ==
  /\ node[s_inodes].next = Below(s_inodes) /\ node[s_inodes].i_data = OWN
  /\ node[s_inodes].i_count >= 1
  /\ freeptr = AfterNode(s_inodes) /\ refcnt = s_inodes + Others
  /\ \A i \in Inos : drops[i] = 0
Freed ==
  LET b == node[s_inodes].i_ino IN
  /\ node[s_inodes].next = Below(s_inodes) /\ NB < s_inodes
  /\ node[s_inodes].i_data \in {AfterNode(s_inodes), s_inodes}
  /\ b \in Regs /\ drops[b] > 0
  /\ freeptr = s_inodes /\ refcnt + drops[b] = s_inodes + Others
  /\ \A i \in Inos : i # b => drops[i] = 0
Given ==
  LET b == node[s_inodes].i_ino IN
  /\ node[s_inodes].next = s_inodes /\ NB < s_inodes
  /\ node[s_inodes].i_data # OWN => b \in Regs /\ drops[b] > 0
  /\ \E a \in Regs :
       /\ drops[a] > 0 /\ \A n \in Nodes : node[n].i_ino # a
       /\ refcnt + (drops[a] + drops[b]) = (s_inodes + 1) + Others
       /\ \A i \in Inos : i # a /\ i # b => drops[i] = 0
Memory == Layout /\ Distinct /\ (Fresh \/ Freed \/ Given) /\ FlashKept

(***************************************************************************)
(* References and calls.                                                   *)
(***************************************************************************)
\* The slots that have the inode n, and that it has a reference for each of
\* them and k more.
Open(n) == {f \in Slots : file_tbl[f].f_count > 0 /\ file_tbl[f].f_inode = n}
Held(n, k) == GivenAgain(n) \/ node[n].i_count >= Cardinality(Open(n)) + k
\* namei takes no reference for the path of the root directory itself.
Counted(n) == n # root_inode \/ << >> \notin Paths
\* A reference of the running call, besides the one nobody puts.
Kept(n) == node[n].i_count >= 1 /\ (Old(n) => node[n].i_count >= 2)

Busy(t) == pc[t].at \notin {"user", "dead", "loop"}
OneCall == \A t, u \in Tasks : Busy(t) /\ Busy(u) => t = u

SlotUsers == \A f \in Slots :
  /\ file_tbl[f].f_count = 0 => Users(f) = {}
  /\ file_tbl[f].f_count = 1 => /\ file_tbl[f].f_inode \in Nodes
                                /\ \E u : Users(f) = {u}
Referenced == \A n \in Nodes : Counted(n) => Held(n, 0)
Shared == Memory /\ SlotUsers /\ Referenced

\* namei has followed the path up to dir, through directories only, and holds
\* a reference to dir; file_open's slot is still free.
Filling(t) == At(t, "namei") =>
  LET l == pc[t] IN
  /\ l.path \in Paths /\ refcnt > 0
  /\ l.dir \in Nodes /\ node[l.dir].i_ino \in Inos
  /\ node[l.dir].i_ino = Target(SubSeq(l.path, 1, l.done))
  /\ \A k \in Nat : k < l.done => Target(SubSeq(l.path, 1, k)) \in Dirs
  /\ l.fd \in Fds /\ l.f \in Slots
  /\ filp[t][l.fd] = l.f /\ file_tbl[l.f].f_count = 0
  /\ l.done = 0 => l.dir = root_inode
  /\ l.done > 0 => Kept(l.dir) /\ (Counted(l.dir) => Held(l.dir, 1))
\* sys_execv has opened what its path designates.
Executing(t) == pc[t].at \in {"execv", "close"} =>
  LET f == filp[t][pc[t].fd]
      n == file_tbl[f].f_inode
  IN
  /\ pc[t].path \in Paths /\ pc[t].fd \in Fds /\ f \in Slots /\ refcnt > 0
  /\ file_tbl[f].f_count = 1 /\ n \in Nodes
  /\ node[n].i_ino \in Inos /\ node[n].i_ino = Target(pc[t].path)
  /\ node[n].i_ino \in Regs => Kept(n)
  /\ At(t, "close") => node[n].i_ino \in Regs
\* ExecvExact and FaultsExact of one task.
RunsExact(t) == At(t, "close") =>
  LET i == Target(pc[t].path) IN
  \/ pc[t].got = <<i, OWN>>
  \/ pc[t].got = <<i, STALE>> /\ drops[i] > 0
FaultExact(t) ==
  LET p == pc[t].path IN
  /\ At(t, "null_lookup") =>
       \E k \in 1..(Len(p) - 1) : Target(SubSeq(p, 1, k)) \in Regs
  /\ At(t, "wild") /\ pc[t].fd = -3 =>
       /\ Target(p) = NULL
       /\ \A k \in 1..(Len(p) - 1) : Target(SubSeq(p, 1, k)) \notin Regs
  /\ At(t, "null_call") /\ p # << >> => Target(p) \in Dirs
  /\ At(t, "loop") => GivenAgain(s_inodes)
  /\ At(t, "stray") \/ At(t, "trampled") => \E i \in Inos : drops[i] > 0
TaskOK(t) ==
  /\ pc[t].done \in 0..Len(pc[t].path)
  /\ pc[t].at \in {"user", "dead"} => pc[t].path = << >>
  /\ Filling(t) /\ Executing(t) /\ RunsExact(t) /\ FaultExact(t)

IInv ==
  /\ Types /\ OneCall /\ Shared
  /\ \A t \in Tasks : TaskOK(t)

(***************************************************************************)
(* Types.                                                                  *)
(***************************************************************************)
\* What the assumptions on the constants say of the sets of records.
LEMMA Constants ==
  /\ NR_OPEN \in Nat /\ NR_FILE \in Nat /\ NR_OBJ \in Nat /\ Others \in Nat
  /\ NB \in Nodes /\ NB \in Nat /\ 1 \in Nodes /\ 1 <= NB
  /\ NULL \notin Slots /\ NULL \notin Inos /\ NULL \notin Dirs /\ NULL \notin Regs
  /\ NULL \notin Nodes /\ OWN \notin Nodes /\ OWN # NULL /\ OWN # STALE
  /\ Root \in Inos /\ Root \in Dirs /\ Root \notin Regs
  /\ \A i \in Inos : i \in Regs <=> i \notin Dirs
  /\ \A i \in Dirs : i \in Inos
  /\ \A i \in Regs : i \in Inos
BY FilesAssumption DEF Slots, Inos, Nodes, NB

\* Fields of the locals.
LEMMA LocalsFields ==
  ASSUME NEW l \in Locals
  PROVE /\ l.at \in Places /\ l.svc \in Numbers \cup {NULL} /\ l.path \in Paths \cup {<< >>}
        /\ l.done \in Nat /\ l.fd \in -3..NR_OPEN /\ l.f \in Slots \cup {NULL}
        /\ l.dir \in Nodes \cup {NULL} /\ l.got \in (Inos \X Zones) \cup {NULL}
BY DEF Locals

\* A record with the right fields is one of Locals.
LEMMA LocalsMade ==
  ASSUME NEW a \in Places, NEW s \in Numbers \cup {NULL}, NEW p \in Paths \cup {<< >>},
         NEW d \in Nat, NEW e \in -3..NR_OPEN, NEW f \in Slots \cup {NULL},
         NEW i \in Nodes \cup {NULL}, NEW g \in (Inos \X Zones) \cup {NULL}
  PROVE [at |-> a, svc |-> s, path |-> p, done |-> d, fd |-> e, f |-> f, dir |-> i,
         got |-> g] \in Locals
BY DEF Locals

\* The locals of a task that is in no call.
LEMMA UserFields ==
  /\ user \in Locals /\ user.at = "user" /\ user.path = << >> /\ user.done = 0
  /\ user.svc = NULL /\ user.fd = 0 /\ user.f = NULL /\ user.dir = NULL /\ user.got = NULL
  /\ Len(<< >>) = 0
<1>1. "user" \in Places /\ 0 \in -3..NR_OPEN
  BY Constants DEF Places
<1>2. user \in Locals
  <2> HIDE DEF Locals
  <2>1. NULL \in Numbers \cup {NULL} /\ << >> \in Paths \cup {<< >>} /\ 0 \in Nat
        /\ NULL \in Slots \cup {NULL} /\ NULL \in Nodes \cup {NULL}
        /\ NULL \in (Inos \X Zones) \cup {NULL}
    OBVIOUS
  <2> QED BY <1>1, <2>1, LocalsMade DEF user
<1> QED BY <1>2 DEF user

\* A step that assigns the locals of one task.
LEMMA PcSet ==
  ASSUME pc \in [Tasks -> Locals], NEW t \in Tasks, NEW l \in Locals,
         pc' = [pc EXCEPT ![t] = l]
  PROVE /\ pc' \in [Tasks -> Locals] /\ pc'[t] = l
        /\ \A u \in Tasks : u # t => pc'[u] = pc[u]
OBVIOUS

\* A step that only moves a task to another place.
LEMMA PcAt ==
  ASSUME pc \in [Tasks -> Locals], NEW t \in Tasks, NEW a \in Places,
         pc' = [pc EXCEPT ![t].at = a]
  PROVE /\ pc' \in [Tasks -> Locals]
        /\ \A u \in Tasks : u # t => pc'[u] = pc[u]
        /\ pc'[t].at = a /\ pc'[t].path = pc[t].path /\ pc'[t].done = pc[t].done
        /\ pc'[t].fd = pc[t].fd
<1> DEFINE l == pc[t]
<1>1. l \in Locals
  OBVIOUS
<1>2. \A x : [l EXCEPT !.at = x] = [at |-> x, svc |-> l.svc, path |-> l.path, done |-> l.done,
         fd |-> l.fd, f |-> l.f, dir |-> l.dir, got |-> l.got]
  BY <1>1 DEF Locals
<1>3. pc' = [pc EXCEPT ![t] = [l EXCEPT !.at = a]]
  OBVIOUS
<1> HIDE DEF l
<1>4. [l EXCEPT !.at = a] \in Locals
  <2>1. [at |-> a, svc |-> l.svc, path |-> l.path, done |-> l.done, fd |-> l.fd,
         f |-> l.f, dir |-> l.dir, got |-> l.got] \in Locals
    BY <1>1, LocalsFields, LocalsMade
  <2> QED BY <1>2, <2>1
<1>5. pc' \in [Tasks -> Locals] /\ pc'[t] = [l EXCEPT !.at = a]
      /\ \A u \in Tasks : u # t => pc'[u] = pc[u]
  BY <1>3, <1>4, PcSet
<1> QED BY <1>2, <1>5 DEF l

\* namei goes on to the next directory.
LEMMA PcNext ==
  ASSUME pc \in [Tasks -> Locals], NEW t \in Tasks, NEW n \in Nodes,
         pc' = [pc EXCEPT ![t].dir = n, ![t].done = @ + 1]
  PROVE /\ pc' \in [Tasks -> Locals]
        /\ \A u \in Tasks : u # t => pc'[u] = pc[u]
        /\ pc'[t].at = pc[t].at /\ pc'[t].path = pc[t].path /\ pc'[t].done = pc[t].done + 1
        /\ pc'[t].fd = pc[t].fd /\ pc'[t].f = pc[t].f /\ pc'[t].dir = n
<1> DEFINE l == pc[t]
           m == [l EXCEPT !.dir = n]
           e == [m EXCEPT !.done = l.done + 1]
<1>1. l \in Locals
  OBVIOUS
<1>2. /\ m \in Locals /\ m.at = l.at /\ m.path = l.path /\ m.done = l.done
      /\ m.fd = l.fd /\ m.f = l.f /\ m.dir = n
  BY <1>1 DEF Locals
<1>3. pc' = [pc EXCEPT ![t] = e]
  OBVIOUS
<1>4. l.done + 1 \in Nat
  BY <1>1, LocalsFields
<1> HIDE DEF m, l
<1>5. /\ e \in Locals /\ e.at = m.at /\ e.path = m.path /\ e.done = l.done + 1
      /\ e.fd = m.fd /\ e.f = m.f /\ e.dir = m.dir
  BY <1>2, <1>4 DEF Locals
<1> HIDE DEF e
<1>6. /\ pc' \in [Tasks -> Locals] /\ \A u \in Tasks : u # t => pc'[u] = pc[u]
      /\ pc'[t] = e
  BY <1>3, <1>5, PcSet
<1> QED BY <1>2, <1>5, <1>6 DEF l

\* The fields of a slot and of an inode.
LEMMA TableFields ==
  ASSUME Types
  PROVE /\ \A f \in Slots : file_tbl[f].f_inode \in Nodes \cup {NULL}
              /\ file_tbl[f].f_count \in {0, 1} /\ file_tbl[f].f_pos \in Nat
        /\ \A n \in Nodes : node[n].i_count \in Nat
BY DEF Types, MemTypes, FileRecs, NodeRecs

\* A step that gives one object a new content.
LEMMA NodeSet ==
  ASSUME node \in [Nodes -> NodeRecs], NEW n \in Nodes, NEW x \in NodeRecs,
         node' = [node EXCEPT ![n] = x]
  PROVE /\ node' \in [Nodes -> NodeRecs] /\ node'[n] = x
        /\ \A m \in Nodes : m # n => node'[m] = node[m]
OBVIOUS

\* A step that changes the references of one object.
LEMMA NodeCount ==
  ASSUME node \in [Nodes -> NodeRecs], NEW n \in Nodes, NEW c \in Nat,
         node' = [node EXCEPT ![n].i_count = c]
  PROVE /\ node' \in [Nodes -> NodeRecs] /\ node'[n].i_count = c
        /\ \A m \in Nodes : m # n => node'[m] = node[m]
        /\ \A m \in Nodes : /\ node'[m].i_ino = node[m].i_ino
                            /\ node'[m].i_data = node[m].i_data
                            /\ node'[m].next = node[m].next
<1> DEFINE x == [node[n] EXCEPT !.i_count = c]
<1>1. /\ x \in NodeRecs /\ x.i_count = c /\ x.i_ino = node[n].i_ino
      /\ x.i_data = node[n].i_data /\ x.next = node[n].next
  BY DEF NodeRecs
<1>2. node' = [node EXCEPT ![n] = x]
  OBVIOUS
<1> HIDE DEF x
<1>3. /\ node' \in [Nodes -> NodeRecs] /\ node'[n] = x
      /\ \A m \in Nodes : m # n => node'[m] = node[m]
  BY <1>1, <1>2, NodeSet
<1> QED BY <1>1, <1>3

(***************************************************************************)
(* The memory of the inodes.                                               *)
(***************************************************************************)
\* What the invariant of the memory says of each stage.
LEMMA MemFacts ==
  ASSUME MemTypes, Memory
  PROVE /\ s_inodes \in Nat /\ 1 <= s_inodes /\ s_inodes <= NR_OBJ /\ NR_OBJ \in Nat
        /\ \A n \in Nodes : n \in Nat /\ 1 <= n /\ n <= NR_OBJ
        /\ \A n \in Nodes : node[n].i_count \in Nat
        /\ \A n \in Nodes : node[n].i_ino \in Inos <=> n <= s_inodes
        /\ \A n \in Nodes : n <= s_inodes /\ node[n].i_data # OWN =>
             n = s_inodes /\ node[n].i_ino \in Regs /\ drops[node[n].i_ino] > 0
<1>1. /\ s_inodes \in Nat /\ 1 <= s_inodes /\ s_inodes <= NR_OBJ /\ NR_OBJ \in Nat
      /\ \A n \in Nodes : n \in Nat /\ 1 <= n /\ n <= NR_OBJ
  BY Constants DEF MemTypes, Nodes
<1>2. \A n \in Nodes : node[n].i_count \in Nat
  BY DEF MemTypes, NodeRecs
<1>3. \A n \in Nodes : node[n].i_ino \in Inos <=> n <= s_inodes
  <2> TAKE n \in Nodes
  <2>1. n <= s_inodes \/ n > s_inodes
    BY <1>1
  <2> QED BY <1>1, <2>1, Constants DEF Memory, Layout
<1>4. ASSUME NEW n \in Nodes, n <= s_inodes, node[n].i_data # OWN
      PROVE n = s_inodes /\ node[n].i_ino \in Regs /\ drops[node[n].i_ino] > 0
  <2>1. n = s_inodes
    <3>1. ~(n < s_inodes)
      BY <1>4 DEF Memory, Layout
    <3> QED BY <1>1, <1>4, <3>1
  <2> QED BY <1>4, <2>1 DEF Memory, Fresh, Freed, Given
<1> QED BY <1>1, <1>2, <1>3, <1>4

\* The three stages exclude each other.
LEMMA Stages ==
  ASSUME MemTypes, Memory
  PROVE GivenAgain(s_inodes) <=> Given
<1>1. Below(s_inodes) # s_inodes
  BY MemFacts, Constants DEF Below, MemTypes
<1> QED BY <1>1 DEF GivenAgain, Memory, Fresh, Freed, Given

\* A step that only changes references, and leaves those nobody puts.
LEMMA ShapeKept ==
  ASSUME MemTypes, Memory, UNCHANGED <<s_inodes, freeptr, refcnt, raw, drops>>,
         \A n \in Nodes : /\ node'[n].i_ino = node[n].i_ino
                          /\ node'[n].i_data = node[n].i_data
                          /\ node'[n].next = node[n].next,
         \A n \in Nodes : n > s_inodes => node'[n].i_count = 0,
         \A n \in Nodes : Old(n) => node'[n].i_count >= 1,
         Fresh => node'[s_inodes].i_count >= 1
  PROVE /\ Memory'
        /\ \A n \in Nodes : GivenAgain(n)' = GivenAgain(n)
        /\ \A n \in Nodes : Old(n)' = Old(n)
<1>0. s_inodes \in Nodes /\ 1 \in Nodes
  BY Constants DEF MemTypes
<1>1. \A n \in Nodes : Old(n)' = Old(n)
  BY DEF Old
<1>2. Layout'
  BY <1>0, <1>1 DEF Memory, Layout
<1>3. Distinct'
  BY DEF Memory, Distinct
<1>4. Fresh => Fresh'
  BY <1>0 DEF Fresh
<1>5. Freed => Freed'
  BY <1>0 DEF Freed
<1>6. Given => Given'
  BY <1>0 DEF Given
<1>7. FlashKept'
  BY DEF Memory, FlashKept
<1>8. \A n \in Nodes : GivenAgain(n)' = GivenAgain(n)
  BY DEF GivenAgain
<1> QED BY <1>1, <1>2, <1>3, <1>4, <1>5, <1>6, <1>7, <1>8 DEF Memory

\* get_inode finds the inode: one reference more.
LEMMA FoundMem ==
  ASSUME MemTypes, Memory, NEW n \in Nodes, n <= s_inodes,
         node' = [node EXCEPT ![n].i_count = @ + 1],
         UNCHANGED <<s_inodes, freeptr, refcnt, raw, drops>>
  PROVE /\ MemTypes' /\ Memory' /\ Kept(n)'
        /\ node'[n].i_count = node[n].i_count + 1 /\ node'[n].i_ino = node[n].i_ino
        /\ \A m \in Nodes : m # n => node'[m] = node[m]
        /\ \A m \in Nodes : GivenAgain(m)' = GivenAgain(m)
<1>1. node[n].i_count \in Nat
  BY MemFacts
<1>2. node[n].i_count + 1 \in Nat
  BY <1>1
<1>3. node' = [node EXCEPT ![n].i_count = node[n].i_count + 1]
  BY DEF MemTypes
<1>4. /\ node' \in [Nodes -> NodeRecs] /\ node'[n].i_count = node[n].i_count + 1
      /\ \A m \in Nodes : m # n => node'[m] = node[m]
      /\ \A m \in Nodes : /\ node'[m].i_ino = node[m].i_ino
                          /\ node'[m].i_data = node[m].i_data
                          /\ node'[m].next = node[m].next
  BY <1>2, <1>3, NodeCount DEF MemTypes
<1>5. \A m \in Nodes : m > s_inodes => node'[m].i_count = 0
  <2> SUFFICES ASSUME NEW m \in Nodes, m > s_inodes
               PROVE node'[m].i_count = 0
    OBVIOUS
  <2>1. m # n
    BY MemFacts
  <2> QED BY <1>4, <2>1 DEF Memory, Layout
<1>6. \A m \in Nodes : node'[m].i_count >= node[m].i_count
  <2> SUFFICES ASSUME NEW m \in Nodes
               PROVE node'[m].i_count >= node[m].i_count
    OBVIOUS
  <2>1. node[m].i_count \in Nat
    BY MemFacts
  <2>2. CASE m = n
    BY <1>1, <1>4, <2>2
  <2>3. CASE m # n
    BY <1>4, <2>1, <2>3
  <2> QED BY <2>2, <2>3
<1>7. \A m \in Nodes : node[m].i_count >= 1 => node'[m].i_count >= 1
  <2> SUFFICES ASSUME NEW m \in Nodes, node[m].i_count >= 1
               PROVE node'[m].i_count >= 1
    OBVIOUS
  <2>1. node[m].i_count \in Nat /\ node'[m].i_count \in Nat
    BY <1>4, MemFacts DEF NodeRecs
  <2>2. node'[m].i_count >= node[m].i_count
    BY <1>6
  <2> QED BY <2>1, <2>2
<1>8. \A m \in Nodes : Old(m) => node'[m].i_count >= 1
  BY <1>7 DEF Memory, Layout
<1>9. Fresh => node'[s_inodes].i_count >= 1
  BY <1>7 DEF Fresh, MemTypes
<1>10. /\ Memory' /\ \A m \in Nodes : GivenAgain(m)' = GivenAgain(m)
       /\ \A m \in Nodes : Old(m)' = Old(m)
  BY <1>4, <1>5, <1>8, <1>9, ShapeKept
<1>11. MemTypes'
  BY <1>4 DEF MemTypes
<1>12. Kept(n)'
  <2>1. Old(n) => node[n].i_count >= 1
    BY DEF Memory, Layout
  <2>2. node'[n].i_count >= 1 /\ (Old(n)' => node'[n].i_count >= 2)
    BY <1>1, <1>4, <1>10, <2>1
  <2> QED BY <2>2 DEF Kept
<1> QED BY <1>4, <1>10, <1>11, <1>12

\* The walk of get_inode: from one node to the next.
StepTo(x, i) == IF x = NULL THEN NULL ELSE IF node[x].i_ino = i THEN x ELSE node[x].next
IsVisit(v, i) == v = [k \in 0..NR_OBJ |-> IF k = 0 THEN s_inodes ELSE StepTo(v[k - 1], i)]

\* Visit follows the walk.
LEMMA VisitChosen == \A i : Visit(i) = CHOOSE v : IsVisit(v, i)
BY DEF Visit, IsVisit, StepTo

\* Every state of the list has a walk.
LEMMA VisitExists ==
  ASSUME NEW i
  PROVE \E v : IsVisit(v, i)
<1> DEFINE E(k, x) == IF k = 0 THEN s_inodes ELSE StepTo(x, i)
           S == {n \in Nat : \E w : w = [k \in 0..n |-> E(k, w[k - 1])]}
<1>1. NR_OBJ \in Nat
  BY Constants
<1>2. 0 \in S
  <2> DEFINE w == [k \in 0..0 |-> s_inodes]
  <2>1. w = [k \in 0..0 |-> E(k, w[k - 1])]
    OBVIOUS
  <2> QED BY <2>1
<1>3. ASSUME NEW n \in Nat, n \in S
      PROVE n + 1 \in S
  <2>1. PICK w : w = [k \in 0..n |-> E(k, w[k - 1])]
    BY <1>3
  <2> DEFINE x == StepTo(w[n], i)
             v == [k \in 0..(n + 1) |-> IF k = n + 1 THEN x ELSE w[k]]
  <2>2. \A k \in 0..n : v[k] = w[k]
    OBVIOUS
  <2>3. \A k \in 0..n : w[k] = E(k, w[k - 1])
    BY <2>1
  <2>4. \A k \in 0..n : w[k] = E(k, v[k - 1])
    <3> SUFFICES ASSUME NEW k \in 0..n
                 PROVE w[k] = E(k, v[k - 1])
      OBVIOUS
    <3>1. CASE k = 0
      BY <2>3, <3>1
    <3>2. CASE k # 0
      <4>1. k - 1 \in 0..n
        BY <3>2
      <4> QED BY <2>2, <2>3, <4>1
    <3> QED BY <3>1, <3>2
  <2>5. E(n + 1, v[(n + 1) - 1]) = x
    <3>1. (n + 1) - 1 = n /\ n \in 0..n /\ n + 1 # 0
      OBVIOUS
    <3>2. v[n] = w[n]
      BY <2>2, <3>1
    <3> QED BY <3>1, <3>2
  <2> HIDE DEF E, x
  <2>6. \A k \in 0..(n + 1) : v[k] = E(k, v[k - 1])
    <3> SUFFICES ASSUME NEW k \in 0..(n + 1)
                 PROVE v[k] = E(k, v[k - 1])
      OBVIOUS
    <3>1. CASE k = n + 1
      BY <2>5, <3>1
    <3>2. CASE k # n + 1
      <4>1. k \in 0..n
        BY <3>2
      <4> QED BY <2>2, <2>4, <4>1
    <3> QED BY <3>1, <3>2
  <2>7. v = [k \in 0..(n + 1) |-> v[k]]
    OBVIOUS
  <2> HIDE DEF v
  <2>8. v = [k \in 0..(n + 1) |-> E(k, v[k - 1])]
    BY <2>6, <2>7
  <2>9. \E u : u = [k \in 0..(n + 1) |-> E(k, u[k - 1])]
    BY <2>8, Zenon
  <2>10. n + 1 \in Nat
    OBVIOUS
  <2> QED BY <2>9, <2>10, Zenon
<1> HIDE DEF S
<1>4. NR_OBJ \in S
  BY <1>1, <1>2, <1>3, SetInduction
<1> QED BY <1>4 DEF S, IsVisit

\* The walk starts at the head and goes from node to node.
LEMMA VisitSteps ==
  ASSUME NEW i
  PROVE /\ Visit(i)[0] = s_inodes
        /\ \A k \in Nat : k + 1 <= NR_OBJ => Visit(i)[k + 1] = StepTo(Visit(i)[k], i)
<1> DEFINE v == Visit(i)
<1>1. IsVisit(v, i)
  BY VisitChosen, VisitExists, Zenon
<1> HIDE DEF v
<1>2. \A k \in 0..NR_OBJ : v[k] = IF k = 0 THEN s_inodes ELSE StepTo(v[k - 1], i)
  BY <1>1 DEF IsVisit
<1>3. v[0] = s_inodes
  BY <1>2, Constants
<1>4. ASSUME NEW k \in Nat, k + 1 <= NR_OBJ
      PROVE v[k + 1] = StepTo(v[k], i)
  <2>1. k + 1 \in 0..NR_OBJ /\ k + 1 # 0 /\ (k + 1) - 1 = k
    BY <1>4, Constants
  <2> QED BY <1>2, <2>1
<1> QED BY <1>3, <1>4 DEF v

\* While the head is not linked to itself the walk ends, and finds the inode
\* if it is there.
LEMMA WalkEnds ==
  ASSUME MemTypes, Memory, node[s_inodes].next = Below(s_inodes), NEW i \in Inos
  PROVE LET r == Visit(i)[NR_OBJ] IN
        \/ r = NULL /\ \A n \in Nodes : n <= s_inodes => node[n].i_ino # i
        \/ r \in Nodes /\ r <= s_inodes /\ node[r].i_ino = i
<1> DEFINE v == Visit(i)
           Done(x) == \/ x = NULL /\ \A n \in Nodes : n <= s_inodes => node[n].i_ino # i
                      \/ x \in Nodes /\ x <= s_inodes /\ node[x].i_ino = i
           On(k) == /\ s_inodes - k >= 1 /\ v[k] = s_inodes - k
                    /\ \A n \in Nodes : n <= s_inodes /\ n > s_inodes - k => node[n].i_ino # i
           S == {k \in Nat : k <= NR_OBJ => Done(v[k]) \/ On(k)}
<1>1. /\ s_inodes \in Nat /\ 1 <= s_inodes /\ s_inodes <= NR_OBJ /\ NR_OBJ \in Nat
      /\ \A n \in Nodes : n \in Nat /\ 1 <= n /\ n <= NR_OBJ
  BY MemFacts
<1>2. \A n \in Nodes : n <= s_inodes => node[n].next = Below(n)
  <2> SUFFICES ASSUME NEW n \in Nodes, n <= s_inodes
               PROVE node[n].next = Below(n)
    OBVIOUS
  <2>1. n < s_inodes \/ n = s_inodes
    BY <1>1
  <2> QED BY <2>1 DEF Memory, Layout
<1>3. v[0] = s_inodes /\ \A k \in Nat : k + 1 <= NR_OBJ => v[k + 1] = StepTo(v[k], i)
  BY VisitSteps
<1> HIDE DEF v
<1>4. 0 \in S
  <2>1. s_inodes - 0 = s_inodes
    BY <1>1
  <2>2. On(0)
    BY <1>1, <1>3, <2>1
  <2> QED BY <2>2
<1>5. ASSUME NEW k \in Nat, k \in S
      PROVE k + 1 \in S
  <2> SUFFICES ASSUME k + 1 <= NR_OBJ
               PROVE Done(v[k + 1]) \/ On(k + 1)
    OBVIOUS
  <2>1. v[k + 1] = StepTo(v[k], i)
    BY <1>3
  <2>2. Done(v[k]) \/ On(k)
    <3>1. k <= NR_OBJ
      BY <1>1
    <3> QED BY <1>5, <3>1
  <2>3. CASE Done(v[k])
    <3>1. v[k + 1] = v[k]
      BY <2>1, <2>3, Constants DEF StepTo
    <3> QED BY <2>3, <3>1
  <2>4. CASE On(k)
    <3>1. PICK x : x = v[k]
      OBVIOUS
    <3>2. x = s_inodes - k /\ x >= 1 /\ x \in Nat /\ x <= s_inodes
      BY <1>1, <2>4, <3>1
    <3>3. x \in Nodes /\ x # NULL
      BY <1>1, <3>2, Constants DEF Nodes
    <3>4. CASE node[x].i_ino = i
      <4>1. v[k + 1] = x
        BY <2>1, <3>1, <3>3, <3>4 DEF StepTo
      <4> QED BY <3>2, <3>3, <3>4, <4>1
    <3>5. CASE node[x].i_ino # i
      <4>1. v[k + 1] = Below(x)
        BY <1>2, <2>1, <3>1, <3>2, <3>3, <3>5 DEF StepTo
      <4>2. \A n \in Nodes : n <= s_inodes /\ n > s_inodes - (k + 1) => node[n].i_ino # i
        <5> SUFFICES ASSUME NEW n \in Nodes, n <= s_inodes, n > s_inodes - (k + 1)
                     PROVE node[n].i_ino # i
          OBVIOUS
        <5>1. n \in Nat /\ (n = x \/ n > s_inodes - k)
          BY <1>1, <3>2
        <5> QED BY <2>4, <3>5, <5>1
      <4>3. CASE x = 1
        <5>1. v[k + 1] = NULL
          BY <4>1, <4>3 DEF Below
        <5>2. \A n \in Nodes : n > s_inodes - (k + 1)
          BY <1>1, <3>2, <4>3
        <5> QED BY <4>2, <5>1, <5>2
      <4>4. CASE x # 1
        <5>1. v[k + 1] = x - 1
          BY <4>1, <4>4 DEF Below
        <5>2. s_inodes - (k + 1) >= 1 /\ s_inodes - (k + 1) = x - 1
          BY <1>1, <3>2, <4>4
        <5>3. On(k + 1)
          BY <4>2, <5>1, <5>2
        <5> QED BY <5>3
      <4> QED BY <4>3, <4>4
    <3> QED BY <3>4, <3>5
  <2> QED BY <2>2, <2>3, <2>4
<1> HIDE DEF S
<1>6. NR_OBJ \in S
  BY <1>1, <1>4, <1>5, SetInduction
<1>7. Done(v[NR_OBJ]) \/ On(NR_OBJ)
  BY <1>1, <1>6 DEF S
<1>8. ~On(NR_OBJ)
  BY <1>1
<1> QED BY <1>7, <1>8 DEF v

\* When the head is linked to itself the walk never leaves it.
LEMMA WalkStays ==
  ASSUME MemTypes, Memory, node[s_inodes].next = s_inodes, NEW i \in Inos
  PROVE Visit(i)[NR_OBJ] = s_inodes
<1> DEFINE v == Visit(i)
           S == {k \in Nat : k <= NR_OBJ => v[k] = s_inodes}
<1>1. NR_OBJ \in Nat /\ s_inodes # NULL
  BY Constants DEF MemTypes
<1>2. v[0] = s_inodes /\ \A k \in Nat : k + 1 <= NR_OBJ => v[k + 1] = StepTo(v[k], i)
  BY VisitSteps
<1> HIDE DEF v
<1>3. 0 \in S
  BY <1>2
<1>4. ASSUME NEW k \in Nat, k \in S
      PROVE k + 1 \in S
  <2> SUFFICES ASSUME k + 1 <= NR_OBJ
               PROVE v[k + 1] = s_inodes
    OBVIOUS
  <2>1. k <= NR_OBJ
    BY <1>1
  <2>2. v[k] = s_inodes /\ v[k + 1] = StepTo(v[k], i)
    BY <1>2, <1>4, <2>1
  <2> QED BY <1>1, <2>2 DEF StepTo
<1> HIDE DEF S
<1>5. NR_OBJ \in S
  BY <1>1, <1>3, <1>4, SetInduction
<1> QED BY <1>1, <1>5 DEF S, v

\* get_new_inode while nothing has been dropped: the first spare object.
LEMMA NewMem ==
  ASSUME MemTypes, Memory, Fresh, NEW i \in Inos, GetNewInode(i), raw' = raw, drops' = drops,
         NEW n, n = freeptr,
         \A m \in Nodes : m <= s_inodes => node[m].i_ino # i
  PROVE /\ MemTypes' /\ Memory' /\ Fresh'
        /\ n \in Nodes /\ n # 1 /\ node[n].i_count = 0 /\ node[n].next = NULL /\ Kept(n)'
        /\ node'[n].i_count = 1 /\ node'[n].i_ino = i
        /\ \A m \in Nodes : m # n => node'[m] = node[m]
        /\ refcnt' = refcnt + 1
<1>1. PICK h : h = s_inodes
  OBVIOUS
<1>2. n = freeptr
  OBVIOUS
<1>3. /\ h \in Nat /\ 1 <= h /\ h <= NR_OBJ /\ NR_OBJ \in Nat /\ h \in Nodes
      /\ \A m \in Nodes : m \in Nat /\ 1 <= m /\ m <= NR_OBJ
  BY <1>1, MemFacts DEF MemTypes
<1>4. n \in Nodes /\ h < NR_OBJ /\ n = h + 1
  BY <1>1, <1>2, <1>3, Constants DEF GetNewInode, Fresh, AfterNode
<1>5. NB \in Nat /\ NB <= h /\ NB < n
  BY <1>1, <1>3, <1>4, Constants DEF Memory, Layout
<1> DEFINE x == [i_ino |-> i, i_count |-> 1, i_data |-> raw[i].i_zone, next |-> h]
<1>6. raw[i].i_zone = OWN
  <2>1. drops[i] = 0
    BY DEF Fresh
  <2> QED BY <2>1 DEF Memory, FlashKept
<1>7. x \in NodeRecs /\ x.i_ino = i /\ x.i_count = 1 /\ x.i_data = OWN /\ x.next = h
  BY <1>3, <1>6 DEF NodeRecs
<1>8. node' = [node EXCEPT ![n] = x] /\ s_inodes' = n /\ freeptr' = node[n].i_data
      /\ refcnt' = refcnt + 1
  BY <1>1, <1>2 DEF GetNewInode
<1> HIDE DEF x
<1>9. /\ node' \in [Nodes -> NodeRecs] /\ node'[n] = x
      /\ \A m \in Nodes : m # n => node'[m] = node[m]
  BY <1>4, <1>7, <1>8, NodeSet DEF MemTypes
<1>10. node[n].i_count = 0 /\ node[n].i_data = AfterNode(n) /\ node[n].next = NULL
  BY <1>1, <1>3, <1>4 DEF Memory, Layout
<1>11. freeptr' = AfterNode(n) /\ AfterNode(n) \in Nodes \cup {NULL}
  BY <1>3, <1>4, <1>8, <1>10 DEF AfterNode, Nodes
<1>12. MemTypes'
  BY <1>4, <1>8, <1>9, <1>11 DEF MemTypes
<1>13. Layout'
  <2>1. NB <= s_inodes'
    BY <1>4, <1>5, <1>8
  <2>2. ASSUME NEW m \in Nodes, m > n
        PROVE /\ node'[m].i_ino = NULL /\ node'[m].i_count = 0
              /\ node'[m].i_data = AfterNode(m) /\ node'[m].next = NULL
    <3>1. m # n /\ m > h
      BY <1>3, <1>4, <2>2
    <3> QED BY <1>1, <1>9, <3>1 DEF Memory, Layout
  <2>3. ASSUME NEW m \in Nodes, m <= n
        PROVE node'[m].i_ino \in Inos
    <3>1. m = n \/ (m # n /\ m <= h)
      BY <1>3, <1>4, <2>3
    <3> QED BY <1>1, <1>7, <1>9, <3>1 DEF Memory, Layout
  <2>4. ASSUME NEW m \in Nodes, m < n
        PROVE node'[m].next = Below(m) /\ node'[m].i_data = OWN /\ node'[m].i_count >= 1
    <3>1. m # n /\ (m < h \/ m = h)
      BY <1>3, <1>4, <2>4
    <3>2. CASE m < h
      BY <1>1, <1>9, <3>1, <3>2 DEF Memory, Layout, Old
    <3>3. CASE m = h
      BY <1>1, <1>9, <3>1, <3>3 DEF Fresh
    <3> QED BY <3>1, <3>2, <3>3
  <2>5. \A m \in Nodes : Old(m)' => m < n
    <3> SUFFICES ASSUME NEW m \in Nodes, m < n \/ m <= NB
                 PROVE m < n
      BY <1>8 DEF Old, NB
    <3> QED BY <1>3, <1>4, <1>5
  <2>6. node'[1].i_ino = Root
    <3>1. 1 \in Nodes /\ 1 # n
      BY <1>3, <1>4, Constants
    <3> QED BY <1>9, <3>1 DEF Memory, Layout
  <2> QED BY <1>8, <2>1, <2>2, <2>3, <2>4, <2>5, <2>6 DEF Layout, NB
<1>14. Distinct'
  <2> SUFFICES ASSUME NEW l \in Nodes, NEW m \in Nodes, l <= n, m <= n,
                      node'[l].i_ino = node'[m].i_ino
               PROVE l = m
    BY <1>8 DEF Distinct
  <2>1. (l = n \/ (l # n /\ l <= h)) /\ (m = n \/ (m # n /\ m <= h))
    BY <1>3, <1>4
  <2> QED BY <1>1, <1>7, <1>9, <2>1 DEF Memory, Distinct
<1>15. Fresh'
  <2>1. Below(n) = h
    BY <1>3, <1>4 DEF Below
  <2>2. refcnt' = n + Others
    <3>1. refcnt = h + Others /\ Others \in Nat
      BY <1>1, Constants DEF Fresh
    <3> QED BY <1>3, <1>4, <1>8, <3>1
  <2>3. \A j \in Inos : drops'[j] = 0
    BY DEF Fresh
  <2>4. node'[n].i_count >= 1
    BY <1>7, <1>9
  <2> QED BY <1>7, <1>8, <1>9, <1>11, <2>1, <2>2, <2>3, <2>4 DEF Fresh
<1>16. FlashKept'
  BY DEF Memory, FlashKept
<1>17. Kept(n)'
  <2>1. ~Old(n)'
    BY <1>3, <1>4, <1>5, <1>8 DEF Old, NB
  <2>2. node'[n].i_count >= 1
    BY <1>7, <1>9
  <2> QED BY <2>1, <2>2 DEF Kept
<1>18. Memory'
  BY <1>13, <1>14, <1>15, <1>16 DEF Memory
<1>19. n # 1
  BY <1>3, <1>4
<1> QED BY <1>2, <1>4, <1>7, <1>8, <1>9, <1>10, <1>12, <1>15, <1>17, <1>18, <1>19

\* get_new_inode after a drop: the object of the inode that was dropped, which
\* is at the head of s_inodes already.
LEMMA NewAgainMem ==
  ASSUME MemTypes, Memory, Freed, NEW i \in Inos, GetNewInode(i), raw' = raw, drops' = drops,
         NEW n, n = freeptr,
         \A m \in Nodes : m <= s_inodes => node[m].i_ino # i
  PROVE /\ MemTypes' /\ Memory' /\ Given'
        /\ n \in Nodes /\ n # 1 /\ Kept(n)' /\ GivenAgain(n)'
        /\ node'[n].i_ino = i
        /\ \A m \in Nodes : m # n => node'[m] = node[m]
        /\ refcnt' = refcnt + 1
<1>1. PICK h : h = s_inodes
  OBVIOUS
<1>2. PICK a : a = node[h].i_ino
  OBVIOUS
<1>3. /\ h \in Nat /\ 1 <= h /\ h <= NR_OBJ /\ NR_OBJ \in Nat /\ h \in Nodes
      /\ \A m \in Nodes : m \in Nat /\ 1 <= m /\ m <= NR_OBJ
  BY <1>1, MemFacts DEF MemTypes
<1>4. /\ freeptr = h /\ NB < h /\ NB \in Nat /\ 1 <= NB
      /\ node[h].i_data \in {AfterNode(h), h}
      /\ a \in Regs /\ a \in Inos /\ drops[a] > 0
      /\ refcnt + drops[a] = h + Others
      /\ \A j \in Inos : j # a => drops[j] = 0
  BY <1>1, <1>2, Constants DEF Freed
<1>5. a # i
  BY <1>1, <1>2, <1>3
<1> DEFINE x == [i_ino |-> i, i_count |-> 1, i_data |-> raw[i].i_zone, next |-> h]
<1>6. raw[i].i_zone = OWN
  <2>1. drops[i] = 0
    BY <1>4, <1>5
  <2> QED BY <2>1 DEF Memory, FlashKept
<1>7. x \in NodeRecs /\ x.i_ino = i /\ x.i_count = 1 /\ x.i_data = OWN /\ x.next = h
  BY <1>3, <1>6 DEF NodeRecs
<1>8. node' = [node EXCEPT ![h] = x] /\ s_inodes' = h /\ freeptr' = node[h].i_data
      /\ refcnt' = refcnt + 1
  BY <1>1, <1>4 DEF GetNewInode
<1> HIDE DEF x
<1>9. /\ node' \in [Nodes -> NodeRecs] /\ node'[h] = x
      /\ \A m \in Nodes : m # h => node'[m] = node[m]
  BY <1>3, <1>7, <1>8, NodeSet DEF MemTypes
<1>11. freeptr' \in Nodes \cup {NULL}
  BY <1>3, <1>4, <1>8 DEF AfterNode, Nodes
<1>12. MemTypes'
  BY <1>3, <1>8, <1>9, <1>11 DEF MemTypes
<1>13. Layout'
  <2>2. ASSUME NEW m \in Nodes, m > h
        PROVE /\ node'[m].i_ino = NULL /\ node'[m].i_count = 0
              /\ node'[m].i_data = AfterNode(m) /\ node'[m].next = NULL
    <3>1. m # h
      BY <1>3, <2>2
    <3> QED BY <1>1, <1>9, <2>2, <3>1 DEF Memory, Layout
  <2>3. ASSUME NEW m \in Nodes, m <= h
        PROVE node'[m].i_ino \in Inos
    BY <1>1, <1>7, <1>9, <2>3 DEF Memory, Layout
  <2>4. ASSUME NEW m \in Nodes, m < h
        PROVE node'[m].next = Below(m) /\ node'[m].i_data = OWN /\ node'[m].i_count >= 1
    <3>1. m # h
      BY <1>3, <2>4
    <3> QED BY <1>1, <1>9, <2>4, <3>1 DEF Memory, Layout, Old
  <2>5. \A m \in Nodes : Old(m)' => m < h
    <3> SUFFICES ASSUME NEW m \in Nodes, m < h \/ m <= NB
                 PROVE m < h
      BY <1>8 DEF Old, NB
    <3>1. NB \in Nat /\ NB < h /\ h \in Nat /\ m \in Nat
      BY <1>3, <1>4
    <3> QED BY <3>1
  <2>6. node'[1].i_ino = Root
    <3>1. 1 \in Nodes /\ 1 # h
      BY <1>3, <1>4, Constants
    <3> QED BY <1>9, <3>1 DEF Memory, Layout
  <2>7. NB <= h
    BY <1>3, <1>4
  <2> QED BY <1>8, <2>2, <2>3, <2>4, <2>5, <2>6, <2>7 DEF Layout, NB
<1>14. Distinct'
  <2> SUFFICES ASSUME NEW l \in Nodes, NEW m \in Nodes, l <= h, m <= h,
                      node'[l].i_ino = node'[m].i_ino
               PROVE l = m
    BY <1>8 DEF Distinct
  <2> QED BY <1>1, <1>7, <1>9 DEF Memory, Distinct
<1>15. Given'
  <2>1. \A k \in Nodes : node'[k].i_ino # a
    <3> SUFFICES ASSUME NEW k \in Nodes, node'[k].i_ino = a
                 PROVE FALSE
      OBVIOUS
    <3>1. k # h
      BY <1>5, <1>7, <1>9
    <3>2. node[k].i_ino = a
      BY <1>9, <3>1
    <3>3. k <= h
      BY <1>1, <1>4, <3>2, MemFacts
    <3> QED BY <1>1, <1>2, <1>3, <3>1, <3>2, <3>3 DEF Memory, Distinct
  <2>2. drops[i] = 0
    BY <1>4, <1>5
  <2>3. refcnt' + (drops[a] + drops[i]) = (h + 1) + Others
    <3>1. drops[a] \in Nat /\ refcnt \in Nat /\ Others \in Nat
      BY <1>4, Constants DEF MemTypes
    <3>2. PICK d : d = drops[a]
      OBVIOUS
    <3>3. refcnt + d = h + Others
      BY <1>4, <3>2
    <3> QED BY <1>3, <1>8, <2>2, <3>1, <3>2, <3>3
  <2>4. \A j \in Inos : j # a /\ j # i => drops[j] = 0
    BY <1>4
  <2>5. \E c \in Regs :
          /\ drops'[c] > 0 /\ \A k \in Nodes : node'[k].i_ino # c
          /\ refcnt' + (drops'[c] + drops'[i]) = (h + 1) + Others
          /\ \A j \in Inos : j # c /\ j # i => drops'[j] = 0
    <3> a \in Regs
      BY <1>4
    <3> WITNESS a \in Regs
    <3> QED BY <1>4, <2>1, <2>3, <2>4
  <2>6. /\ node'[h].i_ino = i /\ node'[h].next = h /\ node'[h].i_data = OWN
    BY <1>7, <1>9
  <2> QED BY <1>4, <1>8, <2>5, <2>6 DEF Given, NB
<1>16. FlashKept'
  BY DEF Memory, FlashKept
<1>17. Kept(h)' /\ GivenAgain(h)'
  <2>1. ~Old(h)'
    BY <1>3, <1>4, <1>8 DEF Old, NB
  <2>2. node'[h].i_count >= 1 /\ node'[h].next = h
    BY <1>7, <1>9
  <2> QED BY <2>1, <2>2 DEF Kept, GivenAgain
<1>18. Memory'
  BY <1>13, <1>14, <1>15, <1>16 DEF Memory
<1>19. h # 1
  BY <1>3, <1>4
<1> QED BY <1>3, <1>4, <1>7, <1>8, <1>9, <1>12, <1>15, <1>17, <1>18, <1>19

\* put_inode of an inode that keeps a reference.
LEMMA PutMem ==
  ASSUME MemTypes, Memory, NEW n \in Nodes, n <= s_inodes, node[n].i_count > 1,
         Kept(n), put_inode(n)
  PROVE /\ MemTypes' /\ Memory'
        /\ node'[n].i_count = node[n].i_count - 1
        /\ \A m \in Nodes : m # n => node'[m] = node[m]
        /\ \A m \in Nodes : GivenAgain(m)' = GivenAgain(m)
        /\ s_inodes' = s_inodes
<1> DEFINE c == node[n].i_count - 1
<1>1. node[n].i_count \in Nat /\ node[n].i_count # 0 /\ node[n].i_count # 1
  BY MemFacts
<1>2. c \in Nat /\ c >= 1
  BY <1>1
<1>3. node' = [node EXCEPT ![n].i_count = c]
  <2>1. node' = [node EXCEPT ![n].i_count = IF node[n].i_count = 0 THEN 0 ELSE c]
    BY <1>1 DEF put_inode, MemTypes
  <2> HIDE DEF c
  <2> QED BY <1>1, <2>1
<1>4. UNCHANGED <<s_inodes, freeptr, refcnt, raw, drops>>
  BY <1>1 DEF put_inode
<1> HIDE DEF c
<1>5. /\ node' \in [Nodes -> NodeRecs] /\ node'[n].i_count = c
      /\ \A m \in Nodes : m # n => node'[m] = node[m]
      /\ \A m \in Nodes : /\ node'[m].i_ino = node[m].i_ino
                          /\ node'[m].i_data = node[m].i_data
                          /\ node'[m].next = node[m].next
  BY <1>2, <1>3, NodeCount DEF MemTypes
<1>6. \A m \in Nodes : m > s_inodes => node'[m].i_count = 0
  <2> SUFFICES ASSUME NEW m \in Nodes, m > s_inodes
               PROVE node'[m].i_count = 0
    OBVIOUS
  <2>1. m # n
    BY MemFacts
  <2> QED BY <1>5, <2>1 DEF Memory, Layout
<1>7. \A m \in Nodes : node[m].i_count >= 1 => node'[m].i_count >= 1
  <2> SUFFICES ASSUME NEW m \in Nodes, node[m].i_count >= 1
               PROVE node'[m].i_count >= 1
    OBVIOUS
  <2>1. CASE m = n
    BY <1>2, <1>5, <2>1
  <2>2. CASE m # n
    BY <1>5, <2>2
  <2> QED BY <2>1, <2>2
<1>8. \A m \in Nodes : Old(m) => node'[m].i_count >= 1
  BY <1>7 DEF Memory, Layout
<1>9. Fresh => node'[s_inodes].i_count >= 1
  BY <1>7 DEF Fresh, MemTypes
<1>10. Memory' /\ \A m \in Nodes : GivenAgain(m)' = GivenAgain(m)
  BY <1>4, <1>5, <1>6, <1>8, <1>9, ShapeKept
<1>11. MemTypes'
  BY <1>4, <1>5 DEF MemTypes
<1> QED BY <1>4, <1>5, <1>10, <1>11 DEF c

\* put_inode of the last reference: it is to the inode at the head, which is
\* written back and freed.
LEMMA PutLastMem ==
  ASSUME MemTypes, Memory, NEW n \in Nodes, n <= s_inodes, node[n].i_count = 1,
         Kept(n), node[n].i_ino \in Regs, refcnt > 0, put_inode(n)
  PROVE /\ MemTypes' /\ Memory' /\ n # 1
        /\ node'[n].i_count = 0
        /\ \A m \in Nodes : m # n => node'[m] = node[m]
        /\ \A m \in Nodes : GivenAgain(m)' = GivenAgain(m)
        /\ s_inodes' = s_inodes
<1>1. PICK h : h = s_inodes
  OBVIOUS
<1>2. PICK b : b = node[h].i_ino
  OBVIOUS
<1>3. /\ h \in Nat /\ 1 <= h /\ h <= NR_OBJ /\ NR_OBJ \in Nat /\ h \in Nodes
      /\ \A m \in Nodes : m \in Nat /\ 1 <= m /\ m <= NR_OBJ
  BY <1>1, MemFacts DEF MemTypes
<1>4. NB \in Nat /\ 1 <= NB
  BY Constants
<1>5. n = h /\ NB < h
  <2>1. ~Old(n)
    BY DEF Kept
  <2>2. ~(n < h) /\ ~(n <= NB)
    BY <1>1, <2>1 DEF Old
  <2> QED BY <1>1, <1>3, <1>4, <2>2
<1>6. b \in Regs /\ b \in Inos
  BY <1>2, <1>5, Constants
<1>7. /\ raw' = [raw EXCEPT ![b] = WrittenBack(node[h])]
      /\ node' = [node EXCEPT ![h] = Destroyed(node[h])]
      /\ freeptr' = h /\ refcnt' = refcnt - 1 /\ s_inodes' = h
      /\ drops' = [drops EXCEPT ![b] = drops[b] + 1]
  BY <1>1, <1>2, <1>5, <1>6 DEF put_inode, generic_drop_inode, MemTypes
<1> DEFINE y == [node[h] EXCEPT !.i_count = 0]
           x == [y EXCEPT !.i_data = freeptr]
<1>8. /\ x \in NodeRecs /\ x.i_count = 0 /\ x.i_data = freeptr
      /\ x.i_ino = b /\ x.next = node[h].next /\ Destroyed(node[h]) = x
  <2>1. node[h] \in NodeRecs /\ freeptr \in Nodes \cup {NULL}
    BY <1>3 DEF MemTypes
  <2>2. /\ y \in NodeRecs /\ y.i_count = 0 /\ y.i_ino = node[h].i_ino
        /\ y.next = node[h].next
    BY <2>1 DEF NodeRecs
  <2>3. Destroyed(node[h]) = x
    BY <2>1 DEF Destroyed, NodeRecs
  <2> HIDE DEF y
  <2>4. /\ x \in NodeRecs /\ x.i_count = y.i_count /\ x.i_data = freeptr
        /\ x.i_ino = y.i_ino /\ x.next = y.next
    BY <2>1, <2>2 DEF NodeRecs
  <2> HIDE DEF x
  <2> QED BY <1>2, <2>2, <2>3, <2>4
<1> HIDE DEF x, y
<1>9. /\ node' \in [Nodes -> NodeRecs] /\ node'[h] = x
      /\ \A m \in Nodes : m # h => node'[m] = node[m]
  BY <1>3, <1>7, <1>8, NodeSet DEF MemTypes
<1>10. \A m \in Nodes : node'[m].i_ino = node[m].i_ino /\ node'[m].next = node[m].next
  <2> TAKE m \in Nodes
  <2>1. CASE m = h
    BY <1>2, <1>8, <1>9, <2>1
  <2>2. CASE m # h
    BY <1>9, <2>2
  <2> QED BY <2>1, <2>2
<1>11. /\ drops' \in [Inos -> Nat] /\ drops'[b] = drops[b] + 1 /\ drops[b] \in Nat
       /\ \A j \in Inos : j # b => drops'[j] = drops[j]
  <2>1. drops \in [Inos -> Nat]
    BY DEF MemTypes
  <2>2. drops[b] \in Nat /\ drops[b] + 1 \in Nat
    BY <1>6, <2>1
  <2> QED BY <1>6, <1>7, <2>1, <2>2
<1> DEFINE z == WrittenBack(node[h])
<1>12. /\ z \in RawRecs /\ z.i_zone = IF node[h].i_data = OWN THEN OWN ELSE STALE
  BY DEF WrittenBack, RawRecs, Zones
<1> HIDE DEF z
<1>13. /\ raw' \in [Inos -> RawRecs] /\ raw'[b] = z
       /\ \A j \in Inos : j # b => raw'[j] = raw[j]
  BY <1>6, <1>7, <1>12 DEF MemTypes, z
<1>14. MemTypes'
  <2>1. refcnt' \in Nat
    BY <1>7 DEF MemTypes
  <2> QED BY <1>3, <1>7, <1>9, <1>11, <1>13, <2>1 DEF MemTypes
<1>15. Layout'
  <2>1. ASSUME NEW m \in Nodes, m > h
        PROVE /\ node'[m].i_ino = NULL /\ node'[m].i_count = 0
              /\ node'[m].i_data = AfterNode(m) /\ node'[m].next = NULL
    <3>1. m # h
      BY <1>3, <2>1
    <3> QED BY <1>1, <1>9, <2>1, <3>1 DEF Memory, Layout
  <2>2. ASSUME NEW m \in Nodes, m <= h
        PROVE node'[m].i_ino \in Inos
    BY <1>1, <1>10, <2>2 DEF Memory, Layout
  <2>3. ASSUME NEW m \in Nodes, m < h
        PROVE node'[m].next = Below(m) /\ node'[m].i_data = OWN /\ node'[m].i_count >= 1
    <3>1. m # h
      BY <1>3, <2>3
    <3> QED BY <1>1, <1>9, <2>3, <3>1 DEF Memory, Layout, Old
  <2>4. \A m \in Nodes : Old(m)' => m < h
    <3> SUFFICES ASSUME NEW m \in Nodes, m < h \/ m <= NB
                 PROVE m < h
      BY <1>7 DEF Old, NB
    <3> QED BY <1>3, <1>4, <1>5
  <2>5. node'[1].i_ino = Root
    BY <1>10, Constants DEF Memory, Layout
  <2>6. NB <= h
    BY <1>3, <1>4, <1>5
  <2> QED BY <1>7, <2>1, <2>2, <2>3, <2>4, <2>5, <2>6 DEF Layout, NB
<1>16. Distinct'
  BY <1>1, <1>7, <1>10 DEF Memory, Distinct
<1>17. node[h].i_data = OWN \/ drops[b] > 0
  BY <1>1, <1>2, <1>3, MemFacts
<1>18. FlashKept'
  <2> SUFFICES ASSUME NEW j \in Inos
               PROVE /\ raw'[j].i_zone = OWN \/ drops'[j] > 1
                     /\ raw'[j].i_nlinks = OWN \/ drops'[j] > 0
    BY DEF FlashKept
  <2>1. CASE j = b
    <3>1. drops'[b] > 0 /\ (drops[b] > 0 => drops'[b] > 1)
      BY <1>11
    <3> QED BY <1>12, <1>13, <1>17, <2>1, <3>1
  <2>2. CASE j # b
    BY <1>11, <1>13, <2>2 DEF Memory, FlashKept
  <2> QED BY <2>1, <2>2
<1>19. /\ refcnt \in Nat /\ refcnt' \in Int /\ Others \in Nat
       /\ node'[h].i_ino = b /\ node'[h].next = node[h].next
       /\ node'[h].i_data = freeptr /\ drops'[b] > 0
  BY <1>7, <1>8, <1>9, <1>11, Constants DEF MemTypes
<1>20. Fresh => Freed'
  <2> SUFFICES ASSUME Fresh
               PROVE Freed'
    OBVIOUS
  <2>1. freeptr = AfterNode(h) /\ node[h].next = Below(h) /\ refcnt = h + Others
    BY <1>1 DEF Fresh
  <2>2. drops[b] = 0 /\ \A j \in Inos : j # b => drops'[j] = 0
    BY <1>6, <1>11 DEF Fresh
  <2>3. refcnt' + drops'[b] = h + Others
    <3>1. drops'[b] = 1
      BY <1>11, <2>2
    <3> QED BY <1>3, <1>7, <1>19, <2>1, <3>1
  <2> QED BY <1>5, <1>6, <1>7, <1>19, <2>1, <2>2, <2>3 DEF Freed, NB
<1>21. Freed => Freed'
  <2> SUFFICES ASSUME Freed
               PROVE Freed'
    OBVIOUS
  <2>1. /\ freeptr = h /\ node[h].next = Below(h) /\ refcnt + drops[b] = h + Others
        /\ \A j \in Inos : j # b => drops[j] = 0
    BY <1>1, <1>2 DEF Freed
  <2>2. \A j \in Inos : j # b => drops'[j] = 0
    BY <1>11, <2>1
  <2>3. refcnt' + drops'[b] = h + Others
    <3>1. PICK d \in Nat : d = drops[b]
      BY <1>11
    <3>2. refcnt + d = h + Others /\ drops'[b] = d + 1
      BY <1>11, <2>1, <3>1
    <3> QED BY <1>3, <1>7, <1>19, <3>1, <3>2
  <2> QED BY <1>5, <1>6, <1>7, <1>19, <2>1, <2>2, <2>3 DEF Freed, NB
<1>22. Given => Given'
  <2> SUFFICES ASSUME Given
               PROVE Given'
    OBVIOUS
  <2>1. PICK a \in Regs :
          /\ drops[a] > 0 /\ \A k \in Nodes : node[k].i_ino # a
          /\ refcnt + (drops[a] + drops[b]) = (h + 1) + Others
          /\ \A j \in Inos : j # a /\ j # b => drops[j] = 0
    BY <1>1, <1>2 DEF Given
  <2>2. a # b /\ a \in Inos
    BY <1>2, <1>3, <2>1, Constants
  <2>3. drops'[a] = drops[a]
    BY <1>11, <2>2
  <2>4. refcnt' + (drops'[a] + drops'[b]) = (h + 1) + Others
    <3>1. PICK d \in Nat : d = drops[b]
      BY <1>11
    <3>2. PICK e \in Nat : e = drops[a]
      BY <2>2 DEF MemTypes
    <3>3. refcnt + (e + d) = (h + 1) + Others /\ drops'[b] = d + 1 /\ drops'[a] = e
      BY <1>11, <2>1, <2>3, <3>1, <3>2
    <3> QED BY <1>3, <1>7, <1>19, <3>1, <3>2, <3>3
  <2>5. \A j \in Inos : j # a /\ j # b => drops'[j] = 0
    BY <1>11, <2>1
  <2>6. \E c \in Regs :
          /\ drops'[c] > 0 /\ \A k \in Nodes : node'[k].i_ino # c
          /\ refcnt' + (drops'[c] + drops'[b]) = (h + 1) + Others
          /\ \A j \in Inos : j # c /\ j # b => drops'[j] = 0
    <3> WITNESS a \in Regs
    <3> QED BY <1>10, <2>1, <2>3, <2>4, <2>5
  <2>7. node[h].next = h
    BY <1>1 DEF Given
  <2> QED BY <1>5, <1>6, <1>7, <1>19, <2>6, <2>7 DEF Given, NB
<1>23. Memory'
  BY <1>15, <1>16, <1>18, <1>20, <1>21, <1>22 DEF Memory
<1>24. \A m \in Nodes : GivenAgain(m)' = GivenAgain(m)
  BY <1>10 DEF GivenAgain
<1>25. n # 1
  BY <1>3, <1>4, <1>5
<1> QED BY <1>1, <1>5, <1>7, <1>8, <1>9, <1>14, <1>23, <1>24, <1>25


(***************************************************************************)
(* Counts.                                                                 *)
(***************************************************************************)
\* The descriptors of a slot.
LEMMA UsersIn ==
  ASSUME NEW f
  PROVE /\ Users(f) \subseteq Tasks \X Fds
        /\ \A u \in Tasks, d \in Fds : <<u, d>> \in Users(f) <=>
             /\ filp[u][d] = f
             /\ ~(pc[u].at \in {"namei", "loop", "null_lookup"} /\ pc[u].fd = d)
BY DEF Users, Fds

\* Two sets of descriptors with the same members.
LEMMA SamePairs ==
  ASSUME NEW A, A \subseteq Tasks \X Fds, NEW B, B \subseteq Tasks \X Fds,
         \A u \in Tasks, d \in Fds : <<u, d>> \in A <=> <<u, d>> \in B
  PROVE A = B
OBVIOUS

\* A step that leaves the descriptors alone, and which one is being filled.
LEMMA UsersKept ==
  ASSUME filp' = filp,
         NEW t \in Tasks, \A u \in Tasks : u # t => pc'[u] = pc[u],
         \/ /\ pc[t].at \notin {"namei", "loop", "null_lookup"}
            /\ pc'[t].at \notin {"namei", "loop", "null_lookup"}
         \/ /\ pc[t].at \in {"namei", "loop", "null_lookup"}
            /\ pc'[t].at \in {"namei", "loop", "null_lookup"}
            /\ pc'[t].fd = pc[t].fd
  PROVE \A f : Users(f)' = Users(f)
<1> TAKE f
<1>1. \A u \in Tasks, d \in Fds : <<u, d>> \in Users(f) <=>
             /\ filp[u][d] = f
             /\ ~(pc[u].at \in {"namei", "loop", "null_lookup"} /\ pc[u].fd = d)
  BY UsersIn
<1>2. \A u \in Tasks, d \in Fds : <<u, d>> \in Users(f)' <=>
             /\ filp'[u][d] = f
             /\ ~(pc'[u].at \in {"namei", "loop", "null_lookup"} /\ pc'[u].fd = d)
  BY DEF Users, Fds
<1>3. \A u \in Tasks, d \in Fds : <<u, d>> \in Users(f) <=> <<u, d>> \in Users(f)'
  <2> TAKE u \in Tasks, d \in Fds
  <2>1. CASE u = t
    BY <1>1, <1>2, <2>1
  <2>2. CASE u # t
    BY <1>1, <1>2, <2>2
  <2> QED BY <2>1, <2>2
<1>4. Users(f) \subseteq Tasks \X Fds /\ Users(f)' \subseteq Tasks \X Fds
  BY DEF Users, Fds
<1> QED BY <1>3, <1>4, SamePairs

\* The slots of an inode are finitely many.
LEMMA OpenFinite ==
  ASSUME NEW i
  PROVE IsFiniteSet(Open(i)) /\ Cardinality(Open(i)) \in Nat
<1>1. IsFiniteSet(Slots)
  BY Constants, FS_Interval DEF Slots
<1>2. Open(i) \subseteq Slots
  BY DEF Open
<1>3. IsFiniteSet(Open(i))
  BY <1>1, <1>2, FS_Subset
<1> QED BY <1>3, FS_CardinalityType

\* A step that leaves the inodes, the counts and inodes of the slots and the
\* users of each slot as they are.
LEMMA SharedKept ==
  ASSUME Shared, UNCHANGED <<memory, raw, drops>>,
         \A f \in Slots : /\ file_tbl'[f].f_count = file_tbl[f].f_count
                          /\ file_tbl'[f].f_inode = file_tbl[f].f_inode
                          /\ Users(f)' = Users(f)
  PROVE /\ Shared'
        /\ \A n : Open(n)' = Open(n) /\ Kept(n)' = Kept(n) /\ GivenAgain(n)' = GivenAgain(n)
        /\ \A n, k : Held(n, k)' = Held(n, k)
        /\ GivenAgain(s_inodes)' = GivenAgain(s_inodes)
<1>0. UNCHANGED <<node, s_inodes, freeptr, refcnt, raw, drops>>
  BY DEF memory
<1>1. \A n : Open(n)' = Open(n)
  BY DEF Open
<1>2. \A n : Kept(n)' = Kept(n) /\ GivenAgain(n)' = GivenAgain(n)
  BY <1>0 DEF Kept, Old, GivenAgain
<1>3. \A n, k : Held(n, k)' = Held(n, k)
  BY <1>0, <1>1, <1>2 DEF Held
<1>4. Memory'
  <2>1. Layout' /\ Distinct' /\ FlashKept'
    BY <1>0 DEF Shared, Memory, Layout, Distinct, FlashKept, Old
  <2>2. (Fresh => Fresh') /\ (Freed => Freed') /\ (Given => Given')
    BY <1>0 DEF Fresh, Freed, Given
  <2> QED BY <2>1, <2>2 DEF Shared, Memory
<1>5. SlotUsers'
  BY DEF Shared, SlotUsers
<1>6. Referenced'
  BY <1>3 DEF Shared, Referenced, Counted
<1>7. GivenAgain(s_inodes)' = GivenAgain(s_inodes)
  BY <1>0 DEF GivenAgain
<1> QED BY <1>1, <1>2, <1>3, <1>4, <1>5, <1>6, <1>7 DEF Shared

(***************************************************************************)
(* One call at a time: a step of a task finds the others in their programs *)
(* and leaves them there.                                                  *)
(***************************************************************************)
\* A task that returns to its program has nothing to keep.
LEMMA ReturnOK ==
  ASSUME NEW t \in Tasks, pc'[t].at \in {"user", "dead"}, pc'[t].path = << >>, pc'[t].done = 0
  PROVE TaskOK(t)'
<1>1. pc'[t].done \in 0..Len(pc'[t].path)
  BY UserFields
<1>2. Filling(t)' /\ Executing(t)' /\ RunsExact(t)' /\ FaultExact(t)'
  BY DEF Filling, Executing, RunsExact, FaultExact, At
<1> QED BY <1>1, <1>2 DEF TaskOK

\* A task that idles stays as it is while another one moves: an object that
\* is linked to itself stays so.
LEMMA IdleKept ==
  ASSUME NEW u \in Tasks, ~Busy(u), TaskOK(u), pc'[u] = pc[u],
         GivenAgain(s_inodes) => GivenAgain(s_inodes)'
  PROVE ~Busy(u)' /\ TaskOK(u)'
<1>1. ~Busy(u)'
  BY DEF Busy
<1>2. /\ pc'[u].done \in 0..Len(pc'[u].path)
      /\ pc'[u].at \in {"user", "dead"} => pc'[u].path = << >>
  BY DEF TaskOK
<1>3. Filling(u)' /\ Executing(u)' /\ RunsExact(u)'
  BY DEF Busy, Filling, Executing, RunsExact, At
<1>4. FaultExact(u)'
  BY DEF Busy, TaskOK, FaultExact, At
<1> QED BY <1>1, <1>2, <1>3, <1>4 DEF TaskOK

\* The pieces make the invariant.
LEMMA Assembled ==
  ASSUME IInv, NEW t \in Tasks, \A u \in Tasks : u # t => ~Busy(u),
         Types', \A u \in Tasks : u # t => pc'[u] = pc[u],
         Shared', TaskOK(t)', GivenAgain(s_inodes) => GivenAgain(s_inodes)'
  PROVE IInv'
<1>1. \A u \in Tasks : u # t => ~Busy(u)' /\ TaskOK(u)'
  BY IdleKept DEF IInv
<1>2. OneCall'
  BY <1>1 DEF OneCall
<1> QED BY <1>1, <1>2 DEF IInv

(***************************************************************************)
(* file_open.                                                              *)
(***************************************************************************)
\* file_open returns an error.
LEMMA Failed ==
  ASSUME pc \in [Tasks -> Locals], NEW t \in Tasks, NEW n, NEW p \in Paths,
         NEW c \in {-1, -2, -3}, Fail(t, n, p, c),
         c = -3 => /\ Target(p) = NULL
                   /\ \A k \in 1..(Len(p) - 1) : Target(SubSeq(p, 1, k)) \notin Regs
  PROVE /\ pc' \in [Tasks -> Locals] /\ \A u \in Tasks : u # t => pc'[u] = pc[u]
        /\ pc'[t].at \in {"user", "wild"}
        /\ TaskOK(t)'
<1> DEFINE e == [at |-> "wild", svc |-> NULL, path |-> p, done |-> 0, fd |-> c, f |-> NULL,
                 dir |-> NULL, got |-> NULL]
           m == IF syscall_table[n + 1] = "sys_open" THEN user ELSE e
<1>2. "wild" \in Places /\ c \in -3..NR_OPEN /\ 0 \in Nat
  BY Constants DEF Places
<1>3. e \in Locals
  <2>1. NULL \in Numbers \cup {NULL} /\ p \in Paths \cup {<< >>}
        /\ NULL \in Slots \cup {NULL} /\ NULL \in Nodes \cup {NULL}
        /\ NULL \in (Inos \X Zones) \cup {NULL}
    OBVIOUS
  <2> QED BY <1>2, <2>1, LocalsMade
<1>4. e.at = "wild" /\ e.path = p /\ e.done = 0 /\ e.fd = c
  OBVIOUS
<1>5. pc' = [pc EXCEPT ![t] = m]
  BY DEF Fail
<1> HIDE DEF e
<1>6. m \in Locals
  BY <1>3, UserFields
<1> HIDE DEF m
<1>7. /\ pc' \in [Tasks -> Locals] /\ \A u \in Tasks : u # t => pc'[u] = pc[u]
      /\ pc'[t] = m
  BY <1>5, <1>6, PcSet
<1>8. CASE m = user
  <2>1. TaskOK(t)'
    BY <1>7, <1>8, UserFields, ReturnOK
  <2> QED BY <1>7, <1>8, <2>1, UserFields
<1>9. CASE m = e
  <2>1. Len(p) \in Nat
    BY FilesAssumption
  <2>2. pc'[t].done \in 0..Len(pc'[t].path)
    BY <1>4, <1>7, <1>9, <2>1
  <2>3. pc'[t].at = "wild" /\ Busy(t)'
    BY <1>4, <1>7, <1>9 DEF Busy
  <2>4. Filling(t)' /\ Executing(t)' /\ RunsExact(t)'
    BY <2>3 DEF Filling, Executing, RunsExact, At
  <2>5. FaultExact(t)'
    BY <1>4, <1>7, <1>9 DEF FaultExact, At
  <2> QED BY <1>7, <2>2, <2>3, <2>4, <2>5 DEF TaskOK
<1> QED BY <1>8, <1>9 DEF m

\* A call begins in a program, and with one call at a time in no other task.
LEMMA SvcAlone ==
  ASSUME ~Overlap, IInv, NEW t \in Tasks, NEW n, NEW fs, Svc(t, n, fs)
  PROVE /\ pc[t].at = "user" /\ pc[t].path = << >> /\ pc[t].done = 0
        /\ \A u \in Tasks : ~Busy(u)
        /\ refcnt > 0
<1>1. refcnt > 0 /\ pc[t].at = "user" /\ \A u \in Tasks : ~Busy(u)
  BY DEF Svc, At, Busy
<1>2. pc[t].path = << >>
  BY <1>1 DEF IInv, TaskOK
<1>3. pc[t].done \in 0..Len(pc[t].path)
  BY DEF IInv, TaskOK
<1> QED BY <1>1, <1>2, <1>3, UserFields

\* While a task is in a call, no other is.
LEMMA BusyAlone ==
  ASSUME IInv, NEW t \in Tasks, pc[t].at \notin {"user", "dead", "loop"}
  PROVE \A u \in Tasks : u # t => ~Busy(u)
BY DEF IInv, OneCall, Busy

\* file_open takes a descriptor and a slot.
LEMMA OpenBeginInv ==
  ASSUME ~Overlap, IInv, NEW t \in Tasks, NEW n \in Numbers, NEW p \in Paths, OpenBegin(t, n, p)
  PROVE IInv'
<1> USE DEF IInv
<1>1. pc[t].at = "user" /\ refcnt > 0 /\ \A u \in Tasks : ~Busy(u)
  BY SvcAlone DEF OpenBegin
<1>2. UNCHANGED <<node, s_inodes, freeptr, refcnt, raw, file_tbl, drops>>
  BY DEF OpenBegin, memory
<1>3. pc \in [Tasks -> Locals]
  BY DEF Types
<1>4. ASSUME NEW c \in {-1, -2}, Fail(t, n, p, c), filp' = filp
      PROVE IInv'
  <2>1. /\ pc' \in [Tasks -> Locals] /\ \A u \in Tasks : u # t => pc'[u] = pc[u]
        /\ pc'[t].at \in {"user", "wild"} /\ TaskOK(t)'
    BY <1>3, <1>4, Failed
  <2>2. \A f : Users(f)' = Users(f)
    BY <1>1, <1>4, <2>1, UsersKept
  <2>3. Types'
    BY <1>2, <1>4, <2>1 DEF Types, MemTypes
  <2>4. Shared' /\ GivenAgain(s_inodes)' = GivenAgain(s_inodes)
    BY <1>2, <2>2, SharedKept DEF memory
  <2> HIDE DEF IInv
  <2> QED BY <1>1, <2>1, <2>3, <2>4, Assembled
<1>5. CASE FreeFds(t) # {} /\ FreeSlots(file_tbl) # {}
  <2> DEFINE fd == Lowest(FreeFds(t))
             f == Lowest(FreeSlots(file_tbl))
             e == [at |-> "namei", svc |-> n, path |-> p, done |-> 0, fd |-> fd, f |-> f,
                   dir |-> root_inode, got |-> NULL]
  <2>1. fd \in Fds /\ filp[t][fd] = NULL
    <3>1. FreeFds(t) \subseteq Nat
      BY Constants DEF FreeFds
    <3>2. fd \in FreeFds(t)
      BY <1>5, <3>1, LowestIn
    <3> QED BY <3>2 DEF FreeFds, Fds
  <2>2. f \in Slots /\ file_tbl[f].f_count = 0
    <3>0. DOMAIN file_tbl = Slots
      BY DEF Types
    <3>1. FreeSlots(file_tbl) \subseteq Nat
      BY <3>0, Constants DEF FreeSlots, Slots
    <3>2. f \in FreeSlots(file_tbl)
      BY <1>5, <3>1, LowestIn
    <3> QED BY <3>0, <3>2 DEF FreeSlots
  <2>3. filp' = [filp EXCEPT ![t][fd] = f] /\ pc' = [pc EXCEPT ![t] = e]
    BY <1>5 DEF OpenBegin
  <2> HIDE DEF fd, f
  <2>5. e \in Locals
    <3>1. "namei" \in Places /\ fd \in -3..NR_OPEN /\ 0 \in Nat
      BY <2>1, Constants DEF Places, Fds
    <3>2. n \in Numbers \cup {NULL} /\ p \in Paths \cup {<< >>} /\ root_inode \in Nodes \cup {NULL}
          /\ f \in Slots \cup {NULL} /\ NULL \in (Inos \X Zones) \cup {NULL}
      BY <2>2, Constants DEF root_inode
    <3> QED BY <3>1, <3>2, LocalsMade
  <2>6. /\ pc' \in [Tasks -> Locals] /\ \A u \in Tasks : u # t => pc'[u] = pc[u]
        /\ pc'[t] = e
    BY <1>3, <2>3, <2>5, PcSet
  <2>7. /\ pc'[t].at = "namei" /\ pc'[t].path = p /\ pc'[t].done = 0 /\ pc'[t].fd = fd
        /\ pc'[t].f = f /\ pc'[t].dir = 1
    BY <2>6 DEF root_inode
  <2> HIDE DEF e
  <2>8. /\ filp' \in [Tasks -> [Fds -> Slots \cup {NULL}]] /\ filp'[t][fd] = f
        /\ \A u \in Tasks, d \in Fds : u # t \/ d # fd => filp'[u][d] = filp[u][d]
    BY <2>1, <2>2, <2>3 DEF Types
  <2>9. \A g \in Slots : Users(g)' = Users(g)
    <3> TAKE g \in Slots
    <3>1. \A u \in Tasks, d \in Fds : <<u, d>> \in Users(g) <=>
             /\ filp[u][d] = g
             /\ ~(pc[u].at \in {"namei", "loop", "null_lookup"} /\ pc[u].fd = d)
      BY UsersIn
    <3>2. \A u \in Tasks, d \in Fds : <<u, d>> \in Users(g)' <=>
             /\ filp'[u][d] = g
             /\ ~(pc'[u].at \in {"namei", "loop", "null_lookup"} /\ pc'[u].fd = d)
      BY DEF Users, Fds
    <3>3. \A u \in Tasks, d \in Fds : <<u, d>> \in Users(g) <=> <<u, d>> \in Users(g)'
      <4> TAKE u \in Tasks, d \in Fds
      <4>1. CASE u # t
        BY <2>6, <2>8, <3>1, <3>2, <4>1
      <4>2. CASE u = t /\ d # fd
        BY <1>1, <2>7, <2>8, <3>1, <3>2, <4>2
      <4>3. CASE u = t /\ d = fd
        BY <2>1, <2>7, <3>1, <3>2, <4>3, Constants
      <4> QED BY <4>1, <4>2, <4>3
    <3>4. Users(g) \subseteq Tasks \X Fds /\ Users(g)' \subseteq Tasks \X Fds
      BY DEF Users, Fds
    <3> QED BY <3>3, <3>4, SamePairs
  <2>10. Types'
    BY <1>2, <2>6, <2>8 DEF Types, MemTypes
  <2>11. Shared' /\ GivenAgain(s_inodes)' = GivenAgain(s_inodes)
    BY <1>2, <2>9, SharedKept DEF memory
  <2>12. TaskOK(t)'
    <3>1. p \in Seq(STRING) /\ Len(p) \in Nat
      BY FilesAssumption
    <3>2. Target(SubSeq(p, 1, 0)) = Root
      BY <3>1, TargetSteps
    <3>3. pc'[t].done \in 0..Len(pc'[t].path) /\ Busy(t)'
      BY <2>7, <3>1 DEF Busy
    <3>4. Executing(t)' /\ RunsExact(t)' /\ FaultExact(t)'
      BY <2>7 DEF Executing, RunsExact, FaultExact, At
    <3>5. Filling(t)'
      <4>1. \A k \in Nat : ~(k < 0)
        OBVIOUS
      <4>2. file_tbl'[f].f_count = 0
        BY <1>2, <2>2
      <4>3. node'[1].i_ino = Root /\ refcnt' > 0
        BY <1>1, <1>2 DEF Shared, Memory, Layout
      <4> QED BY <2>1, <2>2, <2>7, <2>8, <3>2, <4>1, <4>2, <4>3, Constants
          DEF Filling, root_inode
    <3> QED BY <2>7, <3>3, <3>4, <3>5 DEF TaskOK
  <2> HIDE DEF IInv
  <2> QED BY <1>1, <2>6, <2>10, <2>11, <2>12, Assembled
<1> QED BY <1>4, <1>5 DEF OpenBegin

(***************************************************************************)
(* namei.                                                                  *)
(***************************************************************************)
\* Beyond a name that is not there, a path designates nothing.
LEMMA TargetLost ==
  ASSUME NEW p \in Seq(STRING), NEW n \in 0..Len(p), Target(SubSeq(p, 1, n)) = NULL
  PROVE \A k \in n..Len(p) : Target(SubSeq(p, 1, k)) = NULL
<1> DEFINE S == {j \in Nat : n + j <= Len(p) => Target(SubSeq(p, 1, n + j)) = NULL}
<1>1. Len(p) \in Nat /\ n \in Nat /\ n + 0 = n
  OBVIOUS
<1>2. 0 \in S
  BY <1>1
<1>3. ASSUME NEW j \in Nat, j \in S
      PROVE j + 1 \in S
  <2> SUFFICES ASSUME n + (j + 1) <= Len(p)
               PROVE Target(SubSeq(p, 1, n + (j + 1))) = NULL
    OBVIOUS
  <2>1. n + j \in Nat /\ n + j < Len(p) /\ n + j <= Len(p) /\ n + (j + 1) = (n + j) + 1
    BY <1>1
  <2>2. Target(SubSeq(p, 1, n + j)) = NULL
    BY <1>3, <2>1
  <2>3. Target(SubSeq(p, 1, (n + j) + 1)) = Lookup(Target(SubSeq(p, 1, n + j)), p[(n + j) + 1])
    BY <2>1, TargetSteps
  <2>4. Target(SubSeq(p, 1, (n + j) + 1)) = NULL
    BY <2>2, <2>3, Constants DEF Lookup
  <2> QED BY <2>1, <2>4
<1> HIDE DEF S
<1>4. \A j \in Nat : j \in S
  BY <1>2, <1>3, SetInduction
<1> SUFFICES ASSUME NEW k \in n..Len(p)
             PROVE Target(SubSeq(p, 1, k)) = NULL
  OBVIOUS
<1>5. k - n \in Nat /\ n + (k - n) = k /\ k <= Len(p)
  BY <1>1
<1>6. k - n \in S
  BY <1>4, <1>5
<1> QED BY <1>5, <1>6 DEF S

\* A step that changes one object and no slot.
LEMMA ReferencedKept ==
  ASSUME Referenced, file_tbl' = file_tbl, NEW n \in Nodes,
         \A m \in Nodes : m # n => node'[m] = node[m],
         Counted(n) => Held(n, 0)'
  PROVE Referenced'
<1> SUFFICES ASSUME NEW m \in Nodes, Counted(m)
             PROVE Held(m, 0)'
  BY DEF Referenced, Counted
<1>1. CASE m = n
  BY <1>1
<1>2. CASE m # n
  <2>1. Held(m, 0) /\ Open(m)' = Open(m) /\ node'[m] = node[m]
    BY <1>2 DEF Referenced, Open
  <2> QED BY <2>1 DEF Held, GivenAgain
<1> QED BY <1>1, <1>2

\* A reference more than the slots need.
LEMMA HeldMore ==
  ASSUME NEW n \in Nodes, node[n].i_count \in Nat, file_tbl' = file_tbl,
         node[n].i_count >= Cardinality(Open(n)), node'[n].i_count = node[n].i_count + 1
  PROVE Held(n, 1)' /\ Held(n, 0)'
<1>1. Open(n)' = Open(n)
  BY DEF Open
<1>2. PICK c : c = Cardinality(Open(n))
  OBVIOUS
<1>3. PICK x : x = node[n].i_count
  OBVIOUS
<1>4. c \in Nat /\ x \in Nat /\ x >= c
  BY <1>2, <1>3, OpenFinite
<1>5. x + 1 >= c + 1 /\ x + 1 >= c + 0
  BY <1>4
<1>6. node'[n].i_count = x + 1 /\ Cardinality(Open(n)') = c
  BY <1>1, <1>2, <1>3
<1> QED BY <1>5, <1>6, Zenon DEF Held

\* get_inode: the search never ends, because the memory of a dropped inode has
\* gone to another one; or it returns an inode of the number with a reference
\* for the caller.
LEMMA GotInode ==
  ASSUME MemTypes, Memory, Referenced, NEW t \in Tasks, NEW i \in Inos, get_inode(t, i),
         raw' = raw, drops' = drops, file_tbl' = file_tbl, refcnt > 0
  PROVE \/ /\ pc' = [pc EXCEPT ![t].at = "loop"] /\ UNCHANGED memory /\ GivenAgain(s_inodes)
        \/ \E n \in Nodes :
             /\ pc' = [pc EXCEPT ![t].dir = n, ![t].done = @ + 1]
             /\ MemTypes' /\ Memory' /\ Referenced' /\ Kept(n)' /\ node'[n].i_ino = i
             /\ Counted(n) => Held(n, 1)'
             /\ refcnt' > 0 /\ (GivenAgain(s_inodes) => GivenAgain(s_inodes)')
<1> DEFINE Returned(n) ==
             /\ pc' = [pc EXCEPT ![t].dir = n, ![t].done = @ + 1]
             /\ MemTypes' /\ Memory' /\ Referenced' /\ Kept(n)' /\ node'[n].i_ino = i
             /\ Counted(n) => Held(n, 1)'
             /\ refcnt' > 0 /\ (GivenAgain(s_inodes) => GivenAgain(s_inodes)')
<1>1. PICK r : r = Visit(i)[NR_OBJ]
  OBVIOUS
<1>2. PICK h : h = s_inodes
  OBVIOUS
<1>3. h \in Nodes /\ h \in Nat /\ 1 <= h
  BY <1>2, MemFacts DEF MemTypes
<1>4. ASSUME r \in Nodes, r <= h, node[r].i_ino = i
      PROVE \E n \in Nodes : Returned(n)
  <2> r \in Nodes
    BY <1>4
  <2>1. r # NULL
    BY Constants
  <2>2. /\ node' = [node EXCEPT ![r].i_count = @ + 1]
        /\ pc' = [pc EXCEPT ![t].dir = r, ![t].done = @ + 1]
        /\ UNCHANGED <<s_inodes, freeptr, refcnt>>
    BY <1>1, <1>4, <2>1 DEF get_inode
  <2>3. /\ MemTypes' /\ Memory' /\ Kept(r)'
        /\ node'[r].i_count = node[r].i_count + 1 /\ node'[r].i_ino = node[r].i_ino
        /\ \A m \in Nodes : m # r => node'[m] = node[m]
        /\ \A m \in Nodes : GivenAgain(m)' = GivenAgain(m)
    BY <1>2, <1>4, <2>2, FoundMem
  <2>4. Counted(r) => Held(r, 1)' /\ Held(r, 0)'
    <3> SUFFICES ASSUME Counted(r)
                 PROVE Held(r, 1)' /\ Held(r, 0)'
      OBVIOUS
    <3>1. Held(r, 0)
      BY DEF Referenced
    <3>2. CASE GivenAgain(r)
      BY <2>3, <3>2 DEF Held
    <3>3. CASE ~GivenAgain(r)
      <4>1. node[r].i_count >= Cardinality(Open(r)) + 0
        BY <3>1, <3>3 DEF Held
      <4>2. node[r].i_count \in Nat /\ Cardinality(Open(r)) \in Nat
        BY MemFacts, OpenFinite
      <4>3. node[r].i_count >= Cardinality(Open(r))
        BY <4>1, <4>2
      <4> QED BY <2>3, <4>2, <4>3, HeldMore
    <3> QED BY <3>2, <3>3
  <2>5. Referenced'
    BY <2>3, <2>4, ReferencedKept
  <2>6. GivenAgain(s_inodes)' = GivenAgain(s_inodes)
    <3>1. GivenAgain(h)' = GivenAgain(h)
      BY <1>3, <2>3
    <3> QED BY <1>2, <2>2, <3>1 DEF GivenAgain
  <2>7. refcnt' > 0
    BY <2>2
  <2>8. Returned(r)
    BY <1>4, <2>2, <2>3, <2>4, <2>5, <2>6, <2>7
  <2> HIDE DEF Returned
  <2> QED BY <2>8
<1>5. CASE node[h].next = h
  <2>1. r = h
    BY <1>1, <1>2, <1>5, WalkStays
  <2>2. CASE node[h].i_ino = i
    <3>1. h <= h
      BY <1>3
    <3> QED BY <1>3, <1>4, <2>1, <2>2, <3>1
  <2>3. CASE node[h].i_ino # i
    <3>1. h # NULL
      BY <1>3, Constants
    <3>2. pc' = [pc EXCEPT ![t].at = "loop"] /\ UNCHANGED memory
      BY <1>1, <2>1, <2>3, <3>1 DEF get_inode
    <3> QED BY <1>2, <1>5, <3>2 DEF GivenAgain
  <2> QED BY <2>2, <2>3
<1>6. CASE node[h].next # h
  <2>1. node[s_inodes].next = Below(s_inodes) /\ (Fresh \/ Freed)
    BY <1>2, <1>6 DEF Memory, Fresh, Freed, Given
  <2>2. \/ r = NULL /\ \A n \in Nodes : n <= s_inodes => node[n].i_ino # i
        \/ r \in Nodes /\ r <= s_inodes /\ node[r].i_ino = i
    BY <1>1, <2>1, WalkEnds
  <2>3. CASE r \in Nodes /\ r <= s_inodes /\ node[r].i_ino = i
    BY <1>2, <1>4, <2>3
  <2>4. CASE r = NULL /\ \A n \in Nodes : n <= s_inodes => node[n].i_ino # i
    <3>1. PICK n : n = freeptr
      OBVIOUS
    <3>2. GetNewInode(i) /\ pc' = [pc EXCEPT ![t].dir = n, ![t].done = @ + 1]
      BY <1>1, <2>4, <3>1 DEF get_inode
    <3>3. ~GivenAgain(s_inodes)
      BY <1>2, <1>6 DEF GivenAgain
    <3>4. CASE Fresh
      <4>1. /\ MemTypes' /\ Memory' /\ n \in Nodes /\ n # 1 /\ node[n].i_count = 0
            /\ node[n].next = NULL /\ Kept(n)' /\ node'[n].i_count = 1 /\ node'[n].i_ino = i
            /\ \A m \in Nodes : m # n => node'[m] = node[m]
            /\ refcnt' = refcnt + 1
        BY <2>4, <3>1, <3>2, <3>4, NewMem
      <4> n \in Nodes
        BY <4>1
      <4>2. Held(n, 1)' /\ Held(n, 0)'
        <5>1. Counted(n) /\ n # NULL
          BY <4>1, Constants DEF Counted, root_inode
        <5>2. ~GivenAgain(n)
          BY <4>1, <5>1 DEF GivenAgain
        <5>3. node[n].i_count >= Cardinality(Open(n)) + 0
          BY <5>1, <5>2 DEF Referenced, Held
        <5>4. node[n].i_count >= Cardinality(Open(n)) /\ node[n].i_count \in Nat
          BY <4>1, <5>3, OpenFinite
        <5>5. node'[n].i_count = node[n].i_count + 1
          BY <4>1
        <5> QED BY <5>4, <5>5, HeldMore
      <4>3. Referenced'
        BY <4>1, <4>2, ReferencedKept
      <4>4. refcnt' > 0
        BY <4>1 DEF MemTypes
      <4>5. Returned(n)
        BY <3>2, <3>3, <4>1, <4>2, <4>3, <4>4
      <4>6. \E m \in Nodes : Returned(m)
        <5> HIDE DEF Returned
        <5> QED BY <4>5
      <4> QED BY <4>6
    <3>5. CASE Freed
      <4>1. /\ MemTypes' /\ Memory' /\ n \in Nodes /\ Kept(n)' /\ GivenAgain(n)'
            /\ node'[n].i_ino = i
            /\ \A m \in Nodes : m # n => node'[m] = node[m]
            /\ refcnt' = refcnt + 1
        BY <2>4, <3>1, <3>2, <3>5, NewAgainMem
      <4> n \in Nodes
        BY <4>1
      <4>2. Held(n, 1)' /\ Held(n, 0)'
        BY <4>1 DEF Held
      <4>3. Referenced'
        BY <4>1, <4>2, ReferencedKept
      <4>4. refcnt' > 0
        BY <4>1 DEF MemTypes
      <4>5. Returned(n)
        BY <3>2, <3>3, <4>1, <4>2, <4>3, <4>4
      <4>6. \E m \in Nodes : Returned(m)
        <5> HIDE DEF Returned
        <5> QED BY <4>5
      <4> QED BY <4>6
    <3> QED BY <2>1, <3>4, <3>5
  <2> QED BY <2>2, <2>3, <2>4
<1> QED BY <1>5, <1>6

\* A lookup of namei.
LEMMA NameiInv ==
  ASSUME IInv, NEW t \in Tasks, namei(t)
  PROVE IInv'
<1> USE DEF IInv
<1> DEFINE l == pc[t]
           p == l.path
<1>1. l.at = "namei" /\ l.done < Len(p) /\ UNCHANGED <<raw, drops>>
  BY DEF namei, At
<1>2. \A u \in Tasks : u # t => ~Busy(u)
  BY <1>1, BusyAlone
<1>3. pc \in [Tasks -> Locals] /\ l \in Locals /\ l.done \in Nat
  BY LocalsFields DEF Types
<1>4. Filling(t) /\ l.done \in 0..Len(p)
  BY DEF TaskOK
<1> PICK m : m = l.dir
  OBVIOUS
<1> PICK x : x = node[m].i_ino
  OBVIOUS
<1> PICK i : i = Lookup(x, p[l.done + 1])
  OBVIOUS
<1>5. /\ p \in Paths /\ refcnt > 0 /\ m \in Nodes /\ x \in Inos
      /\ x = Target(SubSeq(p, 1, l.done))
      /\ \A k \in Nat : k < l.done => Target(SubSeq(p, 1, k)) \in Dirs
      /\ l.fd \in Fds /\ l.f \in Slots
      /\ filp[t][l.fd] = l.f /\ file_tbl[l.f].f_count = 0
  BY <1>1, <1>4 DEF Filling, At
<1>6. p \in Seq(STRING) /\ Len(p) \in Nat
  BY <1>5, FilesAssumption
<1>7. Target(SubSeq(p, 1, l.done + 1)) = i
  BY <1>1, <1>3, <1>5, <1>6, TargetSteps
<1>8. x \in Dirs => Entries(m, p[l.done + 1]) = {i}
  <2> SUFFICES ASSUME x \in Dirs
               PROVE node[m].i_data = OWN
    BY DEF Entries
  <2>1. x \notin Regs
    BY <1>5, Constants
  <2> QED BY <1>5, <2>1, MemFacts DEF Types, Shared
<1>9. CASE x \in Regs
  <2>1. pc' = [pc EXCEPT ![t].at = "null_lookup"] /\ UNCHANGED memory
        /\ file_tbl' = file_tbl /\ filp' = filp
    <3>1. x \notin Dirs
      BY <1>5, <1>9, Constants
    <3> QED BY <1>9, <3>1 DEF namei
  <2>2. "null_lookup" \in Places
    BY DEF Places
  <2>3. /\ pc' \in [Tasks -> Locals] /\ \A u \in Tasks : u # t => pc'[u] = pc[u]
        /\ pc'[t].at = "null_lookup" /\ pc'[t].path = p /\ pc'[t].done = l.done
        /\ pc'[t].fd = l.fd
    BY <1>3, <2>1, <2>2, PcAt
  <2>4. \A f : Users(f)' = Users(f)
    BY <1>1, <2>1, <2>3, UsersKept
  <2>5. Types'
    BY <1>1, <2>1, <2>3 DEF Types, MemTypes, memory
  <2>6. Shared' /\ GivenAgain(s_inodes)' = GivenAgain(s_inodes)
    BY <1>1, <2>1, <2>4, SharedKept
  <2>7. TaskOK(t)'
    <3>1. pc'[t].done \in 0..Len(pc'[t].path) /\ Busy(t)'
      BY <1>4, <2>3 DEF Busy
    <3>2. Filling(t)' /\ Executing(t)' /\ RunsExact(t)'
      BY <2>3 DEF Filling, Executing, RunsExact, At
    <3>3. l.done # 0
      BY <1>5, <1>6, <1>9, TargetSteps, Constants
    <3>4. l.done \in 1..(Len(p) - 1)
      BY <1>1, <1>3, <1>6, <3>3
    <3>5. \E k \in 1..(Len(p) - 1) : Target(SubSeq(p, 1, k)) \in Regs
      BY <1>5, <1>9, <3>4
    <3>6. FaultExact(t)'
      BY <2>3, <3>5 DEF FaultExact, At
    <3> QED BY <2>3, <3>1, <3>2, <3>6 DEF TaskOK
  <2> HIDE DEF IInv
  <2> QED BY <1>2, <2>3, <2>5, <2>6, <2>7, Assembled
<1>10. CASE x \in Dirs /\ i = NULL
  <2>0. x \notin Regs
    BY <1>5, <1>10, Constants
  <2>1. /\ filp' = [filp EXCEPT ![t][l.fd] = NULL]
        /\ file_tbl' = [file_tbl EXCEPT ![l.f].f_count = 0]
        /\ Fail(t, l.svc, p, -3)
        /\ UNCHANGED memory
    BY <1>1, <1>10, <1>8, <2>0 DEF namei
  <2>2. /\ Target(p) = NULL
        /\ \A k \in 1..(Len(p) - 1) : Target(SubSeq(p, 1, k)) \notin Regs
    <3>1. l.done + 1 \in 0..Len(p)
      BY <1>1, <1>3, <1>6
    <3>2. \A k \in (l.done + 1)..Len(p) : Target(SubSeq(p, 1, k)) = NULL
      BY <1>6, <1>7, <1>10, <3>1, TargetLost
    <3>3. Target(p) = NULL
      <4>1. Len(p) \in (l.done + 1)..Len(p)
        BY <1>1, <1>3, <1>6
      <4>2. Target(SubSeq(p, 1, Len(p))) = NULL
        BY <3>2, <4>1
      <4> QED BY <1>6, <4>2, TargetSteps
    <3>4. ASSUME NEW k \in 1..(Len(p) - 1)
          PROVE Target(SubSeq(p, 1, k)) \notin Regs
      <4>1. k \in Nat /\ (k < l.done \/ k = l.done \/ k \in (l.done + 1)..Len(p))
        BY <1>3, <1>6
      <4>2. CASE k < l.done
        BY <1>5, <4>1, <4>2, Constants
      <4>3. CASE k = l.done
        BY <1>5, <2>0, <4>3
      <4>4. CASE k \in (l.done + 1)..Len(p)
        BY <3>2, <4>4, Constants
      <4> QED BY <4>1, <4>2, <4>3, <4>4
    <3> QED BY <3>3, <3>4
  <2>3. /\ pc' \in [Tasks -> Locals] /\ \A u \in Tasks : u # t => pc'[u] = pc[u]
        /\ pc'[t].at \in {"user", "wild"} /\ TaskOK(t)'
    BY <1>3, <1>5, <2>1, <2>2, Failed
  <2>4. /\ filp' \in [Tasks -> [Fds -> Slots \cup {NULL}]] /\ filp'[t][l.fd] = NULL
        /\ \A u \in Tasks, d \in Fds : u # t \/ d # l.fd => filp'[u][d] = filp[u][d]
    BY <1>5, <2>1 DEF Types
  <2>5. /\ file_tbl' \in [Slots -> FileRecs]
        /\ \A f \in Slots : /\ file_tbl'[f].f_count = file_tbl[f].f_count
                            /\ file_tbl'[f].f_inode = file_tbl[f].f_inode
    BY <1>5, <2>1 DEF Types, FileRecs
  <2>6. \A g \in Slots : Users(g)' = Users(g)
    <3> TAKE g \in Slots
    <3>1. \A u \in Tasks, d \in Fds : <<u, d>> \in Users(g) <=>
             /\ filp[u][d] = g
             /\ ~(pc[u].at \in {"namei", "loop", "null_lookup"} /\ pc[u].fd = d)
      BY UsersIn
    <3>2. \A u \in Tasks, d \in Fds : <<u, d>> \in Users(g)' <=>
             /\ filp'[u][d] = g
             /\ ~(pc'[u].at \in {"namei", "loop", "null_lookup"} /\ pc'[u].fd = d)
      BY DEF Users, Fds
    <3>3. \A u \in Tasks, d \in Fds : <<u, d>> \in Users(g) <=> <<u, d>> \in Users(g)'
      <4> TAKE u \in Tasks, d \in Fds
      <4>1. CASE u # t
        BY <2>3, <2>4, <3>1, <3>2, <4>1
      <4>2. CASE u = t /\ d # l.fd
        BY <2>3, <2>4, <3>1, <3>2, <4>2
      <4>3. CASE u = t /\ d = l.fd
        BY <1>1, <2>4, <3>1, <3>2, <4>3, Constants
      <4> QED BY <4>1, <4>2, <4>3
    <3>4. Users(g) \subseteq Tasks \X Fds /\ Users(g)' \subseteq Tasks \X Fds
      BY DEF Users, Fds
    <3> QED BY <3>3, <3>4, SamePairs
  <2>7. Types'
    BY <1>1, <2>1, <2>3, <2>4, <2>5 DEF Types, MemTypes, memory
  <2>8. Shared' /\ GivenAgain(s_inodes)' = GivenAgain(s_inodes)
    BY <1>1, <2>1, <2>5, <2>6, SharedKept
  <2> HIDE DEF IInv
  <2> QED BY <1>2, <2>3, <2>7, <2>8, Assembled
<1>11. CASE x \in Dirs /\ i # NULL
  <2>0. x \notin Regs
    BY <1>5, <1>11, Constants
  <2>1. get_inode(t, i) /\ file_tbl' = file_tbl /\ filp' = filp
    BY <1>11, <1>8, <2>0 DEF namei
  <2>2. i \in Inos
    BY <1>11, FilesAssumption DEF Lookup
  <2>3. CASE /\ pc' = [pc EXCEPT ![t].at = "loop"] /\ UNCHANGED memory
             /\ GivenAgain(s_inodes)
    <3>1. "loop" \in Places
      BY DEF Places
    <3>2. /\ pc' \in [Tasks -> Locals] /\ \A u \in Tasks : u # t => pc'[u] = pc[u]
          /\ pc'[t].at = "loop" /\ pc'[t].path = p /\ pc'[t].done = l.done
          /\ pc'[t].fd = l.fd
      BY <1>3, <2>3, <3>1, PcAt
    <3>3. \A f : Users(f)' = Users(f)
      BY <1>1, <2>1, <3>2, UsersKept
    <3>4. Types'
      BY <1>1, <2>1, <2>3, <3>2 DEF Types, MemTypes, memory
    <3>5. Shared' /\ GivenAgain(s_inodes)' = GivenAgain(s_inodes)
      BY <1>1, <2>1, <2>3, <3>3, SharedKept
    <3>6. TaskOK(t)'
      <4>1. pc'[t].done \in 0..Len(pc'[t].path)
        BY <1>4, <3>2
      <4>2. Filling(t)' /\ Executing(t)' /\ RunsExact(t)'
        BY <3>2 DEF Filling, Executing, RunsExact, At
      <4>3. FaultExact(t)'
        BY <2>3, <3>2, <3>5 DEF FaultExact, At
      <4> QED BY <3>2, <4>1, <4>2, <4>3 DEF TaskOK
    <3> HIDE DEF IInv
    <3> QED BY <1>2, <3>2, <3>4, <3>5, <3>6, Assembled
  <2>4. ASSUME NEW n \in Nodes, pc' = [pc EXCEPT ![t].dir = n, ![t].done = @ + 1],
               MemTypes', Memory', Referenced', Kept(n)', node'[n].i_ino = i,
               Counted(n) => Held(n, 1)',
               refcnt' > 0, GivenAgain(s_inodes) => GivenAgain(s_inodes)'
        PROVE IInv'
    <3>1. /\ pc' \in [Tasks -> Locals] /\ \A u \in Tasks : u # t => pc'[u] = pc[u]
          /\ pc'[t].at = "namei" /\ pc'[t].path = p /\ pc'[t].done = l.done + 1
          /\ pc'[t].fd = l.fd /\ pc'[t].f = l.f /\ pc'[t].dir = n
      BY <1>1, <1>3, <2>4, PcNext
    <3>2. \A f : Users(f)' = Users(f)
      BY <1>1, <2>1, <3>1, UsersKept
    <3>3. Types'
      BY <2>1, <2>4, <3>1 DEF Types
    <3>4. SlotUsers'
      BY <2>1, <3>2 DEF Shared, SlotUsers
    <3>5. Shared'
      BY <2>4, <3>4 DEF Shared
    <3>6. TaskOK(t)'
      <4>1. pc'[t].done \in 0..Len(pc'[t].path)
        <5>1. l.done + 1 \in 0..Len(p)
          BY <1>1, <1>3, <1>6
        <5> QED BY <3>1, <5>1
      <4>2. Executing(t)' /\ RunsExact(t)' /\ FaultExact(t)'
        BY <3>1 DEF Executing, RunsExact, FaultExact, At
      <4>3. \A k \in Nat : k < l.done + 1 => Target(SubSeq(p, 1, k)) \in Dirs
        <5> SUFFICES ASSUME NEW k \in Nat, k < l.done + 1
                     PROVE Target(SubSeq(p, 1, k)) \in Dirs
          OBVIOUS
        <5>1. k < l.done \/ k = l.done
          BY <1>3
        <5> QED BY <1>5, <1>11, <5>1
      <4>4. file_tbl'[l.f].f_count = 0 /\ filp'[t][l.fd] = l.f
        BY <1>5, <2>1
      <4>5. l.done + 1 # 0
        BY <1>3
      <4>6. Filling(t)'
        BY <1>5, <1>7, <2>2, <2>4, <3>1, <4>3, <4>4, <4>5 DEF Filling, Counted
      <4> QED BY <3>1, <4>1, <4>2, <4>6 DEF TaskOK
    <3> HIDE DEF IInv
    <3> QED BY <1>2, <2>4, <3>1, <3>3, <3>5, <3>6, Assembled
  <2>5. MemTypes /\ Memory /\ Referenced
    BY DEF Types, Shared
  <2>6. \/ /\ pc' = [pc EXCEPT ![t].at = "loop"] /\ UNCHANGED memory /\ GivenAgain(s_inodes)
        \/ \E n \in Nodes :
             /\ pc' = [pc EXCEPT ![t].dir = n, ![t].done = @ + 1]
             /\ MemTypes' /\ Memory' /\ Referenced' /\ Kept(n)' /\ node'[n].i_ino = i
             /\ Counted(n) => Held(n, 1)'
             /\ refcnt' > 0 /\ (GivenAgain(s_inodes) => GivenAgain(s_inodes)')
    <3> HIDE DEF IInv
    <3>1. raw' = raw /\ drops' = drops /\ file_tbl' = file_tbl /\ refcnt > 0
      BY <1>1, <1>5, <2>1
    <3> QED BY <2>1, <2>2, <2>5, <3>1, GotInode
  <2> HIDE DEF IInv
  <2> QED BY <2>3, <2>4, <2>6, Zenon
<1>12. x \in Regs \/ x \in Dirs
  BY <1>5, Constants
<1> QED BY <1>9, <1>10, <1>11, <1>12

\* file_open fills the slot it has taken.
LEMMA OpenEndInv ==
  ASSUME IInv, NEW t \in Tasks, OpenEnd(t)
  PROVE IInv'
<1> USE DEF IInv
<1> DEFINE l == pc[t]
           p == l.path
<1>1. l.at = "namei" /\ l.done = Len(p) /\ filp' = filp
      /\ UNCHANGED <<node, s_inodes, freeptr, refcnt, raw, drops>>
  BY DEF OpenEnd, At, memory
<1>2. \A u \in Tasks : u # t => ~Busy(u)
  BY <1>1, BusyAlone
<1>3. pc \in [Tasks -> Locals] /\ l \in Locals
  BY DEF Types
<1>4. PICK n : n = l.dir
  OBVIOUS
<1>5. /\ p \in Paths /\ refcnt > 0 /\ n \in Nodes /\ node[n].i_ino \in Inos
      /\ node[n].i_ino = Target(SubSeq(p, 1, l.done))
      /\ l.fd \in Fds /\ l.f \in Slots
      /\ filp[t][l.fd] = l.f /\ file_tbl[l.f].f_count = 0
      /\ l.done = 0 => n = root_inode
      /\ l.done > 0 => Kept(n) /\ (Counted(n) => Held(n, 1))
  BY <1>1, <1>4 DEF TaskOK, Filling, At
<1>6. p \in Seq(STRING) /\ Len(p) \in Nat
  BY <1>5, FilesAssumption
<1>7. node[n].i_ino = Target(p)
  BY <1>1, <1>5, <1>6, TargetSteps
<1>8. PICK f : f = l.f
  OBVIOUS
<1>9. PICK fd : fd = l.fd
  OBVIOUS
<1>10. /\ file_tbl' \in [Slots -> FileRecs]
       /\ file_tbl'[f].f_count = 1 /\ file_tbl'[f].f_inode = n
       /\ \A g \in Slots : g # f => file_tbl'[g] = file_tbl[g]
  <2>1. Opened(n) \in FileRecs /\ Opened(n).f_count = 1 /\ Opened(n).f_inode = n
    BY <1>5 DEF Opened, FileRecs
  <2>2. file_tbl' = [file_tbl EXCEPT ![f] = Opened(n)]
    BY <1>8, <1>4 DEF OpenEnd
  <2> QED BY <1>5, <1>8, <2>1, <2>2 DEF Types
<1>11. /\ pc' \in [Tasks -> Locals] /\ \A u \in Tasks : u # t => pc'[u] = pc[u]
       /\ \/ pc'[t] = user
          \/ /\ pc'[t].at = "execv" /\ pc'[t].path = p /\ pc'[t].done = l.done
             /\ pc'[t].fd = fd
  <2>1. CASE syscall_table[l.svc + 1] = "sys_open"
    <3>1. pc' = [pc EXCEPT ![t] = user]
      BY <2>1 DEF OpenEnd
    <3> QED BY <1>3, <3>1, UserFields, PcSet
  <2>2. CASE syscall_table[l.svc + 1] # "sys_open"
    <3>1. pc' = [pc EXCEPT ![t].at = "execv"]
      BY <1>3, <2>2 DEF OpenEnd
    <3>2. "execv" \in Places
      BY DEF Places
    <3> QED BY <1>3, <1>9, <3>1, <3>2, PcAt
  <2> QED BY <2>1, <2>2
<1>12. pc'[t].at \in {"user", "execv"}
  BY <1>11, UserFields
<1>13. Types'
  BY <1>1, <1>10, <1>11 DEF Types, MemTypes
<1>14. \A g, u, d : u \in Tasks /\ d \in Fds =>
         (<<u, d>> \in Users(g)' <=> <<u, d>> \in Users(g) \/ (u = t /\ d = fd /\ g = f))
  <2> SUFFICES ASSUME NEW g, NEW u \in Tasks, NEW d \in Fds
               PROVE <<u, d>> \in Users(g)' <=>
                       <<u, d>> \in Users(g) \/ (u = t /\ d = fd /\ g = f)
    OBVIOUS
  <2>1. <<u, d>> \in Users(g) <=>
             /\ filp[u][d] = g
             /\ ~(pc[u].at \in {"namei", "loop", "null_lookup"} /\ pc[u].fd = d)
    BY UsersIn
  <2>2. <<u, d>> \in Users(g)' <=>
             /\ filp'[u][d] = g
             /\ ~(pc'[u].at \in {"namei", "loop", "null_lookup"} /\ pc'[u].fd = d)
    BY DEF Users, Fds
  <2>3. CASE u # t
    BY <1>1, <1>11, <2>1, <2>2, <2>3
  <2>4. CASE u = t /\ d # fd
    BY <1>1, <1>9, <1>12, <2>1, <2>2, <2>4
  <2>5. CASE u = t /\ d = fd
    BY <1>1, <1>5, <1>8, <1>9, <1>12, <2>1, <2>2, <2>5
  <2> QED BY <2>3, <2>4, <2>5
<1>15. SlotUsers'
  <2> SUFFICES ASSUME NEW g \in Slots
               PROVE /\ file_tbl'[g].f_count = 0 => Users(g)' = {}
                     /\ file_tbl'[g].f_count = 1 =>
                          file_tbl'[g].f_inode \in Nodes /\ \E u : Users(g)' = {u}
    BY DEF SlotUsers
  <2>0. Users(g) \subseteq Tasks \X Fds /\ Users(g)' \subseteq Tasks \X Fds
    BY DEF Users, Fds
  <2>1. CASE g = f
    <3>1. Users(f) = {}
      BY <1>5, <1>8 DEF Shared, SlotUsers
    <3>2. \A u \in Tasks, d \in Fds : <<u, d>> \in Users(f)' <=> <<u, d>> \in {<<t, fd>>}
      <4> TAKE u \in Tasks, d \in Fds
      <4>1. <<u, d>> \in Users(f)' <=> u = t /\ d = fd
        BY <1>14, <3>1
      <4> QED BY <4>1
    <3>3. {<<t, fd>>} \subseteq Tasks \X Fds
      BY <1>5, <1>9
    <3>4. Users(f)' = {<<t, fd>>}
      BY <2>0, <2>1, <3>2, <3>3, SamePairs
    <3>5. file_tbl'[g].f_count = 1 /\ file_tbl'[g].f_inode \in Nodes
      BY <1>5, <1>10, <2>1
    <3>6. \E u : Users(g)' = {u}
      BY <2>1, <3>4, Zenon
    <3> QED BY <3>5, <3>6
  <2>2. CASE g # f
    <3>1. Users(g)' = Users(g)
      BY <1>14, <2>0, <2>2, SamePairs
    <3> QED BY <1>10, <2>2, <3>1 DEF Shared, SlotUsers
  <2> QED BY <2>1, <2>2
<1>16. f \notin Open(n) /\ Open(n)' = Open(n) \cup {f}
  BY <1>5, <1>8, <1>10 DEF Open
<1>17. \A k : k # n => Open(k)' = Open(k)
  BY <1>5, <1>8, <1>10 DEF Open
<1>18. Referenced'
  <2> SUFFICES ASSUME NEW k \in Nodes, Counted(k)
               PROVE Held(k, 0)'
    BY DEF Referenced, Counted
  <2>1. CASE k = n
    <3>1. l.done > 0
      <4>1. CASE n # root_inode
        BY <1>1, <1>5, <1>6, <4>1
      <4>2. CASE << >> \notin Paths
        BY <1>1, <1>5, <1>6, <4>2
      <4> QED BY <2>1, <4>1, <4>2 DEF Counted
    <3>2. Held(n, 1)
      BY <1>5, <2>1, <3>1
    <3>3. Cardinality(Open(n)') = Cardinality(Open(n)) + 1 /\ Cardinality(Open(n)) \in Nat
      BY <1>16, OpenFinite, FS_AddElement
    <3>4. node[n].i_count \in Nat
      BY <1>5, TableFields
    <3>5. GivenAgain(n) \/ node[n].i_count >= Cardinality(Open(n)') + 0
      BY <3>2, <3>3, <3>4 DEF Held
    <3> QED BY <1>1, <2>1, <3>5 DEF Held, GivenAgain
  <2>2. CASE k # n
    <3>1. Held(k, 0) /\ Open(k)' = Open(k)
      BY <1>17, <2>2 DEF Shared, Referenced
    <3> QED BY <1>1, <3>1 DEF Held, GivenAgain
  <2> QED BY <2>1, <2>2
<1>19. Shared' /\ GivenAgain(s_inodes)' = GivenAgain(s_inodes)
  <2>1. Memory'
    <3>1. Layout' /\ Distinct' /\ FlashKept'
      BY <1>1 DEF Shared, Memory, Layout, Distinct, FlashKept, Old
    <3>2. (Fresh => Fresh') /\ (Freed => Freed') /\ (Given => Given')
      BY <1>1 DEF Fresh, Freed, Given
    <3> QED BY <3>1, <3>2 DEF Shared, Memory
  <2>2. GivenAgain(s_inodes)' = GivenAgain(s_inodes)
    BY <1>1 DEF GivenAgain
  <2> QED BY <1>15, <1>18, <2>1, <2>2 DEF Shared
<1>20. TaskOK(t)'
  <2>1. CASE pc'[t] = user
    BY <2>1, UserFields, ReturnOK
  <2>2. CASE /\ pc'[t].at = "execv" /\ pc'[t].path = p /\ pc'[t].done = l.done
             /\ pc'[t].fd = fd
    <3>1. pc'[t].done \in 0..Len(pc'[t].path) /\ Busy(t)'
      BY <1>1, <1>6, <2>2 DEF Busy
    <3>2. Filling(t)' /\ RunsExact(t)' /\ FaultExact(t)'
      BY <2>2 DEF Filling, RunsExact, FaultExact, At
    <3>3. filp'[t][fd] = f /\ f \in Slots /\ fd \in Fds
      BY <1>1, <1>5, <1>8, <1>9
    <3>4. node[n].i_ino \in Regs => Kept(n)'
      <4> SUFFICES ASSUME node[n].i_ino \in Regs
                   PROVE Kept(n)'
        OBVIOUS
      <4>1. l.done # 0
        BY <1>5, <1>6, TargetSteps, Constants
      <4>2. l.done > 0
        BY <1>1, <1>6, <4>1
      <4> QED BY <1>1, <1>5, <4>2 DEF Kept, Old
    <3>5. Executing(t)'
      BY <1>1, <1>5, <1>7, <1>10, <2>2, <3>3, <3>4 DEF Executing, At
    <3> QED BY <2>2, <3>1, <3>2, <3>5 DEF TaskOK
  <2> QED BY <1>11, <2>1, <2>2
<1> HIDE DEF IInv
<1> QED BY <1>2, <1>11, <1>13, <1>19, <1>20, Assembled

(***************************************************************************)
(* sys_execv and the other calls.                                          *)
(***************************************************************************)
\* execv reads the program.
LEMMA ExecvInv ==
  ASSUME IInv, NEW t \in Tasks, execv(t)
  PROVE IInv'
<1> USE DEF IInv
<1> DEFINE l == pc[t]
           p == l.path
<1>1. l.at = "execv" /\ UNCHANGED <<memory, raw, filp, drops>>
  BY DEF execv, At
<1>2. \A u \in Tasks : u # t => ~Busy(u)
  BY <1>1, BusyAlone
<1>3. pc \in [Tasks -> Locals] /\ l \in Locals /\ l.done \in 0..Len(p)
  BY DEF Types, TaskOK
<1>4. PICK f : f = filp[t][l.fd]
  OBVIOUS
<1>5. PICK n : n = file_tbl[f].f_inode
  OBVIOUS
<1>6. PICK i : i = node[n].i_ino
  OBVIOUS
<1>7. /\ p \in Paths /\ l.fd \in Fds /\ f \in Slots /\ file_tbl[f].f_count = 1
      /\ i = Target(p) /\ i \in Inos /\ n \in Nodes /\ refcnt > 0
      /\ i \in Regs => Kept(n)
  BY <1>1, <1>4, <1>5, <1>6 DEF TaskOK, Executing
<1>8. ASSUME NEW a \in {"null_call", "trampled"}, pc' = [pc EXCEPT ![t].at = a],
             file_tbl' = file_tbl,
             a = "null_call" => i \in Dirs,
             a = "trampled" => \E j \in Inos : drops[j] > 0
      PROVE IInv'
  <2>1. a \in Places
    BY DEF Places
  <2>2. /\ pc' \in [Tasks -> Locals] /\ \A u \in Tasks : u # t => pc'[u] = pc[u]
        /\ pc'[t].at = a /\ pc'[t].path = p /\ pc'[t].done = l.done
    BY <1>3, <1>8, <2>1, PcAt
  <2>3. \A g : Users(g)' = Users(g)
    BY <1>1, <2>2, UsersKept
  <2>4. Types'
    BY <1>1, <1>8, <2>2 DEF Types, MemTypes, memory
  <2>5. Shared' /\ GivenAgain(s_inodes)' = GivenAgain(s_inodes)
    BY <1>1, <1>8, <2>3, SharedKept
  <2>6. TaskOK(t)'
    <3>1. pc'[t].done \in 0..Len(pc'[t].path)
      BY <1>3, <2>2
    <3>2. Filling(t)' /\ Executing(t)' /\ RunsExact(t)'
      BY <2>2 DEF Filling, Executing, RunsExact, At
    <3>3. FaultExact(t)'
      BY <1>1, <1>7, <1>8, <2>2 DEF FaultExact, At
    <3> QED BY <2>2, <3>1, <3>2, <3>3 DEF TaskOK
  <2> HIDE DEF IInv
  <2> QED BY <1>2, <2>2, <2>4, <2>5, <2>6, Assembled
<1>9. CASE i \in Dirs
  <2>0. i \notin Small
    BY <1>7, <1>9, FilesAssumption
  <2>1. pc' = [pc EXCEPT ![t].at = "null_call"] /\ file_tbl' = file_tbl
    BY <1>4, <1>5, <1>6, <1>9, <2>0 DEF execv
  <2> QED BY <1>8, <1>9, <2>1
<1>10. CASE i \notin Dirs /\ i \in Small /\ Trampled
  <2>1. pc' = [pc EXCEPT ![t].at = "trampled"] /\ file_tbl' = file_tbl
    BY <1>4, <1>5, <1>6, <1>10 DEF execv
  <2>2. \E j \in Inos : drops[j] > 0
    <3>1. CASE Fresh
      <4>1. freeptr \in Nodes /\ freeptr > s_inodes
        BY <1>10, <3>1, MemFacts DEF Types, Shared, MemTypes, Fresh, AfterNode, Trampled
      <4> QED BY <1>10, <4>1 DEF Trampled, Shared, Memory, Layout
    <3>2. CASE Freed
      BY <3>2, Constants DEF Freed
    <3>3. CASE Given
      BY <3>3, Constants DEF Given
    <3> QED BY <3>1, <3>2, <3>3 DEF Shared, Memory
  <2> QED BY <1>8, <2>1, <2>2
<1>11. CASE i \notin Dirs /\ ~(i \in Small /\ Trampled)
  <2> DEFINE z == WrittenBack(node[n]).i_zone
             w == <<i, z>>
             m == [l EXCEPT !.at = "close"]
             e == [m EXCEPT !.got = w]
  <2>1. /\ pc' = [pc EXCEPT ![t].at = "close", ![t].got = w]
        /\ file_tbl' = [file_tbl EXCEPT ![f].f_pos = i_size[i]]
    BY <1>4, <1>5, <1>11, <1>6 DEF execv
  <2>2. pc' = [pc EXCEPT ![t] = e]
    BY <1>3, <2>1
  <2>3. /\ m \in Locals /\ m.at = "close" /\ m.path = p /\ m.done = l.done /\ m.fd = l.fd
    BY <1>3 DEF Locals, Places
  <2>4. w \in (Inos \X Zones) \cup {NULL}
    BY <1>7 DEF WrittenBack, Zones
  <2> HIDE DEF m, w, z
  <2>5. /\ e \in Locals /\ e.at = m.at /\ e.path = m.path /\ e.done = m.done /\ e.fd = m.fd
        /\ e.got = w
    BY <2>3, <2>4 DEF Locals
  <2> HIDE DEF e
  <2>6. /\ pc' \in [Tasks -> Locals] /\ \A u \in Tasks : u # t => pc'[u] = pc[u]
        /\ pc'[t].at = "close" /\ pc'[t].path = p /\ pc'[t].done = l.done
        /\ pc'[t].fd = l.fd /\ pc'[t].got = w
    BY <1>3, <2>2, <2>3, <2>5, PcSet
  <2>7. /\ file_tbl' \in [Slots -> FileRecs]
        /\ \A g \in Slots : /\ file_tbl'[g].f_count = file_tbl[g].f_count
                            /\ file_tbl'[g].f_inode = file_tbl[g].f_inode
    <3>1. i_size[i] \in Nat
      BY <1>7, FilesAssumption
    <3> QED BY <1>7, <2>1, <3>1 DEF Types, FileRecs
  <2>8. \A g : Users(g)' = Users(g)
    BY <1>1, <2>6, UsersKept
  <2>9. Types'
    BY <1>1, <2>6, <2>7 DEF Types, MemTypes, memory
  <2>10. Shared' /\ GivenAgain(s_inodes)' = GivenAgain(s_inodes) /\ Kept(n)' = Kept(n)
    BY <1>1, <2>7, <2>8, SharedKept
  <2>11. TaskOK(t)'
    <3>1. pc'[t].done \in 0..Len(pc'[t].path) /\ Busy(t)'
      BY <1>3, <2>6 DEF Busy
    <3>2. Filling(t)' /\ FaultExact(t)'
      BY <2>6 DEF Filling, FaultExact, At
    <3>3. i \in Regs
      BY <1>7, <1>11, Constants
    <3>4. filp'[t][l.fd] = f /\ file_tbl'[f].f_count = 1 /\ file_tbl'[f].f_inode = n
      BY <1>1, <1>4, <1>5, <1>7, <2>7
    <3>5. Executing(t)'
      <4>1. node'[n].i_ino = i /\ refcnt' > 0
        BY <1>1, <1>7, <1>6 DEF memory
      <4> QED BY <1>7, <2>6, <2>10, <3>3, <3>4, <4>1 DEF Executing, At
    <3>6. w = <<i, OWN>> \/ (w = <<i, STALE>> /\ drops[i] > 0)
      <4>1. node[n].i_data = OWN \/ drops[i] > 0
        BY <1>7, <1>6, MemFacts DEF Types, Shared
      <4> QED BY <4>1 DEF w, z, WrittenBack
    <3>7. RunsExact(t)'
      BY <1>1, <1>7, <2>6, <3>6 DEF RunsExact
    <3> QED BY <2>6, <3>1, <3>2, <3>5, <3>7 DEF TaskOK
  <2> HIDE DEF IInv
  <2> QED BY <1>2, <2>6, <2>9, <2>10, <2>11, Assembled
<1> QED BY <1>11, <1>9, <1>10

\* file_close of the program that execv has read.
LEMMA FileCloseInv ==
  ASSUME IInv, NEW t \in Tasks, file_close(t)
  PROVE IInv'
<1> USE DEF IInv
<1> DEFINE l == pc[t]
<1>1. l.at = "close"
  BY DEF file_close, At
<1>2. \A u \in Tasks : u # t => ~Busy(u)
  BY <1>1, BusyAlone
<1>3. PICK fd : fd = l.fd
  OBVIOUS
<1>4. PICK f : f = filp[t][fd]
  OBVIOUS
<1>5. PICK n : n = file_tbl[f].f_inode
  OBVIOUS
<1>6. /\ fd \in Fds /\ f \in Slots /\ file_tbl[f].f_count = 1 /\ n \in Nodes
      /\ node[n].i_ino \in Inos /\ node[n].i_ino \in Regs /\ Kept(n) /\ refcnt > 0
  BY <1>1, <1>3, <1>4, <1>5, Constants DEF TaskOK, Executing, At
<1>7. /\ filp' = [filp EXCEPT ![t][fd] = NULL]
      /\ file_tbl' = [file_tbl EXCEPT ![f] = Closed(file_tbl[f])]
      /\ put_inode(n)
      /\ pc' = [pc EXCEPT ![t] = user]
  BY <1>3, <1>4, <1>5 DEF file_close
<1>8. /\ pc' \in [Tasks -> Locals] /\ \A u \in Tasks : u # t => pc'[u] = pc[u]
      /\ pc'[t] = user
  BY <1>7, UserFields, PcSet DEF Types
<1>9. /\ file_tbl' \in [Slots -> FileRecs] /\ file_tbl'[f].f_count = 0
      /\ \A g \in Slots : g # f => file_tbl'[g] = file_tbl[g]
  <2>1. file_tbl[f] \in FileRecs
    BY <1>6 DEF Types
  <2>2. Closed(file_tbl[f]) \in FileRecs /\ Closed(file_tbl[f]).f_count = 0
    BY <1>6, <2>1 DEF Closed, FileRecs
  <2> QED BY <1>6, <1>7, <2>2 DEF Types
<1>10. /\ filp' \in [Tasks -> [Fds -> Slots \cup {NULL}]] /\ filp'[t][fd] = NULL
       /\ \A u \in Tasks, d \in Fds : u # t \/ d # fd => filp'[u][d] = filp[u][d]
  BY <1>6, <1>7 DEF Types
<1>11. f \in Open(n) /\ Open(n)' = Open(n) \ {f}
  BY <1>5, <1>6, <1>9 DEF Open
<1>12. \A k : k # n => Open(k)' = Open(k)
  BY <1>5, <1>6, <1>9 DEF Open
<1>13. n # 1 /\ Counted(n) /\ n <= s_inodes
  <2>1. n # 1
    BY <1>6, Constants DEF Shared, Memory, Layout
  <2>2. n <= s_inodes
    BY <1>6, MemFacts DEF Types, Shared
  <2> QED BY <2>1, <2>2 DEF Counted, root_inode
<1>14. /\ Cardinality(Open(n)) \in Nat /\ Cardinality(Open(n)) > 0
       /\ Cardinality(Open(n)') = Cardinality(Open(n)) - 1 /\ node[n].i_count \in Nat
  <2>1. Cardinality(Open(n)) \in Nat /\ IsFiniteSet(Open(n))
    BY OpenFinite
  <2>2. Cardinality(Open(n)) # 0
    BY <1>11, <2>1, FS_EmptySet
  <2>3. Cardinality(Open(n)') = Cardinality(Open(n)) - 1
    BY <1>11, <2>1, FS_RemoveElement
  <2> QED BY <1>6, <2>1, <2>2, <2>3, TableFields
<1>15. /\ MemTypes' /\ Memory' /\ node'[n].i_count = node[n].i_count - 1
       /\ \A k \in Nodes : k # n => node'[k] = node[k]
       /\ \A k \in Nodes : GivenAgain(k)' = GivenAgain(k)
       /\ s_inodes' = s_inodes
  <2>0. MemTypes /\ Memory
    BY DEF Types, Shared
  <2>1. node[n].i_count >= 1
    BY <1>6 DEF Kept
  <2>2. CASE node[n].i_count = 1
    <3> HIDE DEF IInv
    <3>1. /\ MemTypes' /\ Memory' /\ node'[n].i_count = 0
          /\ \A k \in Nodes : k # n => node'[k] = node[k]
          /\ \A k \in Nodes : GivenAgain(k)' = GivenAgain(k)
          /\ s_inodes' = s_inodes
      BY <1>6, <1>7, <1>13, <2>0, <2>2, PutLastMem
    <3> QED BY <2>2, <3>1
  <2>3. CASE node[n].i_count # 1
    <3> HIDE DEF IInv
    <3>1. node[n].i_count > 1
      BY <1>14, <2>1, <2>3
    <3> QED BY <1>6, <1>7, <1>13, <2>0, <3>1, PutMem
  <2> QED BY <2>2, <2>3
<1>16. Types'
  BY <1>8, <1>9, <1>10, <1>15 DEF Types
<1>17. \A g, u, d : g \in Slots /\ u \in Tasks /\ d \in Fds =>
         (<<u, d>> \in Users(g)' <=> <<u, d>> \in Users(g) /\ ~(u = t /\ d = fd))
  <2> SUFFICES ASSUME NEW g \in Slots, NEW u \in Tasks, NEW d \in Fds
               PROVE <<u, d>> \in Users(g)' <=> <<u, d>> \in Users(g) /\ ~(u = t /\ d = fd)
    OBVIOUS
  <2>1. <<u, d>> \in Users(g) <=>
             /\ filp[u][d] = g
             /\ ~(pc[u].at \in {"namei", "loop", "null_lookup"} /\ pc[u].fd = d)
    BY UsersIn
  <2>2. <<u, d>> \in Users(g)' <=>
             /\ filp'[u][d] = g
             /\ ~(pc'[u].at \in {"namei", "loop", "null_lookup"} /\ pc'[u].fd = d)
    BY DEF Users, Fds
  <2>3. CASE u # t
    BY <1>8, <1>10, <2>1, <2>2, <2>3
  <2>4. CASE u = t /\ d # fd
    BY <1>1, <1>8, <1>10, <2>1, <2>2, <2>4, UserFields
  <2>5. CASE u = t /\ d = fd
    BY <1>10, <2>2, <2>5, Constants
  <2> QED BY <2>3, <2>4, <2>5
<1>18. SlotUsers'
  <2> SUFFICES ASSUME NEW g \in Slots
               PROVE /\ file_tbl'[g].f_count = 0 => Users(g)' = {}
                     /\ file_tbl'[g].f_count = 1 =>
                          file_tbl'[g].f_inode \in Nodes /\ \E u : Users(g)' = {u}
    BY DEF SlotUsers
  <2>0. Users(g) \subseteq Tasks \X Fds /\ Users(g)' \subseteq Tasks \X Fds
    BY DEF Users, Fds
  <2>1. CASE g = f
    <3>1. PICK v : Users(f) = {v}
      BY <1>6 DEF Shared, SlotUsers
    <3>2. <<t, fd>> \in Users(f)
      BY <1>1, <1>4, <1>6, UsersIn
    <3>3. \A u \in Tasks, d \in Fds : <<u, d>> \in Users(f)' <=> <<u, d>> \in {}
      <4> TAKE u \in Tasks, d \in Fds
      <4>1. <<u, d>> \in Users(f) => u = t /\ d = fd
        BY <3>1, <3>2
      <4>2. <<u, d>> \in Users(f)' <=> <<u, d>> \in Users(f) /\ ~(u = t /\ d = fd)
        BY <1>6, <1>17
      <4> QED BY <4>1, <4>2
    <3>4. {} \subseteq Tasks \X Fds
      OBVIOUS
    <3>5. Users(f)' = {}
      BY <2>0, <2>1, <3>3, <3>4, SamePairs
    <3> QED BY <1>9, <2>1, <3>5
  <2>2. CASE g # f
    <3>0. <<t, fd>> \notin Users(g)
      BY <1>4, <1>6, <2>2, UsersIn
    <3>1. \A u \in Tasks, d \in Fds : <<u, d>> \in Users(g)' <=> <<u, d>> \in Users(g)
      BY <1>17, <3>0
    <3>2. Users(g)' = Users(g)
      BY <2>0, <3>1, SamePairs
    <3> QED BY <1>9, <2>2, <3>2 DEF Shared, SlotUsers
  <2> QED BY <2>1, <2>2
<1>19. Referenced'
  <2> SUFFICES ASSUME NEW k \in Nodes, Counted(k)
               PROVE Held(k, 0)'
    BY DEF Referenced, Counted
  <2>0. Held(k, 0) /\ GivenAgain(k)' = GivenAgain(k)
    BY <1>15 DEF Shared, Referenced
  <2>1. CASE k = n
    <3>1. CASE GivenAgain(n)
      BY <2>0, <2>1, <3>1 DEF Held
    <3>2. CASE ~GivenAgain(n)
      <4>1. node[n].i_count >= Cardinality(Open(n)) + 0
        BY <2>0, <2>1, <3>2 DEF Held
      <4>2. node'[n].i_count >= Cardinality(Open(n)') + 0
        BY <1>14, <1>15, <4>1
      <4> QED BY <2>1, <4>2 DEF Held
    <3> QED BY <3>1, <3>2
  <2>2. CASE k # n
    <3>1. Open(k)' = Open(k) /\ node'[k] = node[k]
      BY <1>12, <1>15, <2>2
    <3> QED BY <2>0, <3>1 DEF Held
  <2> QED BY <2>1, <2>2
<1>20. Shared'
  BY <1>15, <1>18, <1>19 DEF Shared
<1>21. TaskOK(t)'
  BY <1>8, UserFields, ReturnOK
<1>22. GivenAgain(s_inodes)' = GivenAgain(s_inodes)
  <2>1. PICK h \in Nodes : h = s_inodes
    BY DEF Types, MemTypes
  <2>2. GivenAgain(h)' = GivenAgain(h)
    BY <1>15
  <2> QED BY <1>15, <2>1, <2>2 DEF GivenAgain
<1> HIDE DEF IInv
<1> QED BY <1>2, <1>8, <1>16, <1>20, <1>21, <1>22, Assembled

\* sys_read and sys_write of a descriptor.
LEMMA SysReadWriteInv ==
  ASSUME ~Overlap, IInv, NEW t \in Tasks, NEW n \in Numbers, NEW fd \in Fds,
         SysReadWrite(t, n, fd)
  PROVE IInv'
<1> USE DEF IInv
<1>1. /\ pc[t].at = "user" /\ pc[t].path = << >> /\ pc[t].done = 0
      /\ \A u \in Tasks : ~Busy(u)
  BY SvcAlone DEF SysReadWrite
<1>2. UNCHANGED <<memory, raw, filp, drops>>
  BY DEF SysReadWrite
<1>3. PICK f : f = filp[t][fd]
  OBVIOUS
<1>4. f \in Slots
  BY <1>3 DEF SysReadWrite, Types
<1>5. FileReadWrite(t, f)
  BY <1>3 DEF SysReadWrite
<1>6. pc \in [Tasks -> Locals]
  BY DEF Types
<1>7. CASE Inode(f).i_ino \in Dirs
  <2>1. pc' = [pc EXCEPT ![t].at = "null_call"] /\ file_tbl' = file_tbl
    BY <1>5, <1>7 DEF FileReadWrite
  <2>2. "null_call" \in Places
    BY DEF Places
  <2>3. /\ pc' \in [Tasks -> Locals] /\ \A u \in Tasks : u # t => pc'[u] = pc[u]
        /\ pc'[t].at = "null_call" /\ pc'[t].path = << >> /\ pc'[t].done = 0
    BY <1>1, <1>6, <2>1, <2>2, PcAt
  <2>4. \A g : Users(g)' = Users(g)
    BY <1>1, <1>2, <2>3, UsersKept
  <2>5. Types'
    BY <1>2, <2>1, <2>3 DEF Types, MemTypes, memory
  <2>6. Shared' /\ GivenAgain(s_inodes)' = GivenAgain(s_inodes)
    BY <1>2, <2>1, <2>4, SharedKept
  <2>7. TaskOK(t)'
    <3>1. pc'[t].done \in 0..Len(pc'[t].path) /\ Busy(t)'
      BY <2>3, UserFields DEF Busy
    <3>2. Filling(t)' /\ Executing(t)' /\ RunsExact(t)' /\ FaultExact(t)'
      BY <2>3 DEF Filling, Executing, RunsExact, FaultExact, At
    <3> QED BY <2>3, <3>1, <3>2 DEF TaskOK
  <2> HIDE DEF IInv
  <2> QED BY <1>1, <2>3, <2>5, <2>6, <2>7, Assembled
<1>8. CASE Inode(f).i_ino \notin Dirs
  <2>1. /\ pc' = [pc EXCEPT ![t] = user]
        /\ file_tbl' = [file_tbl EXCEPT ![f].f_pos = file_tbl[f].f_pos + 1]
    BY <1>5, <1>8 DEF FileReadWrite
  <2>2. /\ pc' \in [Tasks -> Locals] /\ \A u \in Tasks : u # t => pc'[u] = pc[u]
        /\ pc'[t] = user
    BY <1>6, <2>1, UserFields, PcSet
  <2>3. /\ file_tbl' \in [Slots -> FileRecs]
        /\ \A g \in Slots : /\ file_tbl'[g].f_count = file_tbl[g].f_count
                            /\ file_tbl'[g].f_inode = file_tbl[g].f_inode
    BY <1>4, <2>1 DEF Types, FileRecs
  <2>4. \A g : Users(g)' = Users(g)
    BY <1>1, <1>2, <2>2, UserFields, UsersKept
  <2>5. Types'
    BY <1>2, <2>2, <2>3 DEF Types, MemTypes, memory
  <2>6. Shared' /\ GivenAgain(s_inodes)' = GivenAgain(s_inodes)
    BY <1>2, <2>3, <2>4, SharedKept
  <2>7. TaskOK(t)'
    BY <2>2, UserFields, ReturnOK
  <2> HIDE DEF IInv
  <2> QED BY <1>1, <2>2, <2>5, <2>6, <2>7, Assembled
<1> QED BY <1>7, <1>8

\* sys_write through a zone that is a part of an address: an inode was freed.
LEMMA StrayWriteInv ==
  ASSUME ~Overlap, IInv, NEW t \in Tasks, NEW n \in Numbers, NEW fd \in Fds,
         StrayWrite(t, n, fd)
  PROVE IInv'
<1> USE DEF IInv
<1>1. /\ pc[t].at = "user" /\ pc[t].path = << >> /\ pc[t].done = 0
      /\ \A u \in Tasks : ~Busy(u)
  BY SvcAlone DEF StrayWrite
<1>2. /\ UNCHANGED <<memory, raw, filp, file_tbl, drops>>
      /\ pc' = [pc EXCEPT ![t].at = "stray"]
  BY DEF StrayWrite
<1>3. PICK f : f = filp[t][fd]
  OBVIOUS
<1>4. PICK m : m = file_tbl[f].f_inode
  OBVIOUS
<1>5. f \in Slots /\ node[m].i_ino \in Regs /\ node[m].i_data # OWN
  BY <1>3, <1>4 DEF StrayWrite, Types, Inode
<1>6. m \in Nodes
  <2>1. <<t, fd>> \in Users(f)
    BY <1>1, <1>3, UsersIn
  <2>2. file_tbl[f].f_count = 1
    BY <1>5, <2>1, TableFields DEF Shared, SlotUsers
  <2> QED BY <1>4, <1>5, <2>2 DEF Shared, SlotUsers
<1>7. \E i \in Inos : drops[i] > 0
  <2>1. m <= s_inodes
    BY <1>5, <1>6, MemFacts, Constants DEF Types, Shared
  <2> QED BY <1>5, <1>6, <2>1, MemFacts, Constants DEF Types, Shared
<1>8. "stray" \in Places /\ pc \in [Tasks -> Locals]
  BY DEF Places, Types
<1>9. /\ pc' \in [Tasks -> Locals] /\ \A u \in Tasks : u # t => pc'[u] = pc[u]
      /\ pc'[t].at = "stray" /\ pc'[t].path = << >> /\ pc'[t].done = 0
  BY <1>1, <1>2, <1>8, PcAt
<1>10. \A g : Users(g)' = Users(g)
  BY <1>1, <1>2, <1>9, UsersKept
<1>11. Types'
  BY <1>2, <1>9 DEF Types, MemTypes, memory
<1>12. Shared' /\ GivenAgain(s_inodes)' = GivenAgain(s_inodes)
  BY <1>2, <1>10, SharedKept
<1>13. TaskOK(t)'
  <2>1. pc'[t].done \in 0..Len(pc'[t].path)
    BY <1>9, UserFields
  <2>2. Filling(t)' /\ Executing(t)' /\ RunsExact(t)'
    BY <1>9 DEF Filling, Executing, RunsExact, At
  <2>3. FaultExact(t)'
    BY <1>2, <1>7, <1>9 DEF FaultExact, At
  <2> QED BY <1>9, <2>1, <2>2, <2>3 DEF TaskOK
<1> HIDE DEF IInv
<1> QED BY <1>1, <1>9, <1>11, <1>12, <1>13, Assembled

\* file_lseek moves the position of a slot and nothing else of it.
LEMMA SoughtFields ==
  ASSUME NEW x \in FileRecs, NEW o, NEW w
  PROVE /\ Sought(x, o, w) \in FileRecs
        /\ Sought(x, o, w).f_count = x.f_count /\ Sought(x, o, w).f_inode = x.f_inode
<1> DEFINE pos == CASE w = "SEEK_SET" -> o
                    [] w = "SEEK_CUR" -> x.f_pos + o
                    [] w = "SEEK_END" -> i_size[node[x.f_inode].i_ino] + o
<1>1. Sought(x, o, w) = IF pos \in 0..i_size[node[x.f_inode].i_ino] THEN [x EXCEPT !.f_pos = pos] ELSE x
  BY DEF Sought
<1> HIDE DEF pos
<1>2. CASE pos \in 0..i_size[node[x.f_inode].i_ino]
  <2>1. pos \in Nat
    BY <1>2
  <2>2. Sought(x, o, w) = [x EXCEPT !.f_pos = pos]
    BY <1>1, <1>2
  <2> QED BY <2>1, <2>2 DEF FileRecs
<1>3. CASE pos \notin 0..i_size[node[x.f_inode].i_ino]
  BY <1>1, <1>3
<1> QED BY <1>2, <1>3

\* sys_lseek
LEMMA SysLseekInv ==
  ASSUME ~Overlap, IInv, NEW t \in Tasks, NEW n \in Numbers, NEW fd \in Fds, NEW o, NEW w,
         SysLseek(t, n, fd, o, w)
  PROVE IInv'
<1> USE DEF IInv
<1>1. pc[t].at = "user" /\ \A u \in Tasks : ~Busy(u)
  BY SvcAlone DEF SysLseek
<1>2. UNCHANGED <<memory, raw, filp, drops>>
  BY DEF SysLseek
<1>3. PICK f : f = filp[t][fd]
  OBVIOUS
<1>4. f \in Slots
  BY <1>3 DEF SysLseek, Types
<1>5. /\ pc' \in [Tasks -> Locals] /\ \A u \in Tasks : u # t => pc'[u] = pc[u]
      /\ pc'[t] = user
  BY UserFields, PcSet DEF SysLseek, Types
<1>6. /\ file_tbl' \in [Slots -> FileRecs]
      /\ \A g \in Slots : /\ file_tbl'[g].f_count = file_tbl[g].f_count
                          /\ file_tbl'[g].f_inode = file_tbl[g].f_inode
  <2>1. file_tbl' = [file_tbl EXCEPT ![f] = Sought(file_tbl[f], o, w)]
    BY <1>3 DEF SysLseek
  <2>2. file_tbl[f] \in FileRecs
    BY <1>4 DEF Types
  <2>3. /\ Sought(file_tbl[f], o, w) \in FileRecs
        /\ Sought(file_tbl[f], o, w).f_count = file_tbl[f].f_count
        /\ Sought(file_tbl[f], o, w).f_inode = file_tbl[f].f_inode
    BY <2>2, SoughtFields
  <2> QED BY <1>4, <2>1, <2>3 DEF Types
<1>7. \A g : Users(g)' = Users(g)
  BY <1>1, <1>2, <1>5, UserFields, UsersKept
<1>8. Types'
  BY <1>2, <1>5, <1>6 DEF Types, MemTypes, memory
<1>9. Shared' /\ GivenAgain(s_inodes)' = GivenAgain(s_inodes)
  BY <1>2, <1>6, <1>7, SharedKept
<1>10. TaskOK(t)'
  BY <1>5, UserFields, ReturnOK
<1> HIDE DEF IInv
<1> QED BY <1>1, <1>5, <1>8, <1>9, <1>10, Assembled

\* sys_exit
LEMMA SysExitInv ==
  ASSUME ~Overlap, IInv, NEW t \in Tasks, NEW n \in Numbers, SysExit(t, n)
  PROVE IInv'
<1> USE DEF IInv
<1> DEFINE e == [user EXCEPT !.at = "dead"]
<1>1. pc[t].at = "user" /\ \A u \in Tasks : ~Busy(u)
  BY SvcAlone DEF SysExit
<1>2. UNCHANGED <<memory, raw, filp, file_tbl, drops>>
  BY DEF SysExit
<1>3. e \in Locals /\ e.at = "dead" /\ e.path = << >> /\ e.done = 0
  <2>1. "dead" \in Places
    BY DEF Places
  <2> QED BY <2>1, UserFields DEF Locals
<1>4. pc' = [pc EXCEPT ![t] = e]
  BY DEF SysExit
<1> HIDE DEF e
<1>5. /\ pc' \in [Tasks -> Locals] /\ \A u \in Tasks : u # t => pc'[u] = pc[u]
      /\ pc'[t] = e
  BY <1>3, <1>4, PcSet DEF Types
<1>6. \A g : Users(g)' = Users(g)
  BY <1>1, <1>2, <1>3, <1>5, UsersKept
<1>7. Types'
  BY <1>2, <1>5 DEF Types, MemTypes, memory
<1>8. Shared' /\ GivenAgain(s_inodes)' = GivenAgain(s_inodes)
  BY <1>2, <1>6, SharedKept
<1>9. TaskOK(t)'
  BY <1>3, <1>5, ReturnOK
<1> HIDE DEF IInv
<1> QED BY <1>1, <1>5, <1>7, <1>8, <1>9, Assembled

(***************************************************************************)
(* The theorems.                                                           *)
(***************************************************************************)
\* The boot code leaves the inodes it has used with their references.
LEMMA InitMemory ==
  ASSUME Init
  PROVE MemTypes /\ Memory
<1>1. /\ NB \in Nat /\ NB \in Nodes /\ 1 <= NB /\ NB <= NR_OBJ /\ NR_OBJ \in Nat
      /\ Others \in Nat /\ s_inodes = NB
  BY Constants DEF Init, NB, Nodes
<1>2. \A n \in Nodes : n \in Nat /\ 1 <= n /\ n <= NR_OBJ
  BY <1>1 DEF Nodes
<1>3. \A n \in Nodes : AfterNode(n) \in Nodes \cup {NULL}
  BY <1>1, <1>2 DEF AfterNode, Nodes
<1>4. ASSUME NEW n \in Nodes, n <= NB
      PROVE /\ node[n] \in NodeRecs /\ node[n].i_ino = BootInodes[n] /\ node[n].i_ino \in Inos
            /\ node[n].i_count >= 1 /\ node[n].i_data = OWN /\ node[n].next = Below(n)
  <2>1. n \in 1..NB
    BY <1>1, <1>2, <1>4
  <2>2. BootInodes[n] \in Inos /\ BootRefs[n] \in Nat \ {0}
    BY <2>1, FilesAssumption DEF NB
  <2>3. Below(n) \in Nodes \cup {NULL}
    <3>1. n \in Nat /\ 1 <= n /\ n <= NR_OBJ
      BY <1>2
    <3>2. n = 1 \/ n - 1 \in 1..NR_OBJ
      BY <1>1, <3>1
    <3> QED BY <3>2 DEF Below, Nodes
  <2>4. node[n] = Booted(n)
    BY <1>4 DEF Init, NB
  <2>5. /\ Booted(n).i_ino = BootInodes[n] /\ Booted(n).i_count = BootRefs[n]
        /\ Booted(n).i_data = OWN /\ Booted(n).next = Below(n) /\ Booted(n) \in NodeRecs
    BY <2>2, <2>3 DEF Booted, Below, NodeRecs
  <2> QED BY <2>2, <2>4, <2>5
<1>5. ASSUME NEW n \in Nodes, n > NB
      PROVE /\ node[n] \in NodeRecs /\ node[n].i_ino = NULL /\ node[n].i_count = 0
            /\ node[n].i_data = AfterNode(n) /\ node[n].next = NULL
  <2>1. ~(n <= NB)
    BY <1>1, <1>2, <1>5
  <2>2. node[n] = Spare(n)
    BY <2>1 DEF Init, NB
  <2>3. /\ Spare(n).i_ino = NULL /\ Spare(n).i_count = 0 /\ Spare(n).i_data = AfterNode(n)
        /\ Spare(n).next = NULL /\ Spare(n) \in NodeRecs
    BY <1>3 DEF Spare, AfterNode, NodeRecs
  <2> QED BY <2>2, <2>3
<1>6. \A n \in Nodes : n <= NB \/ n > NB
  BY <1>1, <1>2
<1>7. MemTypes
  <2>1. node \in [Nodes -> NodeRecs]
    <3>1. \A n \in Nodes : node[n] \in NodeRecs
      BY <1>4, <1>5, <1>6
    <3>2. node = [n \in Nodes |-> node[n]]
      BY DEF Init
    <3> QED BY <3>1, <3>2
  <2>2. freeptr \in Nodes \cup {NULL}
    BY <1>1 DEF Init, NB, Nodes
  <2>3. raw \in [Inos -> RawRecs]
    BY DEF Init, RawRecs, Zones
  <2>4. drops \in [Inos -> Nat]
    BY DEF Init
  <2>5. refcnt \in Nat
    BY <1>1 DEF Init, NB
  <2> QED BY <1>1, <2>1, <2>2, <2>3, <2>4, <2>5 DEF MemTypes
<1>8. Layout
  <2>1. \A n \in Nodes : n < NB => n <= NB
    BY <1>1, <1>2
  <2>2. \A n \in Nodes : Old(n) => n <= NB
    BY <1>1, <2>1 DEF Old
  <2>3. node[1].i_ino = Root
    <3>1. 1 \in Nodes
      BY Constants
    <3> QED BY <1>1, <1>4, <3>1, FilesAssumption
  <2>4. NB <= NB
    BY <1>1
  <2> QED BY <1>1, <1>4, <1>5, <2>1, <2>2, <2>3, <2>4 DEF Layout
<1>9. Distinct
  <2> SUFFICES ASSUME NEW m \in Nodes, NEW n \in Nodes, m <= NB, n <= NB,
                      node[m].i_ino = node[n].i_ino
               PROVE m = n
    BY <1>1 DEF Distinct
  <2>1. BootInodes[m] = BootInodes[n]
    BY <1>4
  <2>2. m \in 1..NB /\ n \in 1..NB
    BY <1>1, <1>2
  <2> QED BY <2>1, <2>2, FilesAssumption DEF NB
<1>10. Fresh
  <2>1. freeptr = AfterNode(s_inodes) /\ refcnt = s_inodes + Others
    BY <1>1 DEF Init, AfterNode, NB
  <2>2. \A i \in Inos : drops[i] = 0
    BY DEF Init
  <2>3. NB <= NB
    BY <1>1
  <2> QED BY <1>1, <1>4, <2>1, <2>2, <2>3 DEF Fresh
<1>11. FlashKept
  BY DEF Init, FlashKept
<1> QED BY <1>7, <1>8, <1>9, <1>10, <1>11 DEF Memory

\* The invariant holds at the start.
LEMMA InitInv == Init => IInv
<1> SUFFICES ASSUME Init
             PROVE IInv
  OBVIOUS
<1>1. \A t \in Tasks : pc[t] = user
  BY DEF Init
<1>2. Types
  <2>1. pc \in [Tasks -> Locals]
    BY UserFields DEF Init
  <2>2. filp \in [Tasks -> [Fds -> Slots \cup {NULL}]]
    BY DEF Init, Fds
  <2>3. file_tbl \in [Slots -> FileRecs]
    <3>1. [f_inode |-> NULL, f_count |-> 0, f_pos |-> 0] \in FileRecs
      BY DEF FileRecs
    <3> QED BY <3>1 DEF Init, Slots
  <2> QED BY <2>1, <2>2, <2>3, InitMemory DEF Types
<1>3. \A t \in Tasks : ~Busy(t)
  BY <1>1, UserFields DEF Busy
<1>4. \A t \in Tasks : TaskOK(t)
  <2> TAKE t \in Tasks
  <2>1. pc[t].at = "user" /\ pc[t].path = << >> /\ pc[t].done = 0
    BY <1>1, UserFields
  <2>2. pc[t].done \in 0..Len(pc[t].path)
    BY <2>1, UserFields
  <2>3. Filling(t) /\ Executing(t) /\ RunsExact(t) /\ FaultExact(t)
    BY <2>1 DEF Filling, Executing, RunsExact, FaultExact, At
  <2> QED BY <2>1, <2>2, <2>3 DEF TaskOK
<1>5. OneCall
  BY <1>3 DEF OneCall
<1>6. Shared
  <2>1. \A f \in Slots : file_tbl[f].f_count = 0
    BY DEF Init, Slots
  <2>2. Referenced
    <3> SUFFICES ASSUME NEW n \in Nodes
                 PROVE Held(n, 0)
      BY DEF Referenced
    <3>1. Open(n) = {}
      BY <2>1 DEF Open
    <3>2. Cardinality(Open(n)) = 0
      BY <3>1, FS_EmptySet
    <3>3. node[n].i_count \in Nat
      BY <1>2, TableFields
    <3>4. node[n].i_count >= Cardinality(Open(n)) + 0
      BY <3>2, <3>3
    <3> QED BY <3>4 DEF Held
  <2>3. SlotUsers
    <3>1. \A u \in Tasks, d \in Fds : filp[u][d] = NULL
      BY DEF Init, Fds
    <3>2. \A f \in Slots : Users(f) = {}
      BY <3>1, Constants DEF Users, Fds
    <3> QED BY <2>1, <3>2 DEF SlotUsers
  <2> QED BY <2>2, <2>3, InitMemory DEF Shared
<1> QED BY <1>2, <1>4, <1>5, <1>6 DEF IInv

\* Every step of every task keeps the invariant.
LEMMA NextInv ==
  ASSUME ~Overlap, IInv, [Next]_vars
  PROVE IInv'
<1>1. CASE Next
  <2>1. PICK t \in Tasks :
          \/ \E n \in Numbers :
               \/ \E p \in Paths : OpenBegin(t, n, p)
               \/ \E fd \in Fds :
                    \/ SysReadWrite(t, n, fd) \/ StrayWrite(t, n, fd)
                    \/ \E o \in {-1, 0, 1}, w \in Whences : SysLseek(t, n, fd, o, w)
               \/ SysExit(t, n)
          \/ namei(t) \/ OpenEnd(t) \/ execv(t) \/ file_close(t)
    BY <1>1, Zenon DEF Next, Fds
  <2>2. ASSUME NEW n \in Numbers, NEW p \in Paths, OpenBegin(t, n, p)
        PROVE IInv'
    BY <2>2, OpenBeginInv
  <2>3. ASSUME NEW n \in Numbers, NEW fd \in Fds, SysReadWrite(t, n, fd)
        PROVE IInv'
    BY <2>3, SysReadWriteInv
  <2>4. ASSUME NEW n \in Numbers, NEW fd \in Fds, StrayWrite(t, n, fd)
        PROVE IInv'
    BY <2>4, StrayWriteInv
  <2>5. ASSUME NEW n \in Numbers, NEW fd \in Fds, NEW o, NEW w, SysLseek(t, n, fd, o, w)
        PROVE IInv'
    BY <2>5, SysLseekInv
  <2>6. ASSUME NEW n \in Numbers, SysExit(t, n)
        PROVE IInv'
    BY <2>6, SysExitInv
  <2>7. CASE namei(t)
    BY <2>7, NameiInv
  <2>8. CASE OpenEnd(t)
    BY <2>8, OpenEndInv
  <2>9. CASE execv(t)
    BY <2>9, ExecvInv
  <2>10. CASE file_close(t)
    BY <2>10, FileCloseInv
  <2> QED BY <2>1, <2>2, <2>3, <2>4, <2>5, <2>6, <2>7, <2>8, <2>9, <2>10, Zenon
<1>2. CASE UNCHANGED vars
  <2>0. UNCHANGED <<memory, raw, file_tbl, filp, pc, drops>>
    BY <1>2 DEF vars, memory
  <2>1. Types' /\ OneCall'
    BY <2>0 DEF IInv, Types, MemTypes, OneCall, Busy, memory
  <2>2. \A f : Users(f)' = Users(f)
    BY <2>0 DEF Users
  <2>3. /\ Shared' /\ \A n, k : Held(n, k)' = Held(n, k)
        /\ \A n : Kept(n)' = Kept(n)
        /\ GivenAgain(s_inodes)' = GivenAgain(s_inodes)
    BY <2>0, <2>2, SharedKept DEF IInv
  <2>4. ASSUME NEW t \in Tasks
        PROVE TaskOK(t)'
    <3> USE <2>0 DEF memory
    <3>1. TaskOK(t)
      BY DEF IInv
    <3>2. Filling(t)'
      BY <2>3, <3>1 DEF TaskOK, Filling, At, Counted
    <3>3. Executing(t)'
      BY <2>3, <3>1 DEF TaskOK, Executing, At
    <3>4. RunsExact(t)' /\ FaultExact(t)'
      BY <2>3, <3>1 DEF TaskOK, RunsExact, FaultExact, At
    <3> QED BY <3>1, <3>2, <3>3, <3>4 DEF TaskOK
  <2> QED BY <2>1, <2>3, <2>4 DEF IInv
<1> QED BY <1>1, <1>2

\* The invariant holds throughout.
THEOREM Inductive ==
  ASSUME ~Overlap
  PROVE  Spec => []IInv
<1>1. IInv /\ [Next]_vars => IInv'
  BY NextInv
<1> QED BY <1>1, InitInv, PTL DEF Spec

\* sys_execv runs the file its path designates although the memory of inodes
\* is given to others while it is linked, and reads through the zones that the
\* inode on the flash had to begin with unless generic_drop_inode has freed
\* this very inode before: for all directories, paths and sizes of the tables
\* and of the page of inodes.
THEOREM ExecvRunsTarget ==
  ASSUME ~Overlap
  PROVE  Spec => []ExecvExact
<1>1. IInv => ExecvExact
  BY DEF IInv, TaskOK, RunsExact, ExecvExact
<1> QED BY <1>1, Inductive, PTL

\* When all references have been given back, there were more drops, of one or
\* two inodes, than the page had objects in use at the start.
LEMMA GivenBack ==
  ASSUME MemTypes, Memory, refcnt = 0
  PROVE \E i, j \in Inos : i # j /\ drops[i] + drops[j] > Len(BootInodes) + Others
<1>1. PICK h : h = s_inodes
  OBVIOUS
<1>2. PICK b : b = node[h].i_ino
  OBVIOUS
<1>3. PICK q : q = NB
  OBVIOUS
<1>4. h \in Nat /\ h >= 1 /\ h \in Nodes /\ Others \in Nat /\ q \in Nat
  BY <1>1, <1>3, MemFacts, Constants DEF MemTypes
<1>5. b \in Inos
  BY <1>1, <1>2, <1>4, MemFacts
<1>6. ~Fresh
  BY <1>1, <1>4 DEF Fresh
<1>7. CASE Freed
  <2>1. b \in Regs /\ 0 + drops[b] = h + Others /\ q < h
    BY <1>1, <1>2, <1>3, <1>7 DEF Freed
  <2>2. b # Root /\ Root \in Inos
    BY <2>1, Constants
  <2>3. drops[b] \in Nat /\ drops[Root] \in Nat
    BY <1>5, <2>2 DEF MemTypes
  <2>4. PICK d \in Nat : d = drops[b]
    BY <2>3
  <2>5. PICK e \in Nat : e = drops[Root]
    BY <2>3
  <2>6. d = h + Others
    BY <2>1, <2>4
  <2>7. d + e > q + Others
    BY <1>4, <2>1, <2>6
  <2> QED BY <1>3, <1>5, <2>2, <2>4, <2>5, <2>7 DEF NB
<1>8. CASE Given
  <2>1. PICK a \in Regs :
          /\ \A n \in Nodes : node[n].i_ino # a
          /\ 0 + (drops[a] + drops[b]) = (h + 1) + Others
    BY <1>1, <1>2, <1>8 DEF Given
  <2>2. a # b /\ a \in Inos
    BY <1>2, <1>4, <2>1, Constants
  <2>3. PICK d \in Nat : d = drops[a]
    BY <2>2 DEF MemTypes
  <2>4. PICK e \in Nat : e = drops[b]
    BY <1>5 DEF MemTypes
  <2>5. q < h
    BY <1>1, <1>3, <1>8 DEF Given
  <2>6. 0 + (d + e) = (h + 1) + Others
    BY <2>1, <2>3, <2>4
  <2>7. d + e > q + Others
    BY <1>4, <2>5, <2>6
  <2> QED BY <1>3, <1>5, <2>2, <2>3, <2>4, <2>7 DEF NB
<1> QED BY <1>6, <1>7, <1>8 DEF Memory

\* file_open, namei and execv leave the defined only for the paths FaultsExact
\* describes; get_inode walks in circles, the flash is written through a
\* pointer and the page of the inodes is given back only after the drops it
\* describes.
THEOREM FaultsOnlyThere ==
  ASSUME ~Overlap
  PROVE  Spec => []FaultsExact
<1>1. IInv => FaultsExact
  <2> SUFFICES ASSUME IInv
               PROVE FaultsExact
    OBVIOUS
  <2>1. MemTypes /\ Memory
    BY DEF IInv, Types, Shared
  <2>2. GivenAgain(s_inodes) => \E i \in Inos : drops[i] > 0 /\ \A n \in Nodes : node[n].i_ino # i
    <3>1. GivenAgain(s_inodes) => Given
      BY <2>1, Stages
    <3>2. Given => \E i \in Inos : drops[i] > 0 /\ \A n \in Nodes : node[n].i_ino # i
      BY Constants DEF Given
    <3> QED BY <3>1, <3>2
  <2>3. refcnt = 0 => \E i, j \in Inos :
          i # j /\ drops[i] + drops[j] > Len(BootInodes) + Others
    BY <2>1, GivenBack
  <2>4. \A t \in Tasks : FaultExact(t)
    BY DEF IInv, TaskOK
  <2> QED BY <2>2, <2>3, <2>4 DEF FaultExact, FaultsExact
<1> QED BY <1>1, Inductive, PTL

\* put_inode writes an inode back before it is freed: the zones on the flash
\* are lost only when an inode is dropped a second time, and no inode is
\* written that was never dropped, as long as the page of the inodes is theirs.
THEOREM FlashSafe ==
  ASSUME ~Overlap
  PROVE  Spec => []FlashKept
<1>1. IInv => FlashKept
  BY DEF IInv, Shared, Memory
<1> QED BY <1>1, Inductive, PTL

\* f_count counts the descriptors of a slot and i_count is at least the number
\* of slots that have the inode, except for memory that was given to a second
\* inode, if no program opens the root directory itself, for which namei takes
\* no reference.
THEOREM SlotsCounted ==
  ASSUME ~Overlap, << >> \notin Paths
  PROVE  Spec => []CountsExact
<1>1. IInv => CountsExact
  <2> SUFFICES ASSUME IInv
               PROVE CountsExact
    OBVIOUS
  <2>1. TypeOK
    <3>1. \A t \in Tasks : pc[t] \in Locals
      BY DEF IInv, Types
    <3>2. ASSUME NEW t \in Tasks
          PROVE /\ pc[t].at \in Places
                /\ pc[t].svc \in Numbers \cup {NULL} /\ pc[t].path \in Paths \cup {<< >>}
                /\ pc[t].done \in 0..Len(pc[t].path)
                /\ pc[t].fd \in -3..NR_OPEN /\ pc[t].f \in 1..NR_FILE \cup {NULL}
                /\ pc[t].dir \in Nodes \cup {NULL}
      BY <3>1, LocalsFields DEF IInv, TaskOK, Slots
    <3>3. /\ node \in [Nodes -> NodeRecs] /\ s_inodes \in Nodes
          /\ freeptr \in Nodes \cup {NULL} /\ refcnt \in Nat
          /\ raw \in [Inos -> RawRecs] /\ drops \in [Inos -> Nat]
          /\ file_tbl \in [Slots -> FileRecs]
          /\ filp \in [Tasks -> [Fds -> Slots \cup {NULL}]]
      BY DEF IInv, Types, MemTypes
    <3> QED BY <3>2, <3>3 DEF TypeOK, NodeRecs, RawRecs, FileRecs, Zones, Fds, Slots
  <2>2. ASSUME NEW f \in Slots
        PROVE file_tbl[f].f_count = Cardinality(Users(f))
    <3>1. CASE file_tbl[f].f_count = 0
      BY <3>1, FS_EmptySet DEF IInv, Shared, SlotUsers
    <3>2. CASE file_tbl[f].f_count = 1
      <4>1. PICK u : Users(f) = {u}
        BY <3>2 DEF IInv, Shared, SlotUsers
      <4> QED BY <3>2, <4>1, FS_Singleton
    <3>3. file_tbl[f].f_count \in {0, 1}
      BY TableFields DEF IInv
    <3> QED BY <3>1, <3>2, <3>3
  <2>3. ASSUME NEW n \in Nodes
        PROVE GivenAgain(n) \/ node[n].i_count >= Cardinality(Open(n))
    <3>1. Counted(n)
      BY DEF Counted
    <3>2. GivenAgain(n) \/ node[n].i_count >= Cardinality(Open(n)) + 0
      BY <3>1 DEF IInv, Shared, Referenced, Held
    <3>3. Cardinality(Open(n)) \in Nat /\ node[n].i_count \in Nat
      BY OpenFinite, TableFields DEF IInv
    <3> QED BY <3>2, <3>3
  <2> QED BY <2>1, <2>2, <2>3 DEF CountsExact, Open, Slots
<1> QED BY <1>1, Inductive, PTL

=============================================================================
