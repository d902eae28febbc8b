------------------------------ MODULE PathWalk ------------------------------
(***************************************************************************)
(* namei and path_len (fs/fs.c), minix_lookup (fs/minix_fs.c) and the      *)
(* string functions they use (lib/lib.c), one call at a time in one image. *)
(* Characters are small numbers; 0 ends a string.  A step is one round of  *)
(* the loop of namei or one entry of a directory.                          *)
(***************************************************************************)
EXTENDS Integers, Sequences, FiniteSetsExt, Functions

CONSTANTS
  Chars, Slash, Dot, \* the characters of paths
  MaxPath,           \* bound on the length of a path
  Images,            \* image[d]: the blocks of entries of the directory d
  Root,
  NAME_LEN, DIR_PER_BLK,
  NULL

PathWalkConstants ==
  /\ {Slash, Dot} \subseteq Chars /\ Slash # Dot /\ Chars \subseteq Nat \ {0}
  /\ NAME_LEN \in Nat \ {0} /\ DIR_PER_BLK \in Nat \ {0} /\ MaxPath \in Nat
  /\ NULL \notin Nat
  /\ \A im \in Images :
       /\ Root \in DOMAIN im /\ DOMAIN im \subseteq Nat
       /\ \A d \in DOMAIN im :
            /\ im[d] \in Seq([1..DIR_PER_BLK -> [inode : Nat, name : Seq(Chars)]])
            /\ \A b \in DOMAIN im[d] : \A e \in Range(im[d][b]) : Len(e.name) <= NAME_LEN

\* Every directory has "." for itself, and a name in use is that of one inode.
TidyImages == \A im \in Images : \A d \in DOMAIN im :
  LET used == {e \in UNION {Range(im[d][b]) : b \in DOMAIN im[d]} : e.inode # 0}
  IN /\ [inode |-> d, name |-> <<Dot>>] \in used
     /\ \A e, f \in used : e.name = f.name => e = f

VARIABLES
  image,         \* the directories of the image
  cur_dir, path, \* the arguments
  at,     \* "idle", "start", "split", "lookup", "done" or "null_call"
  pos,    \* characters of the path that are behind
  dir,    \* the inode reached, or NULL
  room,   \* bytes allocated for name
  name,   \* the component that is looked up
  k       \* entries of the directory that are behind

vars == <<image, cur_dir, path, at, pos, dir, room, name, k>>
inputs == <<image, cur_dir, path>>

Init ==
  /\ image \in Images
  /\ cur_dir = NULL /\ path = << >>
  /\ at = "idle" /\ pos = 0 /\ dir = NULL /\ room = 0 /\ name = << >> /\ k = 0

(***************************************************************************)
(* namei                                                                   *)
(***************************************************************************)
AllPaths == UNION {[1..n -> Chars] : n \in 0..MaxPath}

Call(d, p) ==
  /\ at = "idle"
  /\ cur_dir' = d /\ path' = p
  /\ at' = "start"
  /\ UNCHANGED <<image, pos, dir, room, name, k>>

strlen(s) == Len(s)

\* Error: no room for the end of the string.
RoomShort(s) == strlen(s)
\* sizeof('\0') is the size of an int.
Room(s) == strlen(s) + 4

Start ==
  /\ at = "start"
  /\ LET first == IF path # << >> /\ path[1] = Slash THEN Root ELSE cur_dir
         skip == IF Len(path) > 1 /\ path[1] = Dot /\ path[2] = Slash THEN 2 ELSE 0
     IN /\ dir' = first
        /\ at' = IF first = NULL THEN "done" ELSE "split"
        /\ pos' = skip
        /\ room' = IF first = NULL THEN 0 ELSE Room(SubSeq(path, skip + 1, Len(path)))
  /\ UNCHANGED <<inputs, name, k>>

path_len(s) ==
  LET others == {i \in 1..Len(s) : s[i] # Slash}
      o == IF others = {} THEN Len(s) ELSE Min(others) - 1
      ends == {i \in (o + 1)..Len(s) : s[i] = Slash}
  IN [offset |-> o, len |-> (IF ends = {} THEN Len(s) ELSE Min(ends) - 1) - o]

NextName ==
  /\ at = "split"
  /\ LET l == path_len(SubSeq(path, pos + 1, Len(path))) IN
       IF l.len = 0
       THEN at' = "done" /\ UNCHANGED <<pos, name, dir, k>>
       ELSE /\ name' = SubSeq(path, pos + l.offset + 1, pos + l.offset + l.len)
            /\ pos' = pos + l.offset + l.len
            /\ k' = 0
            /\ IF dir \notin DOMAIN image THEN at' = "null_call" /\ UNCHANGED dir
               ELSE IF strlen(name') > NAME_LEN THEN at' = "done" /\ dir' = NULL
               ELSE at' = "lookup" /\ UNCHANGED dir
  /\ UNCHANGED <<inputs, room>>

(***************************************************************************)
(* minix_lookup                                                            *)
(***************************************************************************)
\* A block of entries in memory: two bytes of inode number, then the name,
\* filled up with zeros; nothing ends a name of NAME_LEN characters.
Bytes(e) == <<e.inode % 256, e.inode \div 256>> \o
            [i \in 1..NAME_LEN |-> IF i <= Len(e.name) THEN e.name[i] ELSE 0]
Memory(block) ==
  LET sz == NAME_LEN + 2
  IN [a \in 1..(DIR_PER_BLK * sz) |-> Bytes(block[(a - 1) \div sz + 1])[((a - 1) % sz) + 1]]

\* Error: the comparison stops at the end of the first string.
StrcmpPrefix(src, mem, a) == {\A i \in 1..Len(src) : src[i] = mem[a + i - 1]}

\* strcmp(src, mem + a) == 0; beyond the block memory may hold anything.
strcmp(src, mem, a) ==
  LET s == Append(src, 0)
      inside == {i \in 1..Len(s) : a + i - 1 <= Len(mem)}
  IN IF \E i \in inside : s[i] # mem[a + i - 1] THEN {FALSE}
     ELSE IF inside = 1..Len(s) THEN {TRUE} ELSE BOOLEAN

Found(i) ==
  /\ dir' = IF i = 0 THEN NULL ELSE i
  /\ at' = IF i = 0 THEN "done" ELSE "split"
  /\ UNCHANGED k

minix_lookup ==
  /\ at = "lookup"
  /\ LET blocks == image[dir]
         b == (k \div DIR_PER_BLK) + 1
         e == (k % DIR_PER_BLK) + 1
     IN IF b > Len(blocks) THEN Found(0)
        ELSE \E same \in strcmp(name, Memory(blocks[b]), (e - 1) * (NAME_LEN + 2) + 3) :
               IF same THEN Found(blocks[b][e].inode)
               ELSE k' = k + 1 /\ UNCHANGED <<dir, at>>
  /\ UNCHANGED <<inputs, pos, room, name>>

\* kfree(name): the caller has the result, the locals are gone.
Return ==
  /\ at = "done"
  /\ at' = "idle" /\ cur_dir' = NULL /\ path' = << >>
  /\ pos' = 0 /\ dir' = NULL /\ room' = 0 /\ name' = << >> /\ k' = 0
  /\ UNCHANGED image

Next ==
  \/ \E d \in {NULL} \cup DOMAIN image, p \in AllPaths : Call(d, p)
  \/ Start \/ NextName \/ minix_lookup \/ Return

Spec == Init /\ [][Next]_vars

(***************************************************************************)
(* Properties.                                                             *)
(***************************************************************************)
\* namei never looks up an empty name or one with a slash, and never goes
\* beyond the end of the path (path_len).
TypeOK ==
  /\ at \in {"idle", "start", "split", "lookup", "done", "null_call"}
  /\ pos \in 0..Len(path) /\ k \in Nat /\ dir \in Nat \cup {NULL}
  /\ at = "lookup" => name # << >> /\ Slash \notin Range(name)

\* name with its end fits into the memory namei has allocated for it.
NameFits == name # << >> => Len(name) + 1 <= room

\* What the path designates: its components, the parts between slashes, looked
\* up one after the other among the entries that are in use.  After[i] is what
\* the first i characters lead to.
Component(j, i) ==
  /\ \A m \in j..i : path[m] # Slash
  /\ j = 1 \/ path[j - 1] = Slash
  /\ i = Len(path) \/ path[i + 1] = Slash
Entries(d) == UNION {Range(image[d][b]) : b \in DOMAIN image[d]}
Under(d, n) == {e.inode : e \in {x \in Entries(d) : x.name = n /\ x.inode # 0}}
Step(d, n) == IF d \in DOMAIN image /\ Under(d, n) # {}
              THEN CHOOSE i \in Under(d, n) : TRUE ELSE NULL
After[i \in 0..Len(path)] ==
  IF i = 0 THEN IF path # << >> /\ path[1] = Slash THEN Root ELSE cur_dir
  ELSE IF \E j \in 1..i : Component(j, i)
       THEN Step(After[i - 1], SubSeq(path, CHOOSE j \in 1..i : Component(j, i), i))
       ELSE After[i - 1]
Designated == After[Len(path)]

\* A name that fills its field, or that an entry which is not in use still
\* has: strcmp runs on into the next entry, and minix_lookup stops at inode 0.
Missed == \E i \in 1..Len(path) : \E j \in 1..i :
  /\ Component(j, i)
  /\ LET c == SubSeq(path, j, i) IN
     \/ Len(c) = NAME_LEN
     \/ \E d \in DOMAIN image : \E e \in Entries(d) : e.name = c /\ e.inode = 0

\* namei returns the inode the path designates, and NULL if there is none:
\* repeated, leading and trailing slashes and "./" make no difference.  A file
\* may be missed because of the names in a directory, but another one is never
\* found in its place.
NameiExact == at = "done" => dir = Designated \/ (Missed /\ dir = NULL)

=============================================================================
