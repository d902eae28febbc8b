------------------------------- MODULE MinixFs -------------------------------
(***************************************************************************)
(* The Minix file system as one system: an image is mounted, a path is     *)
(* walked, every inode the walk finds is fetched from the inode table, and *)
(* the file the path leads to is read and written until it is closed.  The *)
(* parts are MinixMount, PathWalk and MinixFile; what one call needs of    *)
(* another is here.                                                        *)
(***************************************************************************)
EXTENDS Integers, Sequences, FiniteSets

CONSTANTS
  MaxMap, MaxInodes, MINIX_INODES_PER_BLOCK, I_SZ,
  Chars, Slash, Dot, MaxPath, Images, Root, NAME_LEN, DIR_PER_BLK,
  Files, i_zone, Flash, BLOCK_SZ, ND, PER, Extents, MaxCalls,
  Populated,   \* the super block of the images that have files in them
  NULL

VARIABLES
  d_sb, m_sbi, held, mount, loop, read,               \* MinixMount
  image, cur_dir, path, walk, pos, dir, room, name, k, \* PathWalk
  disk, call, calls,                                  \* MinixFile
  file   \* the inode of the open file, or NULL

M == INSTANCE MinixMount WITH at <- mount, i <- loop
P == INSTANCE PathWalk WITH at <- walk
F == INSTANCE MinixFile

mvars == <<d_sb, m_sbi, held, mount, loop, read>>
pvars == <<image, cur_dir, path, walk, pos, dir, room, name, k>>
fvars == <<disk, call, calls>>
vars == <<mvars, pvars, fvars, file>>

ASSUME MinixFsAssumption ==
  /\ M!MinixMountConstants /\ P!PathWalkConstants /\ F!MinixFileConstants
  /\ Populated \in M!SuperBlocks /\ Files \subseteq 1..Populated.s_ninodes
  /\ \A im \in Images : Files \cap DOMAIN im = {}

Init ==
  /\ M!Init /\ P!Init /\ F!Init
  /\ d_sb # Populated => image = CHOOSE x \in Images : TRUE
  /\ file = NULL

(***************************************************************************)
(* Mounting.  Where no path can be walked, inodes are read in any order.   *)
(***************************************************************************)
Idle == walk = "idle" /\ file = NULL

Mount ==
  /\ Idle
  /\ M!FillSuper \/ M!init_minix_bitmap \/ M!minix_put_super
  /\ UNCHANGED <<pvars, fvars, file>>

RawInode(ino) ==
  /\ Idle /\ d_sb # Populated
  /\ M!minix_raw_inode(ino)
  /\ UNCHANGED <<pvars, fvars, file>>

(***************************************************************************)
(* namei, until a file was written; the inode of every entry that is found *)
(* goes through minix_iget.                                                *)
(***************************************************************************)
Namei(d, p) ==
  /\ mount = "mounted" /\ d_sb = Populated
  /\ Idle /\ calls = 0
  /\ P!Call(d, p)
  /\ UNCHANGED <<mvars, fvars, file>>

Walk ==
  /\ P!Start \/ P!NextName
  /\ UNCHANGED <<mvars, fvars, file>>

Lookup ==
  /\ P!minix_lookup
  /\ IF walk' = "split" THEN M!minix_raw_inode(dir') ELSE UNCHANGED mvars
  /\ UNCHANGED <<fvars, file>>

\* file_open takes what namei returns; a directory is not read or written.
Open ==
  /\ P!Return
  /\ file' = IF dir \in Files THEN dir ELSE NULL
  /\ UNCHANGED <<mvars, fvars>>

(***************************************************************************)
(* The open file.                                                          *)
(***************************************************************************)
ReadWrite ==
  /\ file # NULL
  /\ \/ \E x \in Extents, op \in {"read", "write"} : x.file = file /\ F!Begin(x, op)
     \/ F!Loop
     \/ F!Return
  /\ UNCHANGED <<mvars, pvars, file>>

Close ==
  /\ file # NULL /\ call = NULL
  /\ file' = NULL
  /\ UNCHANGED <<mvars, pvars, fvars>>

Next ==
  \/ Mount
  \/ \E ino \in 0..(MaxInodes + 1) : RawInode(ino)
  \/ \E d \in {NULL} \cup DOMAIN image, p \in P!AllPaths : Namei(d, p)
  \/ Walk \/ Lookup \/ Open
  \/ ReadWrite \/ Close

Spec == Init /\ [][Next]_vars

(***************************************************************************)
(* Properties.                                                             *)
(***************************************************************************)
\* The locals of mounting, walking, reading and writing keep their types, and
\* the open file is a file whose inode was fetched from the inode table.
TypeOK ==
  /\ M!TypeOK /\ P!TypeOK /\ F!TypeOK
  /\ file = NULL \/ file \in Files \cap DOMAIN read

\* Every inode has a place of its own, inside one block of the inode table,
\* which no bitmap, no data and not the super block share (minix_raw_inode).
\* While it is mounted, the super block and both bitmaps are held, each block
\* in one place, and after minix_put_super nothing.
InodesApart == TypeOK /\ M!InodesApart /\ M!HeldExact

\* The component with its end fits into the memory namei has allocated for it.
NameFits == P!NameFits

\* namei returns the inode the path designates, and NULL if there is none:
\* repeated, leading and trailing slashes and "./" make no difference.  A name
\* that fills its field, or that a deleted entry has, may be missed, but another
\* file is never found in its place.
NameiExact == P!NameiExact

\* minix_read and minix_write treat a file as one flat array: the bytes are
\* in order, none is left out, doubled or taken from another place.  Those of a
\* zone the file does not have are the boot sector's.
ImplementsFlatFile == F!ImplementsFlatFile

\* minix_write never changes a block of another file, and changes block 0, the
\* boot sector, where and only where the file does not have the zone of the
\* position: number 0 is not taken for "no block".
OwnBlocks == F!OwnBlocks

=============================================================================
