----------------------------- MODULE MinixMount -----------------------------
(***************************************************************************)
(* minix_fill_super, init_minix_bitmap, minix_put_super, and where         *)
(* minix_raw_inode looks for an inode (fs/minix_fs.c), for one image.  A   *)
(* step is one buffer taken, one given back, or one inode read.  Zone 0 is *)
(* the boot sector, zone 1 the super block; then come the bitmap of        *)
(* inodes, the bitmap of zones, the inodes, and the data.                  *)
(***************************************************************************)
EXTENDS Integers, Sequences, FiniteSetsExt

CONSTANTS
  MaxMap,                  \* bound on the blocks of a bitmap
  MaxInodes,               \* bound on the number of inodes
  MINIX_INODES_PER_BLOCK,
  I_SZ,                    \* bytes of a struct minix_inode
  NULL

MINIX_SB_OFFSET == 1

\* As mkfs makes it: the inodes fill whole blocks, then the data begin.
InodeBlocks(n) == (n + MINIX_INODES_PER_BLOCK - 1) \div MINIX_INODES_PER_BLOCK
SuperBlocks ==
  {[s_ninodes |-> n, s_imap_blocks |-> im, s_zmap_blocks |-> zm,
    s_firstdatazone |-> 2 + im + zm + InodeBlocks(n)] :
     n \in 1..MaxInodes, im \in 1..MaxMap, zm \in 1..MaxMap}

MinixMountConstants ==
  /\ MaxMap \in Nat \ {0} /\ MaxInodes \in Nat
  /\ MINIX_INODES_PER_BLOCK \in Nat \ {0} /\ I_SZ \in Nat \ {0}
  /\ NULL \notin [sb : SuperBlocks, s_sbh : Nat, s_imap : Seq(Nat), s_zmap : Seq(Nat)]

VARIABLES
  d_sb,      \* struct minix_super_block, on the flash
  m_sbi,     \* struct minix_sb_info, or NULL
  held,      \* blocks whose buffers the mounted file system holds
  at,        \* what is being done
  i,         \* loop counter
  read       \* where inodes were looked for: <<block, byte>> by inode number

vars == <<d_sb, m_sbi, held, at, i, read>>

Init ==
  /\ d_sb \in SuperBlocks
  /\ m_sbi = NULL /\ held = {} /\ at = "unmounted" /\ i = 0 /\ read = << >>

(***************************************************************************)
(* minix_fill_super                                                        *)
(***************************************************************************)
FillSuper ==
  /\ at = "unmounted"
  /\ m_sbi' = [sb |-> d_sb, s_sbh |-> MINIX_SB_OFFSET, s_imap |-> << >>, s_zmap |-> << >>]
  /\ held' = {MINIX_SB_OFFSET}
  /\ at' = "imap" /\ i' = 0
  /\ UNCHANGED <<d_sb, read>>

ImapBlock(n) == MINIX_SB_OFFSET + 1 + n
ZmapBlock(n) == MINIX_SB_OFFSET + m_sbi.sb.s_imap_blocks + 1 + n

\* One round of a loop of init_minix_bitmap.
init_minix_bitmap ==
  /\ at \in {"imap", "zmap"}
  /\ LET n == IF at = "imap" THEN m_sbi.sb.s_imap_blocks ELSE m_sbi.sb.s_zmap_blocks
         b == IF at = "imap" THEN ImapBlock(i) ELSE ZmapBlock(i)
     IN IF i < n
        THEN /\ m_sbi' = IF at = "imap" THEN [m_sbi EXCEPT !.s_imap = Append(@, b)]
                         ELSE [m_sbi EXCEPT !.s_zmap = Append(@, b)]
             /\ held' = held \cup {b}
             /\ i' = i + 1
             /\ UNCHANGED at
        ELSE /\ at' = IF at = "imap" THEN "zmap" ELSE "mounted"
             /\ i' = 0
             /\ UNCHANGED <<m_sbi, held>>
  /\ UNCHANGED <<d_sb, read>>

(***************************************************************************)
(* minix_raw_inode                                                         *)
(***************************************************************************)
ino_to_blk_no(ino) ==
  2 + m_sbi.sb.s_imap_blocks + m_sbi.sb.s_zmap_blocks + (ino - 1) \div MINIX_INODES_PER_BLOCK
inode_offset(ino) == ((ino - 1) % MINIX_INODES_PER_BLOCK) * I_SZ

\* Error: inode numbers are counted from 0.
RawFromZero(ino) ==
  <<2 + m_sbi.sb.s_imap_blocks + m_sbi.sb.s_zmap_blocks + ino \div MINIX_INODES_PER_BLOCK,
    (ino % MINIX_INODES_PER_BLOCK) * I_SZ>>

\* The place is computed after ino--.
Raw(ino) == <<ino_to_blk_no(ino), inode_offset(ino)>>

\* A number that is 0 or too large is refused.  What minix_iget does with the
\* NULL it is then given is not modelled.
InRange(ino) == ino # 0 /\ ino <= m_sbi.sb.s_ninodes

minix_raw_inode(ino) ==
  /\ at = "mounted"
  /\ IF InRange(ino) THEN read' = [n \in DOMAIN read \cup {ino} |->
                                     IF n = ino THEN Raw(ino) ELSE read[n]]
     ELSE UNCHANGED read
  /\ UNCHANGED <<d_sb, m_sbi, held, at, i>>

(***************************************************************************)
(* minix_put_super                                                         *)
(***************************************************************************)
minix_put_super ==
  /\ at = "mounted"
  /\ held' = held \ ({m_sbi.s_imap[n] : n \in 1..m_sbi.sb.s_imap_blocks} \cup
                     {m_sbi.s_zmap[n] : n \in 1..m_sbi.sb.s_zmap_blocks} \cup {m_sbi.s_sbh})
  /\ m_sbi' = NULL /\ at' = "unmounted" /\ read' = << >>
  /\ UNCHANGED <<d_sb, i>>

Next == FillSuper \/ init_minix_bitmap \/ minix_put_super
        \/ \E ino \in 0..(MaxInodes + 1) : minix_raw_inode(ino)

Spec == Init /\ [][Next]_vars

(***************************************************************************)
(* Properties.                                                             *)
(***************************************************************************)
\* Buffers are held of blocks before the data only, and m_sbi exists exactly
\* while minix_fill_super has run and minix_put_super has not.
TypeOK ==
  /\ d_sb \in SuperBlocks
  /\ held \subseteq 0..(d_sb.s_firstdatazone - 1) /\ i \in 0..MaxMap
  /\ at \in {"unmounted", "imap", "zmap", "mounted"}
  /\ at = "unmounted" <=> m_sbi = NULL
  /\ DOMAIN read \subseteq 1..d_sb.s_ninodes

\* Every inode has a place of its own, inside one block of the inode table,
\* which no bitmap, no data and not the super block share.
InodesApart ==
  /\ \A m, n \in DOMAIN read : read[m] = read[n] => m = n
  /\ \A n \in DOMAIN read :
       /\ read[n][1] \in (2 + d_sb.s_imap_blocks + d_sb.s_zmap_blocks)..(d_sb.s_firstdatazone - 1)
       /\ read[n][2] + I_SZ <= MINIX_INODES_PER_BLOCK * I_SZ
       /\ read[n][1] \notin held

\* A mounted file system holds the super block and both bitmaps, each block in
\* one place, and after minix_put_super nothing.
HeldExact ==
  /\ at = "unmounted" => held = {}
  /\ at = "mounted" =>
       /\ held = 1..(1 + d_sb.s_imap_blocks + d_sb.s_zmap_blocks)
       /\ Len(m_sbi.s_imap) + Len(m_sbi.s_zmap) + 1 = Cardinality(held)

=============================================================================
