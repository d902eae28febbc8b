--------------------------- MODULE MinixFsProofs ---------------------------
(***************************************************************************)
(* Proofs about MinixFs, for images of any size.                           *)
(***************************************************************************)
EXTENDS MinixFs, SequenceTheorems, FiniteSetTheorems, WellFoundedInduction, TLAPS

(***************************************************************************)
(* Mounting.  The bitmaps are read one block after the other, and m_sbi    *)
(* lists exactly the blocks whose buffers are held; what was read of the   *)
(* inode table is where the super block on the flash says.                 *)
(***************************************************************************)
\* The place of inode n in an image with the super block d.
Place(d, n) ==
  <<2 + d.s_imap_blocks + d.s_zmap_blocks + (n - 1) \div MINIX_INODES_PER_BLOCK,
    ((n - 1) % MINIX_INODES_PER_BLOCK) * I_SZ>>

Infos(d) == [sb : {d}, s_sbh : {1}, s_imap : Seq(Nat), s_zmap : Seq(Nat)]

BitmapsHeld ==
  LET a == Len(m_sbi.s_imap)  b == Len(m_sbi.s_zmap) IN
  /\ m_sbi \in Infos(d_sb)
  /\ held = 1..(1 + a + b)
  /\ \A n \in 1..a : m_sbi.s_imap[n] = 1 + n
  /\ \A n \in 1..b : m_sbi.s_zmap[n] = 1 + a + n
  /\ mount = "imap" => a = loop /\ a <= d_sb.s_imap_blocks /\ b = 0
  /\ mount = "zmap" => a = d_sb.s_imap_blocks /\ b = loop /\ b <= d_sb.s_zmap_blocks
  /\ mount = "mounted" => a = d_sb.s_imap_blocks /\ b = d_sb.s_zmap_blocks /\ loop = 0

MInv ==
  /\ d_sb \in M!SuperBlocks /\ loop \in Nat
  /\ mount \in {"unmounted", "imap", "zmap", "mounted"}
  /\ mount = "unmounted" => m_sbi = NULL /\ held = {} /\ loop = 0
  /\ mount # "unmounted" => BitmapsHeld
  /\ mount # "mounted" => DOMAIN read = {}
  /\ DOMAIN read \subseteq 1..d_sb.s_ninodes
  /\ \A n \in DOMAIN read : read[n] = Place(d_sb, n)

\* What the super block of an image says.
LEMMA SuperBlock ==
  ASSUME NEW d \in M!SuperBlocks
  PROVE /\ d.s_ninodes \in Nat /\ d.s_ninodes >= 1 /\ d.s_ninodes <= MaxInodes
        /\ d.s_imap_blocks \in Nat /\ d.s_imap_blocks >= 1 /\ d.s_imap_blocks <= MaxMap
        /\ d.s_zmap_blocks \in Nat /\ d.s_zmap_blocks >= 1 /\ d.s_zmap_blocks <= MaxMap
        /\ d.s_firstdatazone =
             2 + d.s_imap_blocks + d.s_zmap_blocks + M!InodeBlocks(d.s_ninodes)
<1>1. MaxMap \in Nat /\ MaxInodes \in Nat
  BY MinixFsAssumption DEF M!MinixMountConstants
<1>2. PICK n \in 1..MaxInodes, im \in 1..MaxMap, zm \in 1..MaxMap :
        d = [s_ninodes |-> n, s_imap_blocks |-> im, s_zmap_blocks |-> zm,
             s_firstdatazone |-> 2 + im + zm + M!InodeBlocks(n)]
  BY DEF M!SuperBlocks
<1>3. d.s_ninodes = n /\ d.s_imap_blocks = im /\ d.s_zmap_blocks = zm
      /\ d.s_firstdatazone = 2 + im + zm + M!InodeBlocks(n)
  BY <1>2
<1> QED BY <1>1, <1>3

\* A record of what is mounted is never NULL.
LEMMA InfoNotNull ==
  ASSUME NEW d \in M!SuperBlocks, NEW x \in Infos(d)
  PROVE x # NULL
<1>1. NULL \notin [sb : M!SuperBlocks, s_sbh : Nat, s_imap : Seq(Nat), s_zmap : Seq(Nat)]
  BY MinixFsAssumption DEF M!MinixMountConstants
<1>2. x \in [sb : M!SuperBlocks, s_sbh : Nat, s_imap : Seq(Nat), s_zmap : Seq(Nat)]
  BY DEF Infos
<1> QED BY <1>1, <1>2

\* Nothing is mounted at first.
LEMMA InitMInv == M!Init => MInv
BY DEF M!Init, MInv

\* minix_fill_super
LEMMA FillStep == MInv /\ M!FillSuper => MInv'
<1> SUFFICES ASSUME MInv, M!FillSuper PROVE MInv'
  OBVIOUS
<1>1. /\ mount = "unmounted" /\ mount' = "imap" /\ loop' = 0 /\ held' = {1}
      /\ d_sb' = d_sb /\ read' = read
      /\ m_sbi' = [sb |-> d_sb, s_sbh |-> 1, s_imap |-> << >>, s_zmap |-> << >>]
  BY DEF M!FillSuper, M!MINIX_SB_OFFSET
<1>2. m_sbi' \in Infos(d_sb) /\ Len(m_sbi'.s_imap) = 0 /\ Len(m_sbi'.s_zmap) = 0
  BY <1>1 DEF Infos
<1>3. d_sb.s_imap_blocks \in Nat
  BY SuperBlock DEF MInv
<1>4. BitmapsHeld'
  BY <1>1, <1>2, <1>3 DEF BitmapsHeld
<1> QED BY <1>1, <1>4 DEF MInv

\* One more block at the end of a list.
LEMMA Appended ==
  ASSUME NEW s \in Seq(Nat), NEW b \in Nat
  PROVE /\ Append(s, b) \in Seq(Nat) /\ Len(Append(s, b)) = Len(s) + 1
        /\ Append(s, b)[Len(s) + 1] = b
        /\ \A n \in 1..Len(s) : Append(s, b)[n] = s[n]
BY AppendProperties

\* One round of a loop of init_minix_bitmap.
LEMMA BitmapStep == MInv /\ M!init_minix_bitmap => MInv'
<1> SUFFICES ASSUME MInv, M!init_minix_bitmap PROVE MInv'
  OBVIOUS
<1>1. PICK a, b : a = Len(m_sbi.s_imap) /\ b = Len(m_sbi.s_zmap)
  OBVIOUS
<1>2. mount \in {"imap", "zmap"} /\ d_sb' = d_sb /\ read' = read /\ BitmapsHeld
  BY DEF M!init_minix_bitmap, MInv
<1>3. /\ m_sbi.sb = d_sb /\ m_sbi.s_sbh = 1 /\ m_sbi.s_imap \in Seq(Nat)
      /\ m_sbi.s_zmap \in Seq(Nat) /\ m_sbi \in Infos(d_sb)
  BY <1>2 DEF BitmapsHeld, Infos
<1>4. a \in Nat /\ b \in Nat
  BY <1>1, <1>3
<1>5. /\ d_sb.s_imap_blocks \in Nat /\ d_sb.s_zmap_blocks \in Nat
  BY SuperBlock DEF MInv
<1>6. /\ held = 1..(1 + a + b)
      /\ \A n \in 1..a : m_sbi.s_imap[n] = 1 + n
      /\ \A n \in 1..b : m_sbi.s_zmap[n] = 1 + a + n
      /\ mount = "imap" => a = loop /\ a <= d_sb.s_imap_blocks /\ b = 0
      /\ mount = "zmap" => a = d_sb.s_imap_blocks /\ b = loop /\ b <= d_sb.s_zmap_blocks
  BY <1>1, <1>2 DEF BitmapsHeld
<1>7. CASE mount = "imap" /\ loop < d_sb.s_imap_blocks
  <2>1. PICK c : c = 2 + loop
    OBVIOUS
  <2>2. /\ m_sbi' = [m_sbi EXCEPT !.s_imap = Append(@, c)]
        /\ held' = held \cup {c} /\ loop' = loop + 1 /\ mount' = mount
    BY <1>3, <1>7, <2>1
       DEF M!init_minix_bitmap, M!ImapBlock, M!MINIX_SB_OFFSET
  <2>3. /\ m_sbi'.s_imap = Append(m_sbi.s_imap, c) /\ m_sbi'.s_zmap = m_sbi.s_zmap
        /\ m_sbi' \in Infos(d_sb)
    <3>1. Append(m_sbi.s_imap, c) \in Seq(Nat)
      BY <1>3, <1>4, <1>6, <1>7, <2>1, Appended
    <3> QED BY <1>3, <2>2, <3>1 DEF Infos
  <2>4. /\ Len(m_sbi'.s_imap) = a + 1 /\ Len(m_sbi'.s_zmap) = 0
        /\ m_sbi'.s_imap[a + 1] = c /\ \A n \in 1..a : m_sbi'.s_imap[n] = 1 + n
    <3>1. c \in Nat
      BY <1>4, <1>6, <1>7, <2>1
    <3> QED BY <1>1, <1>3, <1>6, <1>7, <2>3, <3>1, Appended
  <2>5. \A n \in 1..(a + 1) : m_sbi'.s_imap[n] = 1 + n
    BY <1>4, <1>6, <1>7, <2>1, <2>4
  <2>6. held' = 1..(1 + (a + 1) + 0)
    BY <1>4, <1>6, <1>7, <2>1, <2>2
  <2>7. BitmapsHeld'
    <3>1. PICK x : x = a + 1
      OBVIOUS
    <3>2. loop' = x /\ x <= d_sb.s_imap_blocks
      BY <1>4, <1>5, <1>6, <1>7, <2>2, <3>1
    <3>3. /\ Len(m_sbi'.s_imap) = x /\ Len(m_sbi'.s_zmap) = 0 /\ held' = 1..(1 + x + 0)
          /\ \A n \in 1..x : m_sbi'.s_imap[n] = 1 + n
          /\ \A n \in 1..0 : m_sbi'.s_zmap[n] = 1 + x + n
      BY <2>4, <2>5, <2>6, <3>1
    <3> QED BY <1>2, <1>7, <2>2, <2>3, <3>2, <3>3 DEF BitmapsHeld
  <2> QED BY <1>2, <1>4, <1>6, <1>7, <2>2, <2>7 DEF MInv
<1>8. CASE mount = "zmap" /\ loop < d_sb.s_zmap_blocks
  <2>1. PICK c : c = 2 + a + loop
    OBVIOUS
  <2>2. /\ m_sbi' = [m_sbi EXCEPT !.s_zmap = Append(@, c)]
        /\ held' = held \cup {c} /\ loop' = loop + 1 /\ mount' = mount
    <3>1. M!ZmapBlock(loop) = c
      BY <1>3, <1>4, <1>6, <1>8, <2>1 DEF M!ZmapBlock, M!MINIX_SB_OFFSET
    <3> QED BY <1>3, <1>8, <3>1 DEF M!init_minix_bitmap
  <2>3. /\ m_sbi'.s_zmap = Append(m_sbi.s_zmap, c) /\ m_sbi'.s_imap = m_sbi.s_imap
        /\ m_sbi' \in Infos(d_sb)
    <3>1. Append(m_sbi.s_zmap, c) \in Seq(Nat)
      BY <1>3, <1>4, <1>6, <1>8, <2>1, Appended
    <3> QED BY <1>3, <2>2, <3>1 DEF Infos
  <2>4. /\ Len(m_sbi'.s_zmap) = b + 1 /\ Len(m_sbi'.s_imap) = a
        /\ m_sbi'.s_zmap[b + 1] = c /\ \A n \in 1..b : m_sbi'.s_zmap[n] = 1 + a + n
    <3>1. c \in Nat
      BY <1>4, <1>6, <1>8, <2>1
    <3> QED BY <1>1, <1>3, <1>6, <1>8, <2>3, <3>1, Appended
  <2>5. \A n \in 1..(b + 1) : m_sbi'.s_zmap[n] = 1 + a + n
    <3>1. c = 1 + a + (b + 1)
      BY <1>4, <1>6, <1>8, <2>1
    <3>2. ASSUME NEW n \in 1..(b + 1) PROVE n = b + 1 \/ n \in 1..b
      BY <1>4
    <3> QED BY <2>4, <3>1, <3>2
  <2>6. held' = 1..(1 + a + (b + 1))
    BY <1>4, <1>6, <1>8, <2>1, <2>2
  <2>7. \A n \in 1..a : m_sbi'.s_imap[n] = 1 + n
    BY <1>6, <2>3
  <2>8. BitmapsHeld'
    <3>1. PICK x : x = b + 1
      OBVIOUS
    <3>2. loop' = x /\ x <= d_sb.s_zmap_blocks /\ a = d_sb.s_imap_blocks
      BY <1>4, <1>5, <1>6, <1>8, <2>2, <3>1
    <3>3. /\ Len(m_sbi'.s_imap) = a /\ Len(m_sbi'.s_zmap) = x /\ held' = 1..(1 + a + x)
          /\ \A n \in 1..x : m_sbi'.s_zmap[n] = 1 + a + n
      BY <2>4, <2>5, <2>6, <3>1
    <3> QED BY <1>2, <1>8, <2>2, <2>3, <2>7, <3>2, <3>3 DEF BitmapsHeld
  <2> QED BY <1>2, <1>4, <1>6, <1>8, <2>2, <2>8 DEF MInv
<1>9. CASE mount = "imap" /\ ~(loop < d_sb.s_imap_blocks)
  <2>1. mount' = "zmap" /\ loop' = 0 /\ m_sbi' = m_sbi /\ held' = held
    BY <1>3, <1>9 DEF M!init_minix_bitmap
  <2>2. a = d_sb.s_imap_blocks /\ b = 0
    BY <1>4, <1>5, <1>6, <1>9
  <2>3. BitmapsHeld'
    BY <1>1, <1>2, <1>5, <1>9, <2>1, <2>2 DEF BitmapsHeld
  <2> QED BY <1>2, <1>9, <2>1, <2>3 DEF MInv
<1>10. CASE mount = "zmap" /\ ~(loop < d_sb.s_zmap_blocks)
  <2>1. mount' = "mounted" /\ loop' = 0 /\ m_sbi' = m_sbi /\ held' = held
    BY <1>3, <1>10 DEF M!init_minix_bitmap
  <2>2. a = d_sb.s_imap_blocks /\ b = d_sb.s_zmap_blocks
    BY <1>4, <1>5, <1>6, <1>10
  <2>3. BitmapsHeld'
    BY <1>1, <1>2, <1>5, <1>10, <2>1, <2>2 DEF BitmapsHeld
  <2> QED BY <1>2, <1>10, <2>1, <2>3 DEF MInv
<1> QED BY <1>2, <1>7, <1>8, <1>9, <1>10

\* minix_raw_inode finds an inode where the super block says.
LEMMA RawStep ==
  ASSUME NEW ino \in Nat, MInv, M!minix_raw_inode(ino)
  PROVE /\ MInv' /\ DOMAIN read \subseteq DOMAIN read' /\ mount = "mounted" /\ mount' = mount
        /\ d_sb' = d_sb
        /\ ino # 0 /\ ino <= d_sb.s_ninodes => ino \in DOMAIN read'
<1>1. mount = "mounted" /\ BitmapsHeld
  BY DEF M!minix_raw_inode, MInv
<1>2. m_sbi.sb = d_sb
  BY <1>1 DEF BitmapsHeld, Infos
<1>3. d_sb' = d_sb /\ m_sbi' = m_sbi /\ held' = held /\ mount' = mount /\ loop' = loop
  BY DEF M!minix_raw_inode
<1>4. BitmapsHeld'
  BY <1>1, <1>3 DEF BitmapsHeld
<1>5. d_sb.s_ninodes \in Nat
  BY SuperBlock DEF MInv
<1>6. CASE ino # 0 /\ ino <= d_sb.s_ninodes
  <2>1. read' = [n \in DOMAIN read \cup {ino} |-> IF n = ino THEN M!Raw(ino) ELSE read[n]]
    BY <1>2, <1>6 DEF M!minix_raw_inode, M!InRange
  <2>2. M!Raw(ino) = Place(d_sb, ino)
    BY <1>2 DEF M!Raw, Place, M!ino_to_blk_no, M!inode_offset
  <2>3. ino \in 1..d_sb.s_ninodes
    BY <1>5, <1>6
  <2>4. /\ DOMAIN read' = DOMAIN read \cup {ino}
        /\ \A n \in DOMAIN read' : read'[n] = Place(d_sb, n)
    BY <2>1, <2>2 DEF MInv
  <2> QED BY <1>1, <1>3, <1>4, <2>3, <2>4 DEF MInv
<1>7. CASE ~(ino # 0 /\ ino <= d_sb.s_ninodes)
  <2>1. read' = read
    BY <1>2, <1>7 DEF M!minix_raw_inode, M!InRange
  <2> QED BY <1>1, <1>3, <1>4, <1>7, <2>1 DEF MInv
<1> QED BY <1>6, <1>7

\* minix_put_super gives back everything.
LEMMA PutStep == MInv /\ M!minix_put_super => MInv'
<1> SUFFICES ASSUME MInv, M!minix_put_super PROVE MInv'
  OBVIOUS
<1>1. /\ mount = "mounted" /\ BitmapsHeld /\ mount' = "unmounted" /\ m_sbi' = NULL
      /\ read' = << >> /\ d_sb' = d_sb /\ loop' = loop
      /\ held' = held \ ({m_sbi.s_imap[n] : n \in 1..m_sbi.sb.s_imap_blocks} \cup
                         {m_sbi.s_zmap[n] : n \in 1..m_sbi.sb.s_zmap_blocks} \cup {m_sbi.s_sbh})
  BY DEF M!minix_put_super, MInv
<1>2. PICK a, b : a = d_sb.s_imap_blocks /\ b = d_sb.s_zmap_blocks
  OBVIOUS
<1>3. /\ m_sbi.sb = d_sb /\ m_sbi.s_sbh = 1 /\ held = 1..(1 + a + b) /\ loop = 0
      /\ \A n \in 1..a : m_sbi.s_imap[n] = 1 + n
      /\ \A n \in 1..b : m_sbi.s_zmap[n] = 1 + a + n
  BY <1>1, <1>2 DEF BitmapsHeld, Infos
<1>4. a \in Nat /\ b \in Nat
  BY <1>2, SuperBlock DEF MInv
<1>5. held' = {}
  <2>1. SUFFICES ASSUME NEW x \in held, x \in held' PROVE FALSE
    BY <1>1
  <2>2. x \in 1..(1 + a + b)
    BY <1>3, <2>1
  <2>3. CASE x = 1
    BY <1>1, <1>3, <2>1, <2>3
  <2>4. CASE x \in 2..(1 + a)
    <3>1. x - 1 \in 1..a /\ m_sbi.s_imap[x - 1] = x
      BY <1>3, <1>4, <2>2, <2>4
    <3> QED BY <1>1, <1>2, <1>3, <2>1, <3>1
  <2>5. CASE x \in (2 + a)..(1 + a + b)
    <3>1. x - 1 - a \in 1..b /\ m_sbi.s_zmap[x - 1 - a] = x
      BY <1>3, <1>4, <2>2, <2>5
    <3> QED BY <1>1, <1>2, <1>3, <2>1, <3>1
  <2> QED BY <1>4, <2>2, <2>3, <2>4, <2>5
<1>6. DOMAIN read' = {}
  BY <1>1
<1> QED BY <1>1, <1>3, <1>5, <1>6 DEF MInv

\* The places of two inodes are apart, in the table of inodes.
LEMMA Places ==
  ASSUME NEW d \in M!SuperBlocks, NEW n \in 1..d.s_ninodes
  PROVE /\ Place(d, n)[1] \in (2 + d.s_imap_blocks + d.s_zmap_blocks)..(d.s_firstdatazone - 1)
        /\ Place(d, n)[2] + I_SZ <= MINIX_INODES_PER_BLOCK * I_SZ
        /\ \A m \in 1..d.s_ninodes : Place(d, m) = Place(d, n) => m = n
<1>1. PICK I, z : I = MINIX_INODES_PER_BLOCK /\ z = I_SZ
  OBVIOUS
<1>2. I \in Nat /\ I >= 1 /\ z \in Nat /\ z >= 1
  BY <1>1, MinixFsAssumption DEF M!MinixMountConstants
<1>3. /\ d.s_ninodes \in Nat /\ d.s_imap_blocks \in Nat /\ d.s_zmap_blocks \in Nat
      /\ d.s_firstdatazone = 2 + d.s_imap_blocks + d.s_zmap_blocks + M!InodeBlocks(d.s_ninodes)
  BY SuperBlock
<1>4. \A m \in 1..d.s_ninodes :
        /\ Place(d, m)[1] = 2 + d.s_imap_blocks + d.s_zmap_blocks + (m - 1) \div I
        /\ Place(d, m)[2] = ((m - 1) % I) * z
  BY <1>1 DEF Place
<1>5. \A m \in 1..d.s_ninodes : m - 1 \in Nat
  BY <1>3
<1>6. ASSUME NEW m \in Nat
      PROVE \E q, r \in Nat : q = m \div I /\ r = m % I /\ r < I /\ m = I * q + r
  <2>1. PICK q, r : q = m \div I /\ r = m % I
    OBVIOUS
  <2>2. q \in Nat
    BY <1>2, <2>1
  <2>3. r \in Nat /\ r < I
    BY <1>2, <2>1
  <2>4. m = I * q + r
    BY <1>2, <2>1
  <2> QED BY <2>1, <2>2, <2>3, <2>4
<1>7. (n - 1) \div I < M!InodeBlocks(d.s_ninodes) /\ M!InodeBlocks(d.s_ninodes) \in Nat
  <2>1. PICK N, q, p : N = d.s_ninodes /\ q = (n - 1) \div I /\ p = (N + I - 1) \div I
    OBVIOUS
  <2>2. M!InodeBlocks(d.s_ninodes) = p
    BY <1>1, <2>1 DEF M!InodeBlocks
  <2>3. q \in Nat /\ I * q <= n - 1
    <3>1. PICK v, r \in Nat : v = (n - 1) \div I /\ n - 1 = I * v + r
      BY <1>5, <1>6
    <3>2. v = q /\ n \in Nat
      BY <1>3, <2>1, <3>1
    <3>3. I * v <= I * v + r
      BY <1>2
    <3> QED BY <3>1, <3>2, <3>3
  <2>4. N + I - 1 \in Nat /\ n <= N /\ n \in Nat
    BY <1>2, <1>3, <2>1
  <2>5. p \in Nat /\ N + I - 1 < I * p + I
    <3>1. PICK v, r \in Nat : v = (N + I - 1) \div I /\ r < I /\ N + I - 1 = I * v + r
      BY <1>6, <2>4
    <3>2. v = p
      BY <2>1, <3>1
    <3>3. I * v + r < I * v + I
      BY <1>2, <3>1
    <3> QED BY <3>1, <3>2, <3>3
  <2>6. I * q < I * p
    <3>1. PICK x, y : x = I * q /\ y = I * p
      OBVIOUS
    <3>2. x \in Int /\ y \in Int
      BY <1>2, <2>3, <2>5, <3>1
    <3>3. x <= n - 1 /\ N + I - 1 < y + I
      BY <2>3, <2>5, <3>1
    <3>4. x < y
      BY <1>2, <1>3, <2>1, <2>4, <3>2, <3>3
    <3> QED BY <3>1, <3>4
  <2>7. q < p
    BY <1>2, <2>3, <2>5, <2>6
  <2> QED BY <2>1, <2>2, <2>5, <2>7
<1>8. Place(d, n)[1] \in (2 + d.s_imap_blocks + d.s_zmap_blocks)..(d.s_firstdatazone - 1)
  <2>1. PICK q, t, x, y : /\ q = (n - 1) \div I /\ t = M!InodeBlocks(d.s_ninodes)
                          /\ x = d.s_imap_blocks /\ y = d.s_zmap_blocks
    OBVIOUS
  <2>2. q \in Nat
    BY <1>5, <1>6, <2>1
  <2>3. t \in Nat /\ q < t
    BY <1>7, <2>1, Zenon
  <2>4. x \in Nat /\ y \in Nat /\ d.s_firstdatazone = 2 + x + y + t
    BY <1>3, <2>1
  <2>5. Place(d, n)[1] = 2 + x + y + q
    BY <1>4, <2>1, Zenon
  <2>6. 2 + x + y + q \in (2 + x + y)..((2 + x + y + t) - 1)
    BY <2>2, <2>3, <2>4
  <2> QED BY <2>1, <2>4, <2>5, <2>6, Zenon
<1>9. Place(d, n)[2] + I_SZ <= MINIX_INODES_PER_BLOCK * I_SZ
  <2>1. PICK r : r = (n - 1) % I
    OBVIOUS
  <2>2. r \in Nat /\ r + 1 <= I
    BY <1>2, <1>5, <1>6, <2>1
  <2>3. (r + 1) * z <= I * z
    BY <1>2, <2>2
  <2>4. r * z + z <= I * z
    BY <1>2, <2>2, <2>3
  <2> QED BY <1>1, <1>4, <2>1, <2>4
<1>10. ASSUME NEW m \in 1..d.s_ninodes, Place(d, m) = Place(d, n) PROVE m = n
  <2>1. PICK q, r, p, s : /\ q = (n - 1) \div I /\ r = (n - 1) % I
                          /\ p = (m - 1) \div I /\ s = (m - 1) % I
    OBVIOUS
  <2>2. /\ q \in Nat /\ r \in Nat /\ p \in Nat /\ s \in Nat
        /\ n - 1 = I * q + r /\ m - 1 = I * p + s
    <3>1. q \in Nat /\ r \in Nat /\ n - 1 = I * q + r
      <4>1. PICK x, y \in Nat : x = (n - 1) \div I /\ y = (n - 1) % I /\ n - 1 = I * x + y
        BY <1>5, <1>6
      <4> QED BY <2>1, <4>1
    <3>2. p \in Nat /\ s \in Nat /\ m - 1 = I * p + s
      <4>1. PICK x, y \in Nat : x = (m - 1) \div I /\ y = (m - 1) % I /\ m - 1 = I * x + y
        BY <1>5, <1>6
      <4> QED BY <2>1, <4>1
    <3> QED BY <3>1, <3>2
  <2>3. p = q /\ s * z = r * z
    BY <1>3, <1>4, <1>10, <2>1, <2>2
  <2>4. s = r
    BY <1>2, <2>2, <2>3
  <2>5. m - 1 = n - 1
    BY <2>2, <2>3, <2>4
  <2> QED BY <1>3, <2>5
<1> QED BY <1>8, <1>9, <1>10

\* What MInv means for a mounted file system.
LEMMA MountFacts ==
  ASSUME MInv
  PROVE M!InodesApart /\ M!HeldExact /\ M!TypeOK
<1> DEFINE im == d_sb.s_imap_blocks
           zm == d_sb.s_zmap_blocks
<1>1. /\ im \in Nat /\ zm \in Nat /\ d_sb \in M!SuperBlocks /\ im <= MaxMap /\ zm <= MaxMap
      /\ d_sb.s_ninodes \in Nat /\ d_sb.s_ninodes >= 1
  BY SuperBlock DEF MInv
<1>2. mount # "unmounted" => held \subseteq 1..(1 + im + zm)
  <2> SUFFICES ASSUME mount # "unmounted" PROVE held \subseteq 1..(1 + im + zm)
    OBVIOUS
  <2>1. PICK a, b : a = Len(m_sbi.s_imap) /\ b = Len(m_sbi.s_zmap)
    OBVIOUS
  <2>2. a \in Nat /\ b \in Nat
    BY <2>1 DEF MInv, BitmapsHeld, Infos
  <2>3. held = 1..(1 + a + b) /\ a <= im /\ b <= zm
    BY <1>1, <2>1, <2>2 DEF MInv, BitmapsHeld
  <2> QED BY <1>1, <2>2, <2>3
<1>3. held \subseteq 1..(1 + im + zm)
  BY <1>2 DEF MInv
<1>4. \A n \in DOMAIN read : n \in 1..d_sb.s_ninodes /\ read[n] = Place(d_sb, n)
  BY DEF MInv
<1>5. M!InodesApart
  <2>1. \A m, n \in DOMAIN read : read[m] = read[n] => m = n
    BY <1>1, <1>4, Places
  <2>2. ASSUME NEW n \in DOMAIN read
        PROVE /\ read[n][1] \in (2 + im + zm)..(d_sb.s_firstdatazone - 1)
              /\ read[n][2] + I_SZ <= MINIX_INODES_PER_BLOCK * I_SZ
    BY <1>1, <1>4, Places
  <2>3. ASSUME NEW n \in DOMAIN read PROVE read[n][1] \notin held
    BY <1>1, <1>3, <2>2
  <2> QED BY <2>1, <2>2, <2>3 DEF M!InodesApart
<1>6. M!HeldExact
  <2>1. ASSUME mount = "mounted"
        PROVE /\ held = 1..(1 + im + zm)
              /\ Len(m_sbi.s_imap) + Len(m_sbi.s_zmap) + 1 = Cardinality(held)
    <3>1. held = 1..(1 + im + zm) /\ Len(m_sbi.s_imap) = im /\ Len(m_sbi.s_zmap) = zm
      BY <2>1 DEF MInv, BitmapsHeld
    <3>2. 1 + im + zm \in Nat
      BY <1>1
    <3>3. Cardinality(1..(1 + im + zm)) = 1 + im + zm
      BY <1>1, <3>2, FS_Interval
    <3> QED BY <1>1, <3>1, <3>3
  <2>2. mount = "unmounted" => held = {}
    BY DEF MInv
  <2>3. M!Cardinality(held) = Cardinality(held)
    BY DEF M!Cardinality, Cardinality
  <2> QED BY <2>1, <2>2, <2>3 DEF M!HeldExact
<1>7. M!TypeOK
  <2>1. M!InodeBlocks(d_sb.s_ninodes) \in Nat
    <3>1. MINIX_INODES_PER_BLOCK \in Nat /\ MINIX_INODES_PER_BLOCK >= 1
      BY MinixFsAssumption DEF M!MinixMountConstants
    <3>2. d_sb.s_ninodes + MINIX_INODES_PER_BLOCK - 1 \in Nat
      BY <1>1, <3>1
    <3> QED BY <3>1, <3>2 DEF M!InodeBlocks
  <2>2. d_sb.s_firstdatazone = 2 + im + zm + M!InodeBlocks(d_sb.s_ninodes)
    BY <1>1, SuperBlock
  <2>3. held \subseteq 0..(d_sb.s_firstdatazone - 1)
    BY <1>1, <1>3, <2>1, <2>2
  <2>4. MaxMap \in Nat
    BY MinixFsAssumption DEF M!MinixMountConstants
  <2>5. loop \in 0..MaxMap
    <3>1. CASE mount \in {"unmounted", "mounted"}
      <4>1. loop = 0
        BY <3>1 DEF MInv, BitmapsHeld
      <4> QED BY <2>4, <4>1
    <3>2. CASE mount \in {"imap", "zmap"}
      <4>1. loop <= im \/ loop <= zm
        BY <3>2 DEF MInv, BitmapsHeld
      <4>2. loop \in Nat
        BY DEF MInv
      <4> QED BY <1>1, <2>4, <4>1, <4>2
    <3> QED BY <3>1, <3>2 DEF MInv
  <2>6. mount # "unmounted" => m_sbi # NULL
    BY <1>1, InfoNotNull DEF MInv, BitmapsHeld
  <2> QED BY <2>3, <2>5, <2>6 DEF M!TypeOK, MInv
<1> QED BY <1>5, <1>6, <1>7

(***************************************************************************)
(* Walking a path.                                                         *)
(***************************************************************************)
\* A set of numbers that is not empty has a least member.
LEMMA MinOf ==
  ASSUME NEW T, T \subseteq Nat, T # {}
  PROVE P!Min(T) \in T /\ \A y \in T : P!Min(T) <= y
<1> DEFINE R == OpToRel(<, Nat)
<1>1. IsWellFoundedOn(R, Nat)
  BY NatLessThanWellFounded
<1>2. \A x, y \in Nat : <<y, x>> \in R <=> y < x
  BY DEF OpToRel
<1> HIDE DEF R
<1>3. PICK x \in T : \A y \in T : ~(<<y, x>> \in R)
  BY <1>1, WFMin
<1>4. \A y \in T : ~(y < x)
  BY <1>2, <1>3
<1>5. x \in T /\ \A y \in T : x <= y
  BY <1>4
<1> QED BY <1>5 DEF P!Min

\* Slashes, and behind them a component of the string.
Split(s, l) ==
  /\ l.offset \in Nat /\ l.len \in Nat /\ l.offset + l.len <= Len(s)
  /\ \A j \in (l.offset + 1)..(l.offset + l.len) : s[j] # Slash
  /\ \A j \in 1..l.offset : s[j] = Slash
  /\ l.offset + l.len = Len(s) \/ s[l.offset + l.len + 1] = Slash
  /\ l.len = 0 => l.offset = Len(s)

\* path_len finds the next component: it is behind slashes, has no slash, and ends
\* with the path or before a slash; it is empty only if nothing but slashes is left.
LEMMA PathLen ==
  ASSUME NEW s \in Seq(Chars), NEW l, l = P!path_len(s)
  PROVE Split(s, l)
<1>1. PICK n : n = Len(s)
  OBVIOUS
<1>2. n \in Nat
  BY <1>1
<1>3. PICK others : others = {i \in 1..n : s[i] # Slash}
  OBVIOUS
<1>4. PICK o : o = IF others = {} THEN n ELSE P!Min(others) - 1
  OBVIOUS
<1>5. PICK ends : ends = {i \in (o + 1)..n : s[i] = Slash}
  OBVIOUS
<1>6. PICK e : e = IF ends = {} THEN n ELSE P!Min(ends) - 1
  OBVIOUS
<1>7. l.offset = o /\ l.len = e - o
  <2>1. P!path_len(s) = [offset |-> o, len |-> e - o]
    BY <1>1, <1>3, <1>4, <1>5, <1>6, Zenon DEF P!path_len
  <2> QED BY <2>1
<1>8. /\ o \in Nat /\ o <= n /\ \A j \in 1..o : s[j] = Slash
      /\ o < n => s[o + 1] # Slash
  <2>1. CASE others = {}
    BY <1>2, <1>3, <1>4, <2>1
  <2>2. CASE others # {}
    <3>1. others \subseteq Nat
      BY <1>2, <1>3
    <3>2. PICK m : m = P!Min(others)
      OBVIOUS
    <3>3. m \in 1..n /\ s[m] # Slash /\ \A j \in others : m <= j
      BY <1>3, <2>2, <3>1, <3>2, MinOf
    <3>4. o = m - 1 /\ m = o + 1
      BY <1>2, <1>4, <2>2, <3>2, <3>3
    <3>5. ASSUME NEW j \in 1..o PROVE s[j] = Slash
      <4>1. j \in 1..n /\ ~(m <= j)
        BY <1>2, <3>3, <3>4
      <4> QED BY <1>3, <3>3, <4>1
    <3> QED BY <1>2, <3>3, <3>4, <3>5
  <2> QED BY <2>1, <2>2
<1>9. /\ e \in Nat /\ o <= e /\ e <= n /\ \A j \in (o + 1)..e : s[j] # Slash
      /\ e = n \/ s[e + 1] = Slash
  <2>1. CASE ends = {}
    <3>1. \A j \in (o + 1)..n : s[j] # Slash
      BY <1>5, <2>1
    <3> QED BY <1>2, <1>6, <1>8, <2>1, <3>1
  <2>2. CASE ends # {}
    <3>1. ends \subseteq Nat
      BY <1>2, <1>5, <1>8
    <3>2. PICK m : m = P!Min(ends)
      OBVIOUS
    <3>3. m \in (o + 1)..n /\ s[m] = Slash /\ \A j \in ends : m <= j
      BY <1>5, <2>2, <3>1, <3>2, MinOf
    <3>4. e = m - 1 /\ m = e + 1
      BY <1>2, <1>6, <1>8, <2>2, <3>2, <3>3
    <3>5. ASSUME NEW j \in (o + 1)..e PROVE s[j] # Slash
      <4>1. j \in (o + 1)..n /\ ~(m <= j)
        BY <1>2, <1>8, <3>3, <3>4
      <4> QED BY <1>5, <3>3, <4>1
    <3> QED BY <1>2, <1>8, <3>3, <3>4, <3>5
  <2> QED BY <2>1, <2>2
<1>10. o + (e - o) = e
  BY <1>8, <1>9
<1>11. e - o = 0 => o = n
  <2> SUFFICES ASSUME e = o, o < n PROVE FALSE
    BY <1>2, <1>8, <1>9
  <2>1. e # n /\ s[e + 1] = Slash
    BY <1>2, <1>8, <1>9
  <2> QED BY <2>1, <1>8
<1> QED BY <1>1, <1>2, <1>7, <1>8, <1>9, <1>10, <1>11 DEF Split

PInv ==
  /\ image \in Images
  /\ walk \in {"idle", "start", "split", "lookup", "done", "null_call"}
  /\ cur_dir \in {NULL} \cup DOMAIN image /\ path \in Seq(Chars)
  /\ pos \in 0..Len(path) /\ k \in Nat /\ room \in Nat /\ dir \in Nat \cup {NULL}
  /\ walk \in {"idle", "start"} => name = << >> /\ pos = 0 /\ dir = NULL
  /\ walk \in {"split", "lookup"} => dir \in Nat /\ Len(path) - pos + 4 <= room
  /\ walk = "lookup" => dir \in DOMAIN image /\ name # << >> /\ Slash \notin P!Range(name)
  /\ name # << >> => Len(name) + 1 <= room

\* The images.
LEMMA ImageFacts ==
  ASSUME NEW im \in Images
  PROVE /\ Root \in DOMAIN im /\ DOMAIN im \subseteq Nat
        /\ \A d \in DOMAIN im : im[d] \in Seq([1..DIR_PER_BLK -> [inode : Nat, name : Seq(Chars)]])
        /\ DIR_PER_BLK \in Nat /\ DIR_PER_BLK >= 1 /\ NULL \notin Nat
<1>1. P!PathWalkConstants
  BY MinixFsAssumption
<1>2. DIR_PER_BLK \in Nat \ {0} /\ NULL \notin Nat
  BY <1>1 DEF P!PathWalkConstants
<1>3. /\ Root \in DOMAIN im /\ DOMAIN im \subseteq Nat
      /\ \A d \in DOMAIN im : im[d] \in Seq([1..DIR_PER_BLK -> [inode : Nat, name : Seq(Chars)]])
  BY <1>1, Zenon DEF P!PathWalkConstants
<1>4. DIR_PER_BLK \in Nat /\ DIR_PER_BLK >= 1
  BY <1>2
<1> QED BY <1>2, <1>3, <1>4, Zenon

\* No path is walked at first.
LEMMA InitPInv == P!Init => PInv
BY DEF P!Init, PInv

\* A path is a sequence of characters.
LEMMA PathSeq == \A p \in P!AllPaths : p \in Seq(Chars)
<1> SUFFICES ASSUME NEW p \in P!AllPaths PROVE p \in Seq(Chars)
  OBVIOUS
<1>1. PICK n \in 0..MaxPath : p \in [1..n -> Chars]
  BY DEF P!AllPaths
<1>2. n \in Nat
  BY MinixFsAssumption DEF P!PathWalkConstants
<1> QED BY <1>1, <1>2

\* namei is called.
LEMMA CallStep ==
  ASSUME PInv, NEW d \in {NULL} \cup DOMAIN image, NEW p \in P!AllPaths, P!Call(d, p)
  PROVE PInv' /\ dir' = dir
<1>1. /\ walk = "idle" /\ walk' = "start" /\ cur_dir' = d /\ path' = p /\ image' = image
      /\ pos' = pos /\ dir' = dir /\ room' = room /\ name' = name /\ k' = k
  BY DEF P!Call
<1>2. p \in Seq(Chars) /\ Len(p) \in Nat
  BY PathSeq
<1> QED BY <1>1, <1>2 DEF PInv

\* namei begins at the root or at the current directory.
LEMMA StartStep ==
  ASSUME PInv, P!Start
  PROVE PInv' /\ dir' \in {NULL} \cup DOMAIN image
<1>1. PICK first, skip :
        /\ first = IF path # << >> /\ path[1] = Slash THEN Root ELSE cur_dir
        /\ skip = IF Len(path) > 1 /\ path[1] = Dot /\ path[2] = Slash THEN 2 ELSE 0
  OBVIOUS
<1>2. PICK rest : rest = SubSeq(path, skip + 1, Len(path))
  OBVIOUS
<1>3. /\ walk = "start" /\ dir' = first /\ pos' = skip
      /\ walk' = (IF first = NULL THEN "done" ELSE "split")
      /\ room' = (IF first = NULL THEN 0 ELSE Len(rest) + 4)
      /\ image' = image /\ cur_dir' = cur_dir /\ path' = path /\ name' = name /\ k' = k
  BY <1>1, <1>2, Zenon DEF P!Start, P!Room, P!strlen, P!inputs
<1>4. path \in Seq(Chars) /\ Len(path) \in Nat /\ name = << >>
  BY <1>3 DEF PInv
<1>5. skip \in Nat /\ skip <= Len(path)
  BY <1>1, <1>4
<1>6. rest \in Seq(Chars) /\ Len(rest) = Len(path) - skip
  BY <1>2, <1>4, <1>5, SubSeqProperties
<1>7. first \in {NULL} \cup DOMAIN image /\ (first # NULL => first \in Nat)
  BY <1>1, ImageFacts DEF PInv
<1>8. pos' \in 0..Len(path') /\ room' \in Nat
      /\ (walk' = "split" => Len(path') - pos' + 4 <= room')
  BY <1>3, <1>4, <1>5, <1>6
<1> QED BY <1>3, <1>4, <1>7, <1>8 DEF PInv

\* The next component of the path.
LEMMA NameStep ==
  ASSUME PInv, P!NextName
  PROVE PInv' /\ dir' \in {dir, NULL}
<1>1. PICK s, l : s = SubSeq(path, pos + 1, Len(path)) /\ l = P!path_len(s)
  OBVIOUS
<1>2. /\ walk = "split" /\ image' = image /\ cur_dir' = cur_dir /\ path' = path /\ room' = room
      /\ IF l.len = 0
         THEN walk' = "done" /\ pos' = pos /\ name' = name /\ dir' = dir /\ k' = k
         ELSE /\ name' = SubSeq(path, pos + l.offset + 1, pos + l.offset + l.len)
              /\ pos' = pos + l.offset + l.len
              /\ k' = 0
              /\ IF dir \notin DOMAIN image THEN walk' = "null_call" /\ dir' = dir
                 ELSE IF Len(name') > NAME_LEN THEN walk' = "done" /\ dir' = NULL
                 ELSE walk' = "lookup" /\ dir' = dir
  BY <1>1, Zenon DEF P!NextName, P!strlen, P!inputs
<1>3. /\ path \in Seq(Chars) /\ Len(path) \in Nat /\ pos \in Nat /\ pos <= Len(path)
      /\ room \in Nat /\ Len(path) - pos + 4 <= room /\ dir \in Nat
  BY <1>2 DEF PInv
<1>4. CASE l.len = 0
  BY <1>2, <1>4 DEF PInv
<1>5. CASE l.len # 0
  <2>1. /\ s \in Seq(Chars) /\ Len(s) = Len(path) - pos
        /\ \A i \in 1..Len(s) : s[i] = path[pos + i]
    BY <1>1, <1>3, SubSeqProperties
  <2>2. PICK o, n : o = l.offset /\ n = l.len
    OBVIOUS
  <2>3. /\ o \in Nat /\ n \in Nat /\ o + n <= Len(s)
        /\ \A j \in (o + 1)..(o + n) : s[j] # Slash
    <3>1. Split(s, l)
      BY <1>1, <2>1, PathLen
    <3> QED BY <2>2, <3>1 DEF Split
  <2>4. n >= 1 /\ pos + o + n <= Len(path)
    BY <1>3, <1>5, <2>1, <2>2, <2>3
  <2>5. /\ name' \in Seq(Chars) /\ Len(name') = n
        /\ \A i \in 1..n : name'[i] = path[pos + o + i]
    <3>1. name' = SubSeq(path, pos + o + 1, pos + o + n)
      BY <1>2, <1>5, <2>2
    <3>2. PICK a, b : a = pos + o + 1 /\ b = pos + o + n
      OBVIOUS
    <3>3. a \in 1..(Len(path) + 1) /\ b \in (a - 1)..Len(path) /\ b - a + 1 = n
      BY <1>3, <2>3, <2>4, <3>2
    <3>4. /\ SubSeq(path, a, b) \in Seq(Chars) /\ Len(SubSeq(path, a, b)) = b - a + 1
          /\ \A i \in 1..(b - a + 1) : SubSeq(path, a, b)[i] = path[a + i - 1]
      BY <1>3, <3>3, SubSeqProperties
    <3>5. \A i \in 1..n : a + i - 1 = pos + o + i
      BY <1>3, <2>3, <3>2
    <3> QED BY <3>1, <3>2, <3>3, <3>4, <3>5
  <2>6. name' # << >> /\ Len(name') + 1 <= room /\ pos' \in 0..Len(path)
        /\ Len(path) - pos' + 4 <= room
    <3>1. pos' = pos + o + n
      BY <1>2, <1>5, <2>2
    <3>2. name' # << >>
      BY <2>4, <2>5
    <3>3. Len(name') + 1 <= room
      BY <1>3, <2>3, <2>4, <2>5
    <3>4. pos + o + n \in 0..Len(path) /\ Len(path) - (pos + o + n) + 4 <= room
      BY <1>3, <2>3, <2>4
    <3> QED BY <3>1, <3>2, <3>3, <3>4
  <2>7. Slash \notin P!Range(name')
    <3>1. ASSUME NEW i \in 1..n PROVE name'[i] # Slash
      <4>1. o + i \in (o + 1)..(o + n) /\ o + i \in 1..Len(s)
        BY <2>3
      <4>2. s[o + i] # Slash /\ s[o + i] = path[pos + (o + i)]
        BY <2>1, <2>3, <4>1
      <4>3. pos + (o + i) = pos + o + i
        BY <1>3, <2>3
      <4> QED BY <2>5, <4>2, <4>3
    <3>2. DOMAIN name' = 1..n
      BY <2>5
    <3> QED BY <3>1, <3>2 DEF P!Range
  <2>8. /\ walk' \in {"null_call", "done", "lookup"} /\ dir' \in {dir, NULL} /\ k' = 0
        /\ walk' = "lookup" => dir \in DOMAIN image /\ dir' = dir
    BY <1>2, <1>5
  <2>9. dir' \in Nat \cup {NULL} /\ 0 \in Nat
    BY <1>3, <2>8
  <2> QED BY <1>2, <1>3, <2>6, <2>7, <2>8, <2>9 DEF PInv
<1> QED BY <1>4, <1>5

\* One entry of a directory.
LEMMA LookupStep ==
  ASSUME PInv, P!minix_lookup
  PROVE /\ PInv'
        /\ walk' \in {"split", "done", "lookup"} /\ walk = "lookup"
        /\ walk' = "split" => dir' \in Nat
        /\ walk' = "lookup" => dir' = dir
        /\ walk' = "done" => dir' = NULL
<1>1. PICK blocks, b, e : /\ blocks = image[dir] /\ b = (k \div DIR_PER_BLK) + 1
                          /\ e = (k % DIR_PER_BLK) + 1
  OBVIOUS
<1>2. /\ walk = "lookup" /\ image' = image /\ cur_dir' = cur_dir /\ path' = path
      /\ pos' = pos /\ room' = room /\ name' = name
  BY DEF P!minix_lookup, P!inputs
<1>3. \/ P!Found(0)
      \/ ~(b > Len(blocks)) /\ P!Found(blocks[b][e].inode)
      \/ k' = k + 1 /\ dir' = dir /\ walk' = walk
  BY <1>1, Zenon DEF P!minix_lookup
<1>4. dir \in DOMAIN image /\ image \in Images /\ k \in Nat /\ dir \in Nat
  BY <1>2 DEF PInv
<1>5. ~(b > Len(blocks)) => blocks[b][e].inode \in Nat
  <2> SUFFICES ASSUME ~(b > Len(blocks)) PROVE blocks[b][e].inode \in Nat
    OBVIOUS
  <2>1. DIR_PER_BLK \in Nat /\ DIR_PER_BLK >= 1
        /\ blocks \in Seq([1..DIR_PER_BLK -> [inode : Nat, name : Seq(Chars)]])
    BY <1>1, <1>4, ImageFacts
  <2>2. k \div DIR_PER_BLK \in Nat
    BY <1>4, <2>1
  <2>3. k % DIR_PER_BLK \in 0..(DIR_PER_BLK - 1)
    BY <1>4, <2>1
  <2>4. e \in 1..DIR_PER_BLK
    BY <1>1, <2>1, <2>3
  <2>5. b \in 1..Len(blocks)
    <3>1. PICK j, l : j = k \div DIR_PER_BLK /\ l = Len(blocks)
      OBVIOUS
    <3>2. j \in Nat /\ b = j + 1
      BY <1>1, <2>2, <3>1, Zenon
    <3>3. l \in Nat /\ ~(b > l)
      BY <2>1, <3>1
    <3>4. b \in 1..l
      BY <3>2, <3>3
    <3> QED BY <3>1, <3>4, Zenon
  <2>6. blocks[b] \in [1..DIR_PER_BLK -> [inode : Nat, name : Seq(Chars)]]
    BY <2>1, <2>5
  <2> QED BY <2>4, <2>6
<1>6. ASSUME NEW i \in Nat, P!Found(i)
      PROVE /\ dir' \in Nat \cup {NULL} /\ walk' \in {"split", "done"} /\ k' = k
            /\ walk' = "split" => dir' \in Nat
            /\ walk' = "done" => dir' = NULL
  BY <1>6 DEF P!Found
<1>7. \/ /\ dir' \in Nat \cup {NULL} /\ walk' \in {"split", "done"} /\ k' = k
         /\ walk' = "split" => dir' \in Nat
         /\ walk' = "done" => dir' = NULL
      \/ k' = k + 1 /\ dir' = dir /\ walk' = walk
  BY <1>3, <1>5, <1>6
<1>8. CASE k' = k + 1 /\ dir' = dir /\ walk' = walk
  BY <1>2, <1>4, <1>8 DEF PInv
<1>9. CASE /\ dir' \in Nat \cup {NULL} /\ walk' \in {"split", "done"} /\ k' = k
           /\ walk' = "split" => dir' \in Nat
           /\ walk' = "done" => dir' = NULL
  BY <1>2, <1>4, <1>9 DEF PInv
<1> QED BY <1>7, <1>8, <1>9

\* namei returns.
LEMMA ReturnStep ==
  ASSUME PInv, P!Return
  PROVE PInv' /\ dir' = NULL /\ walk' = "idle" /\ walk = "done"
BY DEF PInv, P!Return

(***************************************************************************)
(* Reading and writing.  The calls stay within direct zones, whether the   *)
(* file has them or not, or begin where no file can reach: behind the      *)
(* direct zones inode_get_blk does not find the blocks of a Minix file.    *)
(***************************************************************************)
Fresh == {"written"} \X Nat \X Nat
CallRecord(f, o, p, n, b) == [file |-> f, op |-> o, pos |-> p, left |-> n, buf |-> b]
CallOK(c) ==
  /\ c = CallRecord(c.file, c.op, c.pos, c.left, c.buf)
  /\ c.file \in Files /\ c.op \in {"read", "write"} /\ c.pos \in Nat /\ c.left \in Nat
  /\ c.op = "write" => c.buf \in Seq(Fresh) /\ Len(c.buf) = c.left
  /\ F!Within(c.file, c.pos, c.left)
  /\ \A p \in c.pos..(c.pos + c.left - 1) : p < F!Capacity => p \in F!Positions(c.file)

IsBlock(u) == u = [i \in 1..BLOCK_SZ |-> u[i]]

FInv ==
  /\ DOMAIN disk = F!Blocks /\ \A b \in F!Blocks : DOMAIN disk[b] = DOMAIN Flash[b]
  /\ \A f \in Files, z \in 1..ND : IsBlock(disk[i_zone[f][z]])
  /\ calls \in 0..MaxCalls
  /\ call = NULL \/ CallOK(call)

\* The constants of files and blocks.
LEMMA FileFacts ==
  /\ BLOCK_SZ \in Nat /\ BLOCK_SZ >= 1 /\ ND \in Nat /\ ND >= 1 /\ PER \in Nat /\ PER >= 1
  /\ MaxCalls \in Nat /\ F!Blocks \subseteq Nat
  /\ \A f \in Files, z \in 1..ND : i_zone[f][z] \in F!Blocks
  /\ \A f \in Files, z \in 1..ND : IsBlock(Flash[i_zone[f][z]])
  /\ \A f \in Files, z \in 1..ND : DOMAIN Flash[i_zone[f][z]] = 1..BLOCK_SZ
  /\ Extents \subseteq [file : Files, pos : Nat, count : Nat]
<1>1. F!MinixFileConstants
  BY MinixFsAssumption
<1>2. BLOCK_SZ \in Nat \ {0} /\ ND \in Nat \ {0} /\ PER \in Nat \ {0}
      /\ MaxCalls \in Nat /\ F!Blocks \subseteq Nat
      /\ Extents \subseteq [file : Files, pos : Nat, count : Nat]
  BY <1>1 DEF F!MinixFileConstants
<1>3. /\ \A f \in Files, z \in 1..(ND + 2) : i_zone[f][z] \in F!Blocks
      /\ \A f \in Files, z \in 1..ND : IsBlock(Flash[i_zone[f][z]])
  BY <1>1, Zenon DEF F!MinixFileConstants, IsBlock
<1>4. \A z \in 1..ND : z \in 1..(ND + 2)
  BY <1>2
<1>5. \A u : IsBlock(u) => DOMAIN u = 1..BLOCK_SZ
  BY DEF IsBlock
<1> QED BY <1>2, <1>3, <1>4, <1>5

\* A position and its block.
LEMMA BlockOf ==
  ASSUME NEW p \in Nat
  PROVE \E q, r \in Nat : q = p \div BLOCK_SZ /\ r = p % BLOCK_SZ /\ r < BLOCK_SZ
                          /\ p = BLOCK_SZ * q + r
<1>1. BLOCK_SZ \in Nat /\ BLOCK_SZ >= 1
  BY FileFacts
<1>2. PICK q, r : q = p \div BLOCK_SZ /\ r = p % BLOCK_SZ
  OBVIOUS
<1>3. q \in Nat
  BY <1>1, <1>2
<1>4. r \in Nat /\ r < BLOCK_SZ
  BY <1>1, <1>2
<1>5. p = BLOCK_SZ * q + r
  BY <1>1, <1>2
<1> QED BY <1>2, <1>3, <1>4, <1>5

\* The block of a position that is given by its block and its place in it.
LEMMA InBlock ==
  ASSUME NEW q \in Nat, NEW r \in Nat, r < BLOCK_SZ, NEW p, p = BLOCK_SZ * q + r
  PROVE p \div BLOCK_SZ = q /\ p % BLOCK_SZ = r
<1>1. BLOCK_SZ \in Nat /\ BLOCK_SZ >= 1
  BY FileFacts
<1>2. p \in Nat
  BY <1>1
<1>3. p \div BLOCK_SZ = q
  BY <1>1, <1>2
<1>4. p % BLOCK_SZ = r
  BY <1>1, <1>2
<1> QED BY <1>3, <1>4

\* No call is made at first.
LEMMA InitFInv == F!Init => FInv
<1> SUFFICES ASSUME F!Init PROVE FInv
  OBVIOUS
<1>1. disk = Flash /\ call = NULL /\ calls = 0
  BY DEF F!Init
<1> QED BY <1>1, FileFacts DEF FInv, F!Blocks

\* The largest file.
LEMMA CapacityFacts ==
  /\ F!Capacity \in Nat
  /\ \A f, p : p \in Nat /\ F!Direct(f, p) => p < F!Capacity
  /\ \A f, p : p \in Nat /\ p >= F!Capacity => F!inode_get_blk(f, p \div BLOCK_SZ) = {}
<1>1. BLOCK_SZ \in Nat /\ BLOCK_SZ >= 1 /\ ND \in Nat /\ ND >= 1 /\ PER \in Nat /\ PER >= 1
  BY FileFacts
<1>2. PICK n : n = ND + PER + PER * PER
  OBVIOUS
<1>3. n \in Nat /\ n >= ND /\ n >= ND + PER
  BY <1>1, <1>2
<1>4. F!Capacity = BLOCK_SZ * n
  BY <1>2 DEF F!Capacity
<1>5. ASSUME NEW f, NEW p \in Nat, F!Direct(f, p) PROVE p < BLOCK_SZ * n
  <2>1. PICK q, r \in Nat : q = p \div BLOCK_SZ /\ r < BLOCK_SZ /\ p = BLOCK_SZ * q + r
    BY BlockOf
  <2>2. q + 1 <= n
    BY <1>1, <1>3, <1>5, <2>1 DEF F!Direct
  <2>3. BLOCK_SZ * (q + 1) <= BLOCK_SZ * n
    BY <1>1, <1>3, <2>2
  <2>4. BLOCK_SZ * (q + 1) = BLOCK_SZ * q + BLOCK_SZ
    BY <1>1
  <2>5. PICK x, y : x = BLOCK_SZ * q /\ y = BLOCK_SZ * n
    OBVIOUS
  <2>6. x \in Int /\ y \in Int
    BY <1>1, <1>3, <2>5
  <2>7. x + r < y
    BY <1>1, <2>1, <2>3, <2>4, <2>5, <2>6
  <2> QED BY <2>1, <2>5, <2>7
<1>6. ASSUME NEW f, NEW p \in Nat, p >= BLOCK_SZ * n
      PROVE F!inode_get_blk(f, p \div BLOCK_SZ) = {}
  <2>1. PICK q, r \in Nat : q = p \div BLOCK_SZ /\ r < BLOCK_SZ /\ p = BLOCK_SZ * q + r
    BY BlockOf
  <2>2. q >= n
    <3>1. SUFFICES ASSUME q + 1 <= n PROVE FALSE
      BY <1>3
    <3>2. BLOCK_SZ * (q + 1) <= BLOCK_SZ * n
      BY <1>1, <1>3, <3>1
    <3>3. BLOCK_SZ * (q + 1) = BLOCK_SZ * q + BLOCK_SZ
      BY <1>1
    <3>4. PICK x, y : x = BLOCK_SZ * q /\ y = BLOCK_SZ * n
      OBVIOUS
    <3>5. x \in Int /\ y \in Int
      BY <1>1, <1>3, <3>4
    <3> QED BY <1>1, <1>6, <2>1, <3>2, <3>3, <3>4, <3>5
  <2>3. ~(q < ND) /\ ~(q < ND + PER) /\ ~(q < n)
    BY <1>1, <1>3, <2>2
  <2> QED BY <1>2, <2>1, <2>3 DEF F!inode_get_blk
<1>7. F!Capacity \in Nat
  BY <1>1, <1>3, <1>4
<1> QED BY <1>4, <1>5, <1>6, <1>7

\* The block of a position in a direct zone.
LEMMA DirectBlock ==
  ASSUME NEW f \in Files, NEW p \in Nat, F!Direct(f, p), NEW b,
         b = i_zone[f][(p \div BLOCK_SZ) + 1]
  PROVE /\ F!inode_get_blk(f, p \div BLOCK_SZ) = {b} /\ (p \div BLOCK_SZ) + 1 \in 1..ND
        /\ b \in F!Blocks /\ b # F!Beyond /\ DOMAIN Flash[b] = 1..BLOCK_SZ
<1>1. PICK q \in Nat : q = p \div BLOCK_SZ
  BY BlockOf
<1>2. q < ND /\ b = i_zone[f][q + 1]
  BY <1>1 DEF F!Direct
<1>3. q + 1 \in 1..ND
  BY <1>2, FileFacts
<1>4. b \in F!Blocks /\ DOMAIN Flash[b] = 1..BLOCK_SZ
  BY <1>2, <1>3, FileFacts
<1>5. F!inode_get_blk(f, q) = {b}
  BY <1>2 DEF F!inode_get_blk
<1>6. b # F!Beyond
  BY <1>4, FileFacts DEF F!Beyond
<1> QED BY <1>1, <1>2, <1>3, <1>4, <1>5, <1>6

\* The fields of a call.
LEMMA CallFields ==
  ASSUME NEW f, NEW o, NEW p, NEW n, NEW b, NEW c, c = CallRecord(f, o, p, n, b)
  PROVE /\ c.file = f /\ c.op = o /\ c.pos = p /\ c.left = n /\ c.buf = b
        /\ c = CallRecord(c.file, c.op, c.pos, c.left, c.buf)
BY DEF CallRecord

\* A call after one round.
LEMMA Advanced ==
  ASSUME NEW c, CallOK(c), NEW n \in Nat, NEW b
  PROVE [[c EXCEPT !.pos = @ + n, !.left = @ - n] EXCEPT !.buf = b]
          = CallRecord(c.file, c.op, c.pos + n, c.left - n, b)
<1>1. c = [file |-> c.file, op |-> c.op, pos |-> c.pos, left |-> c.left, buf |-> c.buf]
  BY Zenon DEF CallOK, CallRecord
<1>2. PICK f, o, p, l, u : c.file = f /\ c.op = o /\ c.pos = p /\ c.left = l /\ c.buf = u
  OBVIOUS
<1>3. c = [file |-> f, op |-> o, pos |-> p, left |-> l, buf |-> u]
  BY <1>1, <1>2, Zenon
<1>4. PICK p2, l2 : p2 = p + n /\ l2 = l - n
  OBVIOUS
<1>5. PICK d : d = [c EXCEPT !.pos = @ + n, !.left = @ - n]
  OBVIOUS
<1>6. d = [[c EXCEPT !.pos = p2] EXCEPT !.left = l2]
  <2>1. [c EXCEPT !.pos = @ + n].left = l
    BY <1>2, <1>3
  <2> QED BY <1>2, <1>4, <1>5, <2>1
<1>7. d = [file |-> f, op |-> o, pos |-> p2, left |-> l2, buf |-> u]
  <2>1. [c EXCEPT !.pos = p2] = [file |-> f, op |-> o, pos |-> p2, left |-> l, buf |-> u]
    BY <1>3
  <2> QED BY <1>6, <2>1
<1>8. [d EXCEPT !.buf = b] = [file |-> f, op |-> o, pos |-> p2, left |-> l2, buf |-> b]
  BY <1>7, SMT
<1> QED BY <1>2, <1>4, <1>5, <1>8, Zenon DEF CallRecord

\* What one round moves: at least one byte, and none behind the block.
LEMMA Moved ==
  ASSUME NEW p \in Nat, NEW l \in Nat, l > 0
  PROVE \E nr, n \in Nat : /\ nr = p % BLOCK_SZ /\ n = F!chars(nr, l)
                           /\ n >= 1 /\ n <= l /\ nr + n <= BLOCK_SZ
<1>1. BLOCK_SZ \in Nat /\ BLOCK_SZ >= 1
  BY FileFacts
<1>2. PICK nr \in Nat : nr = p % BLOCK_SZ /\ nr < BLOCK_SZ
  BY BlockOf
<1>3. PICK n : n = F!chars(nr, l)
  OBVIOUS
<1>4. n \in Nat /\ n >= 1 /\ n <= l /\ nr + n <= BLOCK_SZ
  BY <1>1, <1>2, <1>3 DEF F!chars
<1> QED BY <1>2, <1>3, <1>4

\* A call begins.
LEMMA BeginStep ==
  ASSUME FInv, F!DirectCalls, NEW x \in Extents, NEW op \in {"read", "write"}, F!Begin(x, op)
  PROVE FInv' /\ disk' = disk /\ call = NULL /\ CallOK(call') /\ call'.file = x.file
        /\ (op = "read" => call'.buf = << >>) /\ call'.op = op
<1>1. PICK u : u = IF op = "read" THEN << >> ELSE F!Written(calls', x.count)
  OBVIOUS
<1>2. /\ call = NULL /\ calls < MaxCalls /\ calls' = calls + 1 /\ disk' = disk
      /\ call' = CallRecord(x.file, op, x.pos, x.count, u)
  BY <1>1 DEF F!Begin, CallRecord
<1>3. x.file \in Files /\ x.pos \in Nat /\ x.count \in Nat
  BY FileFacts
<1>4. calls \in Nat /\ calls' \in 0..MaxCalls /\ calls' \in Nat
  BY <1>2, FileFacts DEF FInv
<1>5. op = "write" => u \in Seq(Fresh) /\ Len(u) = x.count
  <2> SUFFICES ASSUME op = "write" PROVE u \in Seq(Fresh) /\ Len(u) = x.count
    OBVIOUS
  <2>1. u = [i \in 1..x.count |-> <<"written", calls', i>>]
    BY <1>1 DEF F!Written
  <2>2. \A i \in 1..x.count : <<"written", calls', i>> \in Fresh
    BY <1>3, <1>4 DEF Fresh
  <2>3. u \in [1..x.count -> Fresh]
    BY <2>1, <2>2, Zenon
  <2> QED BY <1>3, <2>3
<1>6. /\ call'.file = x.file /\ call'.op = op /\ call'.pos = x.pos /\ call'.left = x.count
      /\ call'.buf = u
      /\ call' = CallRecord(call'.file, call'.op, call'.pos, call'.left, call'.buf)
  <2>1. PICK c, f, n, p : c = call' /\ f = x.file /\ p = x.pos /\ n = x.count
    OBVIOUS
  <2>2. c = CallRecord(f, op, p, n, u)
    BY <1>2, <2>1, Zenon
  <2>3. /\ c.file = f /\ c.op = op /\ c.pos = p /\ c.left = n /\ c.buf = u
        /\ c = CallRecord(c.file, c.op, c.pos, c.left, c.buf)
    BY <2>2, CallFields
  <2> QED BY <2>1, <2>3, Zenon
<1>7. F!Within(x.file, x.pos, x.count)
  BY DEF F!DirectCalls
<1>8. \A p \in x.pos..(x.pos + x.count - 1) : p < F!Capacity => p \in F!Positions(x.file)
  <2> SUFFICES ASSUME NEW p \in x.pos..(x.pos + x.count - 1), p < F!Capacity
               PROVE p \in F!Positions(x.file)
    OBVIOUS
  <2>1. p \in 0..(F!Capacity - 1)
    BY <1>3, CapacityFacts
  <2>2. x \in {y \in Extents : y.file = x.file}
    OBVIOUS
  <2>3. p \in UNION {y.pos..(y.pos + y.count - 1) : y \in {z \in Extents : z.file = x.file}}
    BY <2>2, Zenon
  <2> QED BY <2>1, <2>3, Zenon DEF F!Positions
<1>9. CallOK(call')
  BY <1>3, <1>5, <1>6, <1>7, <1>8, Zenon DEF CallOK
<1>10. FInv'
  BY <1>2, <1>4, <1>9, Zenon DEF FInv
<1>11. op = "read" => u = << >>
  BY <1>1
<1> QED BY <1>2, <1>6, <1>9, <1>10, <1>11, Zenon

\* One round of minix_read or minix_write moves the next bytes of the call
\* between the caller's buffer and a block of the file.
LEMMA LoopStep ==
  ASSUME FInv, F!Loop
  PROVE /\ call # NULL /\ CallOK(call) /\ FInv'
        /\ \E nr, n \in Nat, b \in F!Blocks :
             /\ nr = call.pos % BLOCK_SZ /\ n >= 1 /\ n <= call.left /\ nr + n <= BLOCK_SZ
             /\ F!Direct(call.file, call.pos)
             /\ b = i_zone[call.file][(call.pos \div BLOCK_SZ) + 1]
             /\ call' = CallRecord(call.file, call.op, call.pos + n, call.left - n,
                          IF call.op = "read" THEN call.buf \o SubSeq(disk[b], nr + 1, nr + n)
                          ELSE SubSeq(call.buf, n + 1, Len(call.buf)))
             /\ disk' = IF call.op = "read" THEN disk
                        ELSE [disk EXCEPT ![b] = [i \in DOMAIN disk[b] |->
                          IF i \in (nr + 1)..(nr + n) THEN call.buf[i - nr] ELSE disk[b][i]]]
<1>1. call # NULL /\ call.left > 0 /\ CallOK(call) /\ calls' = calls
  BY DEF F!Loop, FInv
<1>2. PICK f, o, p, l, u :
        call.file = f /\ call.op = o /\ call.pos = p /\ call.left = l /\ call.buf = u
  OBVIOUS
<1>3. /\ f \in Files /\ o \in {"read", "write"} /\ p \in Nat /\ l \in Nat /\ l > 0
      /\ o = "write" => u \in Seq(Fresh) /\ Len(u) = l
      /\ F!Within(f, p, l)
      /\ \A q \in p..(p + l - 1) : q < F!Capacity => q \in F!Positions(f)
  BY <1>1, <1>2, Zenon DEF CallOK
<1>4. PICK b \in F!inode_get_blk(f, p \div BLOCK_SZ) :
        IF b # F!Beyond THEN F!Round(b)
        ELSE call' = [call EXCEPT !.op = "wild", !.left = 0] /\ UNCHANGED disk
  BY <1>2, Zenon DEF F!Loop
<1>5. ~(p >= F!Capacity)
  BY <1>3, <1>4, CapacityFacts
<1>6. F!Direct(f, p)
  <2>1. p \in p..(p + l - 1)
    BY <1>3
  <2> QED BY <1>3, <1>5, <2>1 DEF F!Within
<1>7. PICK z : z = i_zone[f][(p \div BLOCK_SZ) + 1]
  OBVIOUS
<1>8. /\ F!inode_get_blk(f, p \div BLOCK_SZ) = {z} /\ z \in F!Blocks
      /\ z # F!Beyond /\ DOMAIN Flash[z] = 1..BLOCK_SZ
  BY <1>3, <1>6, <1>7, DirectBlock
<1>9. b = z /\ F!Round(z)
  BY <1>4, <1>8
<1>10. PICK nr, n \in Nat : /\ nr = p % BLOCK_SZ /\ n = F!chars(nr, l)
                            /\ n >= 1 /\ n <= l /\ nr + n <= BLOCK_SZ
  BY <1>3, Moved
<1>11. PICK v : v = IF o = "read" THEN u \o SubSeq(disk[z], nr + 1, nr + n)
                    ELSE SubSeq(u, n + 1, Len(u))
  OBVIOUS
<1>12. call' = [[call EXCEPT !.pos = @ + n, !.left = @ - n] EXCEPT !.buf = v]
  <2>1. CASE o = "read"
    BY <1>2, <1>9, <1>10, <1>11, <2>1 DEF F!Round
  <2>2. CASE o # "read"
    BY <1>2, <1>9, <1>10, <1>11, <2>2 DEF F!Round
  <2> QED BY <2>1, <2>2
<1>13. disk' = IF o = "read" THEN disk
               ELSE [disk EXCEPT ![z] = [i \in DOMAIN disk[z] |->
                          IF i \in (nr + 1)..(nr + n) THEN u[i - nr] ELSE disk[z][i]]]
  <2>1. CASE o = "read"
    BY <1>2, <1>9, <1>10, <2>1 DEF F!Round
  <2>2. CASE o # "read"
    BY <1>2, <1>9, <1>10, <2>2 DEF F!Round
  <2> QED BY <2>1, <2>2
<1>14. call' = CallRecord(f, o, p + n, l - n, v)
  <2>1. PICK c : c = call
    OBVIOUS
  <2>2. CallOK(c)
    BY <1>1, <2>1, Zenon
  <2>3. [[c EXCEPT !.pos = @ + n, !.left = @ - n] EXCEPT !.buf = v]
          = CallRecord(c.file, c.op, c.pos + n, c.left - n, v)
    <3>1. n \in Nat
      BY <1>10, Zenon
    <3> QED BY <2>2, <3>1, Advanced
  <2> QED BY <1>2, <1>12, <2>1, <2>3, Zenon
<1>15. CallOK(call')
  <2>1. PICK c, p2, l2 : c = call' /\ p2 = p + n /\ l2 = l - n
    OBVIOUS
  <2>2. c = CallRecord(f, o, p2, l2, v)
    BY <1>14, <2>1, Zenon
  <2>3. /\ c.file = f /\ c.op = o /\ c.pos = p2 /\ c.left = l2 /\ c.buf = v
        /\ c = CallRecord(c.file, c.op, c.pos, c.left, c.buf)
    BY <2>2, CallFields
  <2>4. p2 \in Nat /\ l2 \in Nat /\ p2 + l2 = p + l /\ p2 >= p
    <3>1. p \in Nat /\ l \in Nat /\ n \in Nat /\ n <= l
      BY <1>3, <1>10, Zenon
    <3>2. p2 = p + n /\ l2 = l - n
      BY <2>1, Zenon
    <3> QED BY <3>1, <3>2
  <2>5. o = "write" => v \in Seq(Fresh) /\ Len(v) = l2
    <3> SUFFICES ASSUME o = "write" PROVE v \in Seq(Fresh) /\ Len(v) = l2
      OBVIOUS
    <3>1. v = SubSeq(u, n + 1, Len(u)) /\ u \in Seq(Fresh) /\ Len(u) = l
      BY <1>3, <1>11
    <3> QED BY <1>3, <1>10, <2>1, <3>1, SubSeqProperties
  <2>6. \A q \in p2..(p2 + l2 - 1) : q \in p..(p + l - 1)
    BY <1>3, <2>4
  <2>7. F!Within(f, p2, l2)
    BY <1>3, <1>5, <2>6 DEF F!Within
  <2>8. \A q \in p2..(p2 + l2 - 1) : q < F!Capacity => q \in F!Positions(f)
    BY <1>3, <2>6, Zenon
  <2>9. CallOK(c)
    BY <1>3, <2>3, <2>4, <2>5, <2>7, <2>8, Zenon DEF CallOK
  <2> QED BY <2>1, <2>9, Zenon
<1>16. DOMAIN disk' = F!Blocks /\ \A y \in F!Blocks : DOMAIN disk'[y] = DOMAIN Flash[y]
  BY <1>13 DEF FInv
<1>17. FInv'
  <2>1. \A g \in Files, y \in 1..ND : IsBlock(disk'[i_zone[g][y]])
    <3> SUFFICES ASSUME NEW g \in Files, NEW y \in 1..ND PROVE IsBlock(disk'[i_zone[g][y]])
      OBVIOUS
    <3>1. PICK e : e = i_zone[g][y]
      OBVIOUS
    <3>2. IsBlock(disk[e]) /\ e \in F!Blocks
      BY <3>1, FileFacts DEF FInv
    <3>3. PICK w : w = [i \in DOMAIN disk[z] |->
                          IF i \in (nr + 1)..(nr + n) THEN u[i - nr] ELSE disk[z][i]]
      OBVIOUS
    <3>4. IsBlock(w)
      BY <1>8, <3>3 DEF FInv, IsBlock
    <3>5. disk'[e] \in {w, disk[e]}
      BY <1>8, <1>13, <3>2, <3>3 DEF FInv
    <3> QED BY <3>1, <3>2, <3>4, <3>5
  <2> QED BY <1>1, <1>15, <1>16, <2>1 DEF FInv
<1>18. /\ nr = p % BLOCK_SZ /\ n >= 1 /\ n <= l /\ nr + n <= BLOCK_SZ
       /\ F!Direct(f, p) /\ z = i_zone[f][(p \div BLOCK_SZ) + 1]
       /\ call' = CallRecord(f, o, p + n, l - n,
                    IF o = "read" THEN u \o SubSeq(disk[z], nr + 1, nr + n)
                    ELSE SubSeq(u, n + 1, Len(u)))
       /\ disk' = IF o = "read" THEN disk
                  ELSE [disk EXCEPT ![z] = [i \in DOMAIN disk[z] |->
                    IF i \in (nr + 1)..(nr + n) THEN u[i - nr] ELSE disk[z][i]]]
  BY <1>6, <1>7, <1>8, <1>10, <1>11, <1>13, <1>14, Zenon
<1>19. /\ nr = call.pos % BLOCK_SZ /\ n >= 1 /\ n <= call.left /\ nr + n <= BLOCK_SZ
       /\ F!Direct(call.file, call.pos)
       /\ z = i_zone[call.file][(call.pos \div BLOCK_SZ) + 1]
  BY <1>2, <1>18, Zenon
<1>20. call' = CallRecord(call.file, call.op, call.pos + n, call.left - n,
                 IF call.op = "read" THEN call.buf \o SubSeq(disk[z], nr + 1, nr + n)
                 ELSE SubSeq(call.buf, n + 1, Len(call.buf)))
  BY <1>2, <1>18, Zenon
<1>21. disk' = IF call.op = "read" THEN disk
               ELSE [disk EXCEPT ![z] = [i \in DOMAIN disk[z] |->
                 IF i \in (nr + 1)..(nr + n) THEN call.buf[i - nr] ELSE disk[z][i]]]
  BY <1>2, <1>18, Zenon
<1>22. nr \in Nat /\ n \in Nat /\ z \in F!Blocks
  BY <1>8, <1>10, Zenon
<1> QED BY <1>1, <1>17, <1>19, <1>20, <1>21, <1>22, Zenon

\* Only a block of the file changes, or the boot sector in place of a zone the
\* file does not have.
LEMMA LoopOwn ==
  ASSUME FInv, F!Loop, NEW x \in F!Blocks, disk'[x] # disk[x]
  PROVE IF F!Missing(call.file, call.pos) THEN x = 0
        ELSE x # 0 /\ x \in {i_zone[call.file][z] : z \in 1..ND}
<1>1. call # NULL /\ CallOK(call)
  BY LoopStep
<1>2. PICK b, u : /\ F!Direct(call.file, call.pos)
                  /\ b = i_zone[call.file][(call.pos \div BLOCK_SZ) + 1]
                  /\ disk' = IF call.op = "read" THEN disk ELSE [disk EXCEPT ![b] = u]
  BY LoopStep, Zenon
<1>3. x = b
  BY <1>2 DEF FInv
<1>4. call.file \in Files /\ call.pos \in Nat
  BY <1>1 DEF CallOK
<1>5. (call.pos \div BLOCK_SZ) + 1 \in 1..ND
  BY <1>2, <1>4, DirectBlock
<1>6. F!Missing(call.file, call.pos) <=> x = 0
  BY <1>2, <1>3, Zenon DEF F!Missing, F!Direct
<1>7. x \in {i_zone[call.file][z] : z \in 1..ND}
  BY <1>2, <1>3, <1>5, Zenon
<1> QED BY <1>6, <1>7, Zenon

\* A call returns.
LEMMA FileReturn == FInv /\ F!Return => FInv' /\ disk' = disk
BY DEF FInv, F!Return

\* The parts of the state that a step leaves alone.
LEMMA Unchanged ==
  /\ MInv /\ UNCHANGED mvars => MInv'
  /\ PInv /\ UNCHANGED pvars => PInv'
  /\ FInv /\ UNCHANGED fvars => FInv'
<1>1. MInv /\ UNCHANGED mvars => MInv'
  BY DEF MInv, BitmapsHeld, mvars
<1>2. PInv /\ UNCHANGED pvars => PInv'
  BY DEF PInv, pvars
<1>3. FInv /\ UNCHANGED fvars => FInv'
  BY DEF FInv, fvars
<1> QED BY <1>1, <1>2, <1>3

(***************************************************************************)
(* The parts together: while a path is walked or a file is open the image  *)
(* is mounted, and a file that was reached has had its inode fetched.      *)
(***************************************************************************)
Together ==
  /\ walk # "idle" \/ file # NULL => mount = "mounted" /\ d_sb = Populated
  /\ dir \in Files => dir \in DOMAIN read
  /\ file = NULL \/ file \in Files \cap DOMAIN read

Inv == MInv /\ PInv /\ Together

\* Files and directories have different numbers, none of them NULL or 0.
LEMMA Numbers ==
  /\ NULL \notin Nat /\ Files \subseteq Nat \ {0}
  /\ \A n \in Files : n <= Populated.s_ninodes
  /\ \A im \in Images : \A n \in DOMAIN im : n \notin Files
<1>1. NULL \notin Nat
  BY MinixFsAssumption DEF P!PathWalkConstants
<1>2. Files \subseteq 1..Populated.s_ninodes /\ Populated.s_ninodes \in Nat
  BY MinixFsAssumption, SuperBlock
<1>3. \A im \in Images : Files \cap DOMAIN im = {}
  BY MinixFsAssumption
<1> QED BY <1>1, <1>2, <1>3

\* Init.
LEMMA InitInv == Init => Inv /\ FInv
<1> SUFFICES ASSUME Init PROVE Inv /\ FInv
  OBVIOUS
<1>1. M!Init /\ P!Init /\ F!Init /\ file = NULL
  BY DEF Init
<1>2. MInv /\ PInv /\ FInv
  BY <1>1, InitMInv, InitPInv, InitFInv
<1>3. walk = "idle" /\ dir = NULL
  BY <1>1 DEF P!Init
<1>4. Together
  BY <1>1, <1>3, Numbers DEF Together
<1> QED BY <1>2, <1>4 DEF Inv

\* Mounting, and reading inodes where no path is walked.
LEMMA MountStep ==
  ASSUME Inv, Mount \/ \E ino \in 0..(MaxInodes + 1) : RawInode(ino)
  PROVE Inv'
<1>1. walk = "idle" /\ file = NULL /\ UNCHANGED <<pvars, fvars, file>>
  BY DEF Mount, RawInode, Idle
<1>2. PInv' /\ walk' = "idle" /\ file' = NULL /\ dir' = NULL /\ NULL \notin Files
  <2>1. PInv' /\ walk' = walk /\ dir' = dir /\ file' = file
    BY <1>1, Unchanged DEF Inv, pvars
  <2>2. dir = NULL
    BY <1>1 DEF Inv, PInv
  <2> QED BY <1>1, <2>1, <2>2, Numbers
<1>3. MInv'
  <2>1. CASE Mount
    BY <2>1, FillStep, BitmapStep, PutStep DEF Mount, Inv
  <2>2. CASE \E ino \in 0..(MaxInodes + 1) : RawInode(ino)
    <3>1. PICK ino \in Nat : M!minix_raw_inode(ino)
      BY <2>2, MinixFsAssumption DEF RawInode, M!MinixMountConstants
    <3> QED BY <3>1, RawStep DEF Inv
  <2> QED BY <2>1, <2>2
<1>4. Together'
  BY <1>2 DEF Together
<1> QED BY <1>2, <1>3, <1>4 DEF Inv

\* namei: the call, its start and the names of the path.
LEMMA WalkStep ==
  ASSUME Inv, Walk \/ \E d \in {NULL} \cup DOMAIN image, p \in P!AllPaths : Namei(d, p)
  PROVE Inv'
<1>1. UNCHANGED <<mvars, fvars, file>>
  BY DEF Walk, Namei
<1>2. MInv' /\ mount' = mount /\ d_sb' = d_sb /\ read' = read /\ file' = file
  BY <1>1, Unchanged DEF Inv, mvars
<1>3. PInv /\ Together
  BY DEF Inv
<1>4. CASE \E d \in {NULL} \cup DOMAIN image, p \in P!AllPaths : Namei(d, p)
  <2>1. PICK d \in {NULL} \cup DOMAIN image, p \in P!AllPaths : Namei(d, p)
    BY <1>4
  <2>2. mount = "mounted" /\ d_sb = Populated /\ P!Call(d, p)
    BY <2>1 DEF Namei
  <2>3. PInv' /\ dir' = dir
    BY <1>3, <2>2, CallStep
  <2>4. Together'
    BY <1>2, <1>3, <2>2, <2>3 DEF Together
  <2> QED BY <1>2, <2>3, <2>4 DEF Inv
<1>5. CASE P!Start
  <2>1. PInv' /\ dir' \in {NULL} \cup DOMAIN image /\ walk = "start"
    BY <1>3, <1>5, StartStep DEF P!Start
  <2>2. dir' \notin Files
    BY <1>3, <2>1, Numbers DEF PInv
  <2>3. Together'
    BY <1>2, <1>3, <2>1, <2>2 DEF Together
  <2> QED BY <1>2, <2>1, <2>3 DEF Inv
<1>6. CASE P!NextName
  <2>1. PInv' /\ dir' \in {dir, NULL} /\ walk = "split"
    BY <1>3, <1>6, NameStep DEF P!NextName
  <2>2. NULL \notin Files
    BY Numbers
  <2>3. Together'
    BY <1>2, <1>3, <2>1, <2>2 DEF Together
  <2> QED BY <1>2, <2>1, <2>3 DEF Inv
<1> QED BY <1>4, <1>5, <1>6 DEF Walk

\* minix_lookup, and minix_iget of what it finds.
LEMMA FetchStep == Inv /\ Lookup => Inv'
<1> SUFFICES ASSUME Inv, Lookup PROVE Inv'
  OBVIOUS
<1>1. /\ P!minix_lookup /\ file' = file
      /\ IF walk' = "split" THEN M!minix_raw_inode(dir') ELSE UNCHANGED mvars
  BY DEF Lookup
<1>2. MInv /\ PInv /\ Together
  BY DEF Inv
<1>3. /\ PInv'
      /\ walk' \in {"split", "done", "lookup"} /\ walk = "lookup"
      /\ walk' = "split" => dir' \in Nat
      /\ walk' = "lookup" => dir' = dir
      /\ walk' = "done" => dir' = NULL
  BY <1>1, <1>2, LookupStep
<1>4. mount = "mounted" /\ d_sb = Populated
  BY <1>2, <1>3 DEF Together
<1>5. CASE walk' = "split"
  <2>1. PICK n \in Nat : n = dir'
    BY <1>3, <1>5
  <2>2. M!minix_raw_inode(n)
    BY <1>1, <1>5, <2>1
  <2>3. /\ MInv' /\ DOMAIN read \subseteq DOMAIN read' /\ mount' = mount /\ d_sb' = d_sb
        /\ n # 0 /\ n <= d_sb.s_ninodes => n \in DOMAIN read'
    BY <1>2, <2>2, RawStep
  <2>4. n \in Files => n \in DOMAIN read'
    BY <1>4, <2>3, Numbers
  <2>5. Together'
    BY <1>1, <1>2, <1>4, <2>1, <2>3, <2>4 DEF Together
  <2> QED BY <1>3, <2>3, <2>5 DEF Inv
<1>6. CASE walk' # "split"
  <2>1. MInv' /\ mount' = mount /\ d_sb' = d_sb /\ read' = read
    BY <1>1, <1>2, <1>6, Unchanged DEF mvars
  <2>2. Together'
    BY <1>1, <1>2, <1>3, <1>4, <1>6, <2>1, Numbers DEF Together
  <2> QED BY <1>3, <2>1, <2>2 DEF Inv
<1> QED BY <1>5, <1>6

\* A file is opened, read, written and closed.
LEMMA OpenStep == Inv /\ (Open \/ ReadWrite \/ Close) => Inv'
<1> SUFFICES ASSUME Inv, Open \/ ReadWrite \/ Close PROVE Inv'
  OBVIOUS
<1>1. MInv /\ PInv /\ Together
  BY DEF Inv
<1>2. MInv' /\ mount' = mount /\ d_sb' = d_sb /\ read' = read
  <2>1. UNCHANGED mvars
    BY DEF Open, ReadWrite, Close
  <2> QED BY <1>1, <2>1, Unchanged DEF mvars
<1>3. CASE Open
  <2>1. PInv' /\ dir' = NULL /\ walk' = "idle" /\ walk = "done"
    BY <1>1, <1>3, ReturnStep DEF Open
  <2>2. file' = IF dir \in Files THEN dir ELSE NULL
    BY <1>3 DEF Open
  <2>3. Together'
    BY <1>1, <1>2, <2>1, <2>2, Numbers DEF Together
  <2> QED BY <1>2, <2>1, <2>3 DEF Inv
<1>4. CASE ReadWrite \/ Close
  <2>1. UNCHANGED pvars /\ file # NULL /\ file' \in {file, NULL}
    BY <1>4 DEF ReadWrite, Close
  <2>2. PInv' /\ walk' = walk /\ dir' = dir
    BY <1>1, <2>1, Unchanged DEF pvars
  <2>3. Together'
    BY <1>1, <1>2, <2>1, <2>2 DEF Together
  <2> QED BY <1>2, <2>2, <2>3 DEF Inv
<1> QED BY <1>3, <1>4

\* Every step.
LEMMA NextInv == Inv /\ [Next]_vars => Inv'
<1> SUFFICES ASSUME Inv, [Next]_vars PROVE Inv'
  OBVIOUS
<1>1. CASE UNCHANGED vars
  <2>1. UNCHANGED mvars /\ UNCHANGED pvars /\ file' = file
    BY <1>1 DEF vars
  <2>2. MInv' /\ PInv'
    BY <2>1, Unchanged DEF Inv
  <2>3. Together'
    BY <2>1 DEF Inv, Together, mvars, pvars
  <2> QED BY <2>2, <2>3 DEF Inv
<1>2. CASE Next
  BY <1>2, MountStep, WalkStep, FetchStep, OpenStep DEF Next
<1> QED BY <1>1, <1>2

\* Calls that stay in direct zones.
LEMMA NextFile ==
  ASSUME F!DirectCalls, FInv, [Next]_vars
  PROVE FInv'
<1>1. CASE UNCHANGED fvars
  BY <1>1, Unchanged
<1>2. CASE ReadWrite
  BY <1>2, BeginStep, LoopStep, FileReturn DEF ReadWrite
<1>3. UNCHANGED fvars \/ ReadWrite
  BY DEF Next, vars, Mount, RawInode, Namei, Walk, Lookup, Open, Close
<1> QED BY <1>1, <1>2, <1>3

(***************************************************************************)
(* Theorems.                                                               *)
(***************************************************************************)
\* Every component of a path, with the zero that ends it, fits into the memory
\* namei has allocated, whatever the path and the image.
THEOREM Names == Spec => []NameFits
<1>1. Inv => NameFits
  BY DEF Inv, PInv, NameFits, P!NameFits
<1> QED BY InitInv, NextInv, <1>1, PTL DEF Spec

\* What the invariants mean for the types.
LEMMA Types ==
  ASSUME Inv, FInv
  PROVE InodesApart
<1>1. M!TypeOK /\ M!InodesApart /\ M!HeldExact
  BY MountFacts DEF Inv
<1>2. P!TypeOK
  BY DEF Inv, PInv, P!TypeOK
<1>3. F!TypeOK
  BY DEF FInv, CallOK, F!TypeOK
<1>4. file = NULL \/ file \in Files \cap DOMAIN read
  BY DEF Inv, Together
<1> QED BY <1>1, <1>2, <1>3, <1>4 DEF InodesApart, TypeOK

\* While calls stay in direct zones: inodes are apart from each other, from the
\* bitmaps and from the data; what is mounted holds the super block and the
\* bitmaps and gives all of it back; an open file has had its inode fetched.
THEOREM Apart == F!DirectCalls => (Spec => []InodesApart)
<1> SUFFICES ASSUME F!DirectCalls PROVE Spec => []InodesApart
  OBVIOUS
<1>1. Init => Inv /\ FInv
  BY InitInv
<1>2. Inv /\ FInv /\ [Next]_vars => (Inv /\ FInv)'
  BY NextInv, NextFile
<1>3. Inv /\ FInv => InodesApart
  BY Types
<1> QED BY <1>1, <1>2, <1>3, PTL DEF Spec

\* While calls stay in direct zones, there or missing, minix_write changes no block
\* of another file, and the boot sector where and only where a zone is missing.
THEOREM Own == F!DirectCalls => (Spec => OwnBlocks)
<1> SUFFICES ASSUME F!DirectCalls PROVE Spec => OwnBlocks
  OBVIOUS
<1>1. Init => FInv
  BY InitInv
<1>2. FInv /\ [Next]_vars => FInv'
  BY NextFile
<1>3. FInv /\ [Next]_vars => [\A b \in F!Blocks : disk'[b] # disk[b] =>
        IF F!Missing(call.file, call.pos) THEN b = 0
        ELSE b # 0 /\ b \in {i_zone[call.file][z] : z \in 1..ND}]_F!vars
  <2> SUFFICES ASSUME FInv, [Next]_vars, NEW b \in F!Blocks, disk'[b] # disk[b]
               PROVE IF F!Missing(call.file, call.pos) THEN b = 0
                     ELSE b # 0 /\ b \in {i_zone[call.file][z] : z \in 1..ND}
    BY DEF F!vars
  <2>1. ReadWrite
    BY DEF Next, vars, Mount, RawInode, Namei, Walk, Lookup, Open, Close, fvars
  <2>2. F!Loop
    BY <2>1, BeginStep, FileReturn DEF ReadWrite
  <2> QED BY <2>2, LoopOwn
<1> QED BY <1>1, <1>2, <1>3, PTL DEF Spec, OwnBlocks, F!OwnBlocks

(***************************************************************************)
(* A file is a flat array.  The bytes of the positions that calls touch    *)
(* are in direct zones, and no block has two places among them.            *)
(***************************************************************************)
\* The files as flat arrays, when the blocks are d.
Content(d) == [f \in Files |-> [p \in F!Positions(f) |->
                 d[i_zone[f][(p \div BLOCK_SZ) + 1]][(p % BLOCK_SZ) + 1]]]

\* Where the bytes of a position are.
LEMMA PositionDirect ==
  ASSUME F!DirectCalls, NEW f \in Files, NEW p \in F!Positions(f)
  PROVE p \in Nat /\ F!Direct(f, p)
<1>1. p \in 0..(F!Capacity - 1)
  BY Zenon DEF F!Positions
<1>2. p \in Nat /\ ~(p >= F!Capacity)
  BY <1>1, CapacityFacts
<1>3. p \in UNION {y.pos..(y.pos + y.count - 1) : y \in {z \in Extents : z.file = f}}
  BY Zenon DEF F!Positions
<1>4. PICK x \in Extents : x.file = f /\ p \in x.pos..(x.pos + x.count - 1)
  BY <1>3, Zenon
<1>5. x.pos \in Nat /\ x.count \in Nat
  BY FileFacts
<1>6. ~(x.pos >= F!Capacity)
  BY <1>2, <1>4, <1>5, CapacityFacts
<1>7. F!Within(f, x.pos, x.count)
  BY <1>4 DEF F!DirectCalls
<1> QED BY <1>2, <1>4, <1>6, <1>7 DEF F!Within

\* The mapping of the refinement.
LEMMA Contents ==
  ASSUME F!DirectCalls
  PROVE /\ [f \in Files |-> [p \in F!Positions(f) |->
              disk[F!Zone(f, p \div BLOCK_SZ)][(p % BLOCK_SZ) + 1]]] = Content(disk)
        /\ [f \in Files |-> [p \in F!Positions(f) |->
              disk[F!Zone(f, p \div BLOCK_SZ)][(p % BLOCK_SZ) + 1]]]' = Content(disk')
<1>1. ASSUME NEW f \in Files, NEW p \in F!Positions(f)
      PROVE /\ F!Zone(f, p \div BLOCK_SZ) = i_zone[f][(p \div BLOCK_SZ) + 1]
            /\ F!Zone(f, p \div BLOCK_SZ)' = i_zone[f][(p \div BLOCK_SZ) + 1]
  <2>1. p \in Nat /\ p \div BLOCK_SZ < ND
    BY <1>1, PositionDirect DEF F!Direct
  <2>2. PICK q \in Nat : q = p \div BLOCK_SZ
    BY <2>1, BlockOf
  <2>3. ND \in Nat /\ q - ND < 0
    BY <2>1, <2>2, FileFacts
  <2>4. F!Zone(f, q) = i_zone[f][q + 1] /\ F!Zone(f, q)' = i_zone[f][q + 1]
    BY <2>3 DEF F!Zone
  <2> QED BY <2>2, <2>4
<1>2. [f \in Files |-> [p \in F!Positions(f) |->
              disk[F!Zone(f, p \div BLOCK_SZ)][(p % BLOCK_SZ) + 1]]] = Content(disk)
  BY <1>1, Zenon DEF Content
<1>3. [f \in Files |-> [p \in F!Positions(f) |->
              disk[F!Zone(f, p \div BLOCK_SZ)][(p % BLOCK_SZ) + 1]]]' = Content(disk')
  BY <1>1, Zenon DEF Content
<1> QED BY <1>2, <1>3, Zenon

\* The bytes of one round are in one block, in the order of their positions.
LEMMA SameBlock ==
  ASSUME NEW s \in Nat, NEW n \in Nat, NEW nr \in Nat, nr = s % BLOCK_SZ, nr + n <= BLOCK_SZ,
         NEW p \in Nat
  PROVE /\ p \in s..(s + n - 1) => /\ p \div BLOCK_SZ = s \div BLOCK_SZ
                                   /\ (p % BLOCK_SZ) + 1 \in (nr + 1)..(nr + n)
        /\ p \div BLOCK_SZ = s \div BLOCK_SZ /\ (p % BLOCK_SZ) + 1 \in (nr + 1)..(nr + n)
             => p \in s..(s + n - 1) /\ (p % BLOCK_SZ) + 1 - nr = p - s + 1
<1>1. BLOCK_SZ \in Nat /\ BLOCK_SZ >= 1
  BY FileFacts
<1>2. PICK q \in Nat : q = s \div BLOCK_SZ /\ s = BLOCK_SZ * q + nr
  BY BlockOf
<1>3. PICK t, r \in Nat : t = p \div BLOCK_SZ /\ r = p % BLOCK_SZ /\ p = BLOCK_SZ * t + r
  BY BlockOf
<1>4. PICK x \in Nat : x = BLOCK_SZ * q
  BY <1>1
<1>5. s = x + nr
  BY <1>2, <1>4
<1>6. ASSUME p \in s..(s + n - 1) PROVE t = q /\ r + 1 \in (nr + 1)..(nr + n)
  <2>1. PICK j \in Nat : j < n /\ p = x + (nr + j)
    <3>1. p - s \in Nat /\ p - s < n /\ p = x + (nr + (p - s))
      BY <1>5, <1>6
    <3> QED BY <3>1
  <2>2. nr + j \in Nat /\ nr + j < BLOCK_SZ
    BY <1>1, <2>1
  <2>3. PICK m \in Nat : m = nr + j /\ m < BLOCK_SZ
    BY <2>2
  <2>4. p = BLOCK_SZ * q + m
    BY <1>4, <2>1, <2>3
  <2>5. t = q /\ r = m
    BY <1>3, <2>3, <2>4, InBlock
  <2> QED BY <2>1, <2>3, <2>5
<1>7. ASSUME t = q, r + 1 \in (nr + 1)..(nr + n)
      PROVE p \in s..(s + n - 1) /\ r + 1 - nr = p - s + 1
  <2>1. p = x + r
    BY <1>3, <1>4, <1>7
  <2> QED BY <1>5, <1>7, <2>1
<1> QED BY <1>2, <1>3, <1>6, <1>7

\* n bytes of file f from position s on, in the block b of blocks d.
Piece(d, f, s, n, nr, b) ==
  /\ f \in Files /\ s \in Nat /\ n \in Nat /\ n >= 1 /\ nr \in Nat
  /\ nr = s % BLOCK_SZ /\ nr + n <= BLOCK_SZ
  /\ F!Direct(f, s) /\ b = i_zone[f][(s \div BLOCK_SZ) + 1]
  /\ DOMAIN d = F!Blocks /\ IsBlock(d[b])
  /\ \A p \in s..(s + n - 1) : p \in F!Positions(f)

\* The blocks after n bytes of u were stored in block b.
Stores(d, n, nr, b, u) ==
  [d EXCEPT ![b] = [i \in DOMAIN d[b] |->
     IF i \in (nr + 1)..(nr + n) THEN u[i - nr] ELSE d[b][i]]]

\* The flat arrays after n bytes of u were stored at position s of file f.
Patched(c, f, s, n, u) ==
  [c EXCEPT ![f] = [p \in DOMAIN c[f] |->
     IF p \in s..(s + n - 1) THEN u[p - s + 1] ELSE c[f][p]]]

\* A write of n bytes from position s on, seen in the flat array.
LEMMA Stored ==
  ASSUME F!DirectCalls, F!ZonesApart, NEW d, NEW f, NEW s, NEW n, NEW nr, NEW b, NEW u,
         Piece(d, f, s, n, nr, b), NEW d2, d2 = Stores(d, n, nr, b, u)
  PROVE Content(d2) = Patched(Content(d), f, s, n, u)
<1> USE DEF Stores
<1>0. /\ f \in Files /\ s \in Nat /\ n \in Nat /\ nr \in Nat /\ nr = s % BLOCK_SZ
      /\ nr + n <= BLOCK_SZ /\ F!Direct(f, s) /\ b = i_zone[f][(s \div BLOCK_SZ) + 1]
      /\ DOMAIN d = F!Blocks /\ DOMAIN d[b] = 1..BLOCK_SZ
  BY DEF Piece, IsBlock
<1>1. BLOCK_SZ \in Nat /\ BLOCK_SZ >= 1
  BY FileFacts
<1>2. /\ b \in F!Blocks /\ s \in F!Positions(f)
  <2>1. n >= 1 /\ \A p \in s..(s + n - 1) : p \in F!Positions(f)
    BY DEF Piece
  <2>2. s \in s..(s + n - 1)
    BY <1>0, <2>1
  <2> QED BY <1>0, <2>1, <2>2, DirectBlock
<1>3. ASSUME NEW g \in Files, NEW p \in F!Positions(g)
      PROVE d2[i_zone[g][(p \div BLOCK_SZ) + 1]][(p % BLOCK_SZ) + 1] =
              IF g = f /\ p \in s..(s + n - 1) THEN u[p - s + 1]
              ELSE d[i_zone[g][(p \div BLOCK_SZ) + 1]][(p % BLOCK_SZ) + 1]
  <2>1. p \in Nat /\ F!Direct(g, p)
    BY <1>3, PositionDirect
  <2>2. PICK t, r \in Nat : t = p \div BLOCK_SZ /\ r = p % BLOCK_SZ /\ r < BLOCK_SZ
    BY <2>1, BlockOf
  <2>3. PICK c : c = i_zone[g][t + 1]
    OBVIOUS
  <2>4. t + 1 \in 1..ND /\ c \in F!Blocks
    BY <2>1, <2>2, <2>3, DirectBlock
  <2>5. PICK q \in Nat : q = s \div BLOCK_SZ
    BY <1>0, BlockOf
  <2>6. c = b => g = f /\ t = q
    <3> SUFFICES ASSUME c = b PROVE g = f /\ t = q
      OBVIOUS
    <3>1. i_zone[g][(p \div BLOCK_SZ) + 1] = i_zone[f][(s \div BLOCK_SZ) + 1]
      BY <1>0, <2>2, <2>3
    <3>2. g = f /\ p \div BLOCK_SZ = s \div BLOCK_SZ
      <4>1. f \in Files /\ g \in Files /\ p \in F!Positions(g) /\ s \in F!Positions(f)
        BY <1>0, <1>2, <1>3, Zenon
      <4>2. \A h \in F!Positions(g), j \in F!Positions(f) :
              i_zone[g][(h \div BLOCK_SZ) + 1] = i_zone[f][(j \div BLOCK_SZ) + 1]
                => g = f /\ h \div BLOCK_SZ = j \div BLOCK_SZ
        BY <4>1, Zenon DEF F!ZonesApart
      <4> QED BY <3>1, <4>1, <4>2, Zenon
    <3> QED BY <2>2, <2>5, <3>2
  <2>7. g = f /\ t = q => c = b
    BY <1>0, <2>3, <2>5
  <2>8. /\ p \in s..(s + n - 1) => t = q /\ r + 1 \in (nr + 1)..(nr + n)
        /\ t = q /\ r + 1 \in (nr + 1)..(nr + n)
             => p \in s..(s + n - 1) /\ r + 1 - nr = p - s + 1
    BY <1>0, <2>1, <2>2, <2>5, SameBlock
  <2>9. d2[c][r + 1] = IF g = f /\ p \in s..(s + n - 1) THEN u[p - s + 1] ELSE d[c][r + 1]
    <3>1. CASE c # b
      <4>1. d2[c] = d[c]
        BY <1>0, <2>4, <3>1
      <4> QED BY <2>7, <2>8, <3>1, <4>1
    <3>2. CASE c = b
      <4>1. r + 1 \in DOMAIN d[b]
        BY <1>0, <1>1, <2>2
      <4>2. d2[c][r + 1] = IF r + 1 \in (nr + 1)..(nr + n) THEN u[r + 1 - nr] ELSE d[b][r + 1]
        BY <1>0, <1>2, <3>2, <4>1
      <4>3. CASE r + 1 \in (nr + 1)..(nr + n)
        BY <2>6, <2>8, <3>2, <4>2, <4>3, Zenon
      <4>4. CASE r + 1 \notin (nr + 1)..(nr + n)
        BY <2>6, <2>8, <3>2, <4>2, <4>4, Zenon
      <4> QED BY <4>3, <4>4
    <3> QED BY <3>1, <3>2
  <2> QED BY <2>2, <2>3, <2>9, Zenon
<1>4. DOMAIN Content(d) = Files /\ DOMAIN Content(d2) = Files
  BY DEF Content
<1>5. \A g \in Files : \A p \in F!Positions(g) :
        /\ Content(d)[g][p] = d[i_zone[g][(p \div BLOCK_SZ) + 1]][(p % BLOCK_SZ) + 1]
        /\ Content(d2)[g][p] = d2[i_zone[g][(p \div BLOCK_SZ) + 1]][(p % BLOCK_SZ) + 1]
  BY DEF Content
<1>6. \A g \in Files : /\ DOMAIN Content(d)[g] = F!Positions(g)
                       /\ DOMAIN Content(d2)[g] = F!Positions(g)
  BY DEF Content
<1>7. PICK w : w = [p \in DOMAIN Content(d)[f] |->
          IF p \in s..(s + n - 1) THEN u[p - s + 1] ELSE Content(d)[f][p]]
  OBVIOUS
<1>8. Content(d2)[f] = w
  <2>1. \A p \in F!Positions(f) : Content(d2)[f][p] = w[p]
    <3> SUFFICES ASSUME NEW p \in F!Positions(f) PROVE Content(d2)[f][p] = w[p]
      OBVIOUS
    <3>1. w[p] = IF p \in s..(s + n - 1) THEN u[p - s + 1] ELSE Content(d)[f][p]
      BY <1>0, <1>6, <1>7
    <3>2. PICK e, e2 : /\ e = d[i_zone[f][(p \div BLOCK_SZ) + 1]][(p % BLOCK_SZ) + 1]
                       /\ e2 = d2[i_zone[f][(p \div BLOCK_SZ) + 1]][(p % BLOCK_SZ) + 1]
      OBVIOUS
    <3>3. e2 = IF p \in s..(s + n - 1) THEN u[p - s + 1] ELSE e
      BY <1>0, <1>3, <3>2, Zenon
    <3>4. Content(d)[f][p] = e /\ Content(d2)[f][p] = e2
      BY <1>0, <1>5, <3>2, Zenon
    <3> QED BY <3>1, <3>3, <3>4, Zenon
  <2>2. Content(d2)[f] = [p \in F!Positions(f) |-> Content(d2)[f][p]]
    BY <1>0 DEF Content
  <2>3. w = [p \in F!Positions(f) |-> w[p]]
    BY <1>0, <1>6, <1>7
  <2> QED BY <2>1, <2>2, <2>3, Zenon
<1>9. \A g \in Files : g # f => Content(d2)[g] = Content(d)[g]
  <2> SUFFICES ASSUME NEW g \in Files, g # f PROVE Content(d2)[g] = Content(d)[g]
    OBVIOUS
  <2>1. \A p \in F!Positions(g) : Content(d2)[g][p] = Content(d)[g][p]
    BY <1>3, <1>5
  <2>2. /\ Content(d2)[g] = [p \in F!Positions(g) |-> Content(d2)[g][p]]
        /\ Content(d)[g] = [p \in F!Positions(g) |-> Content(d)[g][p]]
    BY DEF Content
  <2> QED BY <2>1, <2>2, Zenon
<1>10. Content(d2) = [g \in Files |-> Content(d2)[g]]
  BY DEF Content
<1>11. [Content(d) EXCEPT ![f] = w] = [g \in Files |-> IF g = f THEN w ELSE Content(d)[g]]
  BY <1>0, <1>4
<1>12. Content(d2) = [Content(d) EXCEPT ![f] = w]
  BY <1>0, <1>8, <1>9, <1>10, <1>11
<1> QED BY <1>7, <1>12, Zenon DEF Patched

\* n bytes of the flat array of file f from position s on.
Bytes(c, f, s, n) == [i \in 1..n |-> c[f][s + i - 1]]

\* A read of n bytes from position s on, seen in the flat array.
LEMMA Fetched ==
  ASSUME NEW d, NEW f, NEW s, NEW n, NEW nr, NEW b, Piece(d, f, s, n, nr, b)
  PROVE SubSeq(d[b], nr + 1, nr + n) = Bytes(Content(d), f, s, n)
<1>0. /\ f \in Files /\ s \in Nat /\ n \in Nat /\ nr \in Nat /\ nr = s % BLOCK_SZ
      /\ nr + n <= BLOCK_SZ /\ b = i_zone[f][(s \div BLOCK_SZ) + 1] /\ IsBlock(d[b])
      /\ \A p \in s..(s + n - 1) : p \in F!Positions(f)
  BY DEF Piece
<1>1. BLOCK_SZ \in Nat /\ BLOCK_SZ >= 1
  BY FileFacts
<1>2. PICK v, S : v = d[b] /\ S = {v[i] : i \in 1..BLOCK_SZ}
  OBVIOUS
<1>3. v \in Seq(S) /\ Len(v) = BLOCK_SZ
  <2>1. v \in [1..BLOCK_SZ -> S]
    BY <1>0, <1>2 DEF IsBlock
  <2> QED BY <1>0, <1>1, <2>1
<1>4. PICK w : w = SubSeq(v, nr + 1, nr + n)
  OBVIOUS
<1>5. /\ w \in Seq(S) /\ Len(w) = n
      /\ \A i \in 1..n : w[i] = v[nr + i]
  <2>1. nr + 1 \in Int /\ nr + n \in Int /\ (nr + n) - (nr + 1) + 1 = n
    BY <1>0, <1>1
  <2>2. \A i \in (nr + 1)..(nr + n) : i \in 1..Len(v)
    BY <1>0, <1>1, <1>3
  <2>3. w \in Seq(S) /\ Len(w) = n
    BY <1>0, <1>1, <1>3, <1>4, <2>1, <2>2, SubSeqProperties
  <2>4. \A i \in 1..n : w[i] = v[nr + i]
    BY <1>0, <1>1, <1>3, <1>4, <2>1, <2>2, SubSeqProperties
  <2> QED BY <1>0, <2>3, <2>4
<1>6. ASSUME NEW i \in 1..n PROVE v[nr + i] = Content(d)[f][s + i - 1]
  <2>1. PICK p \in Nat : p = s + i - 1 /\ p \in s..(s + n - 1)
    BY <1>0, <1>6
  <2>2. PICK t, r \in Nat : t = p \div BLOCK_SZ /\ r = p % BLOCK_SZ
    BY <1>0, BlockOf
  <2>3. PICK q \in Nat : q = s \div BLOCK_SZ
    BY <1>0, BlockOf
  <2>4. /\ p \in s..(s + n - 1) => t = q /\ r + 1 \in (nr + 1)..(nr + n)
        /\ t = q /\ r + 1 \in (nr + 1)..(nr + n)
             => p \in s..(s + n - 1) /\ r + 1 - nr = p - s + 1
    BY <1>0, <2>2, <2>3, SameBlock
  <2>5. t = q /\ r + 1 - nr = p - s + 1
    BY <2>1, <2>4, Zenon
  <2>6. r + 1 = nr + i
    BY <1>0, <1>6, <2>1, <2>2, <2>5
  <2>7. Content(d)[f][p] = d[i_zone[f][t + 1]][r + 1]
    BY <1>0, <2>1, <2>2 DEF Content
  <2>8. Content(d)[f][p] = v[nr + i]
    BY <1>0, <1>2, <2>3, <2>5, <2>6, <2>7, Zenon
  <2> QED BY <1>0, <2>1, <2>8, Zenon
<1>7. w = [i \in 1..n |-> w[i]]
  BY <1>0, <1>5
<1> QED BY <1>0, <1>2, <1>4, <1>5, <1>6, <1>7, Zenon DEF Bytes

\* The array of the abstract specification, now and after the step.
Array == [f \in Files |-> [p \in F!Positions(f) |->
            disk[F!Zone(f, p \div BLOCK_SZ)][(p % BLOCK_SZ) + 1]]]

\* A round of minix_read or minix_write transfers bytes of the flat array.
LEMMA FlatLoop ==
  ASSUME F!DirectCalls, F!ZonesApart, FInv, F!Loop
  PROVE F!Flat!FlatNext
<1>1. call # NULL /\ CallOK(call)
  BY LoopStep
<1>2. PICK nr, n \in Nat, b \in F!Blocks :
             /\ nr = call.pos % BLOCK_SZ /\ n >= 1 /\ n <= call.left /\ nr + n <= BLOCK_SZ
             /\ F!Direct(call.file, call.pos)
             /\ b = i_zone[call.file][(call.pos \div BLOCK_SZ) + 1]
             /\ call' = CallRecord(call.file, call.op, call.pos + n, call.left - n,
                          IF call.op = "read" THEN call.buf \o SubSeq(disk[b], nr + 1, nr + n)
                          ELSE SubSeq(call.buf, n + 1, Len(call.buf)))
             /\ disk' = IF call.op = "read" THEN disk
                        ELSE [disk EXCEPT ![b] = [i \in DOMAIN disk[b] |->
                          IF i \in (nr + 1)..(nr + n) THEN call.buf[i - nr] ELSE disk[b][i]]]
  BY LoopStep, Zenon
<1>3. PICK c, f, o, s, l, u : /\ c = call /\ call.file = f /\ call.op = o /\ call.pos = s
                              /\ call.left = l /\ call.buf = u
  OBVIOUS
<1>4. /\ f \in Files /\ o \in {"read", "write"} /\ s \in Nat /\ l \in Nat /\ F!Within(f, s, l)
      /\ \A p \in s..(s + l - 1) : p < F!Capacity => p \in F!Positions(f)
  BY <1>1, <1>3, Zenon DEF CallOK
<1>5. /\ nr \in Nat /\ n \in Nat
      /\ nr = s % BLOCK_SZ /\ n >= 1 /\ n <= l /\ nr + n <= BLOCK_SZ
      /\ F!Direct(f, s) /\ b = i_zone[f][(s \div BLOCK_SZ) + 1]
  BY <1>2, <1>3, Zenon
<1>6. \A p \in s..(s + n - 1) : p \in F!Positions(f)
  <2> SUFFICES ASSUME NEW p \in s..(s + n - 1) PROVE p \in F!Positions(f)
    OBVIOUS
  <2>1. p \in Nat /\ p \in s..(s + l - 1)
    BY <1>4, <1>5
  <2>2. ~(s >= F!Capacity)
    BY <1>4, <1>5, CapacityFacts
  <2>3. F!Direct(f, p)
    BY <1>4, <2>1, <2>2 DEF F!Within
  <2> QED BY <1>4, <2>1, <2>3, CapacityFacts
<1>7. PICK C, C2, D, D2 : C = Array /\ C2 = Array' /\ D = disk /\ D2 = disk'
  OBVIOUS
<1>8. C = Content(D) /\ C2 = Content(D2)
  BY <1>7, Contents, Zenon DEF Array
<1>9. PICK z \in 1..ND : b = i_zone[f][z]
  BY <1>4, <1>5, DirectBlock
<1>10. DOMAIN D = F!Blocks /\ IsBlock(D[b]) /\ DOMAIN D[b] = 1..BLOCK_SZ
  <2>1. DOMAIN D = F!Blocks /\ IsBlock(D[b])
    BY <1>4, <1>7, <1>9 DEF FInv
  <2> QED BY <2>1 DEF IsBlock
<1>11. n \in 1..l /\ Piece(D, f, s, n, nr, b)
  <2>1. n \in 1..l
    BY <1>4, <1>5
  <2>2. Piece(D, f, s, n, nr, b)
    BY <1>4, <1>5, <1>6, <1>10, Zenon DEF Piece
  <2> QED BY <2>1, <2>2
<1>12. CallOK(c)
  BY <1>1, <1>3, Zenon
<1>13. PICK rest : rest = [c EXCEPT !.pos = @ + n, !.left = @ - n]
  OBVIOUS
<1>14. rest.buf = u /\ \A v : [rest EXCEPT !.buf = v] = CallRecord(f, o, s + n, l - n, v)
  <2>1. c = [file |-> f, op |-> o, pos |-> s, left |-> l, buf |-> u]
    BY <1>3, <1>12, Zenon DEF CallOK, CallRecord
  <2>2. rest.buf = u
    BY <1>13, <2>1
  <2>3. ASSUME NEW v PROVE [rest EXCEPT !.buf = v] = CallRecord(f, o, s + n, l - n, v)
    <3>1. [[c EXCEPT !.pos = @ + n, !.left = @ - n] EXCEPT !.buf = v]
            = CallRecord(c.file, c.op, c.pos + n, c.left - n, v)
      BY <1>12, Advanced
    <3> QED BY <1>3, <1>13, <3>1, Zenon
  <2> QED BY <2>2, <2>3
<1>15. ASSUME o = "read"
       PROVE /\ call' = [rest EXCEPT !.buf = @ \o [i \in 1..n |-> C[f][s + i - 1]]]
             /\ C2 = C
  <2>1. SubSeq(D[b], nr + 1, nr + n) = [i \in 1..n |-> C[f][s + i - 1]]
    <3>1. SubSeq(D[b], nr + 1, nr + n) = Bytes(Content(D), f, s, n)
      BY <1>11, Fetched
    <3> QED BY <1>8, <3>1, Zenon DEF Bytes
  <2>2. PICK v : v = u \o [i \in 1..n |-> C[f][s + i - 1]]
    OBVIOUS
  <2>3. call' = CallRecord(f, o, s + n, l - n, v)
    BY <1>2, <1>3, <1>7, <1>15, <2>1, <2>2
  <2>4. call' = [rest EXCEPT !.buf = v]
    BY <1>14, <2>3, Zenon
  <2>5. D2 = D
    BY <1>2, <1>3, <1>7, <1>15
  <2> QED BY <1>8, <1>14, <2>2, <2>4, <2>5, Zenon
<1>16. ASSUME o # "read"
       PROVE /\ call' = [rest EXCEPT !.buf = SubSeq(@, n + 1, Len(@))]
             /\ C2 = [C EXCEPT ![f] = [p \in DOMAIN C[f] |->
                  IF p \in s..(s + n - 1) THEN u[p - s + 1] ELSE C[f][p]]]
  <2>1. PICK v : v = SubSeq(u, n + 1, Len(u))
    OBVIOUS
  <2>2. call' = CallRecord(f, o, s + n, l - n, v)
    BY <1>2, <1>3, <1>16, <2>1
  <2>3. call' = [rest EXCEPT !.buf = v]
    BY <1>14, <2>2, Zenon
  <2>4. D2 = Stores(D, n, nr, b, u)
    BY <1>2, <1>3, <1>7, <1>16, Zenon DEF Stores
  <2>5. C2 = [C EXCEPT ![f] = [p \in DOMAIN C[f] |->
                  IF p \in s..(s + n - 1) THEN u[p - s + 1] ELSE C[f][p]]]
    <3>1. Content(D2) = Patched(Content(D), f, s, n, u)
      BY <1>11, <2>4, Stored
    <3> QED BY <1>8, <3>1, Zenon DEF Patched
  <2> QED BY <1>14, <2>1, <2>3, <2>5, Zenon
<1>17. F!Flat!Transfer(n)
  <2>1. CASE o = "read"
    <3>1. call' = [[call EXCEPT !.pos = @ + n, !.left = @ - n]
                    EXCEPT !.buf = @ \o [i \in 1..n |-> Array[call.file][call.pos + i - 1]]]
      BY <1>3, <1>7, <1>13, <1>15, <2>1, Zenon
    <3>2. Array' = Array /\ n \in 1..call.left /\ call.op = "read"
      BY <1>3, <1>7, <1>11, <1>15, <2>1, Zenon
    <3> QED BY <1>1, <3>1, <3>2, Zenon DEF F!Flat!Transfer, Array
  <2>2. CASE o # "read"
    <3>1. call' = [[call EXCEPT !.pos = @ + n, !.left = @ - n]
                    EXCEPT !.buf = SubSeq(@, n + 1, Len(@))]
      BY <1>3, <1>13, <1>16, <2>2, Zenon
    <3>2. Array' = [Array EXCEPT ![call.file] = [p \in DOMAIN Array[call.file] |->
                     IF p \in call.pos..(call.pos + n - 1)
                     THEN call.buf[p - call.pos + 1] ELSE Array[call.file][p]]]
      BY <1>3, <1>7, <1>16, <2>2, Zenon
    <3>3. n \in 1..call.left /\ call.op # "read"
      BY <1>3, <1>11, <2>2, Zenon
    <3> QED BY <1>1, <3>1, <3>2, <3>3, Zenon DEF F!Flat!Transfer, Array
  <2> QED BY <2>1, <2>2
<1>18. n \in 1..(IF call = NULL THEN 0 ELSE call.left)
  BY <1>1, <1>3, <1>11
<1> QED BY <1>17, <1>18, Zenon DEF F!Flat!FlatNext

\* The array and the call, where the step leaves blocks and call alone.
LEMMA FlatSame == UNCHANGED fvars => UNCHANGED <<Array, call>>
BY DEF fvars, Array, F!Zone

\* A call begins or returns.
LEMMA FlatCall ==
  ASSUME F!DirectCalls, FInv,
         \/ \E x \in Extents, op \in {"read", "write"} : F!Begin(x, op)
         \/ F!Return
  PROVE F!Flat!FlatNext
<1>1. CASE \E x \in Extents, op \in {"read", "write"} : F!Begin(x, op)
  <2>1. PICK x \in Extents, op \in {"read", "write"} : F!Begin(x, op)
    BY <1>1
  <2>2. /\ disk' = disk /\ call = NULL /\ CallOK(call') /\ call'.op = op
        /\ (op = "read" => call'.buf = << >>)
    BY <2>1, BeginStep
  <2>3. Array' = Array
    BY <2>2 DEF Array, F!Zone
  <2>4. call' # NULL
    <3>1. PICK c : c = call'
      OBVIOUS
    <3>2. /\ c = [file |-> c.file, op |-> c.op, pos |-> c.pos, left |-> c.left, buf |-> c.buf]
          /\ c.file \in Files /\ c.op \in {"read", "write"} /\ c.pos \in Nat /\ c.left \in Nat
      BY <2>2, <3>1, Zenon DEF CallOK, CallRecord
    <3>3. c.buf \in Seq({"written"} \X Nat \X Nat)
      <4>1. CASE op = "read"
        <5>1. c.buf = << >>
          BY <2>2, <3>1, <4>1, Zenon
        <5> QED BY <5>1
      <4>2. CASE op = "write"
        BY <2>2, <3>1, <4>2, Zenon DEF CallOK, Fresh
      <4> QED BY <4>1, <4>2
    <3>4. c \in [file : Files, op : {"read", "write"}, pos : Nat, left : Nat,
                    buf : Seq({"written"} \X Nat \X Nat)]
      BY <3>2, <3>3
    <3>5. NULL \notin [file : Files, op : {"read", "write"}, pos : Nat, left : Nat,
                    buf : Seq({"written"} \X Nat \X Nat)]
      BY MinixFsAssumption, Zenon DEF F!MinixFileConstants
    <3> QED BY <3>1, <3>4, <3>5, Zenon
  <2>5. /\ call'.op = "read" => call'.buf = << >>
        /\ call'.op = "write" => Len(call'.buf) = call'.left
    BY <2>2, Zenon DEF CallOK
  <2>6. F!Flat!Begin
    BY <2>2, <2>3, <2>4, <2>5, Zenon DEF F!Flat!Begin, Array
  <2> QED BY <2>6 DEF F!Flat!FlatNext
<1>2. CASE F!Return
  <2>1. /\ call # NULL /\ call' = NULL /\ disk' = disk
        /\ call.left > 0 => F!inode_get_blk(call.file, call.pos \div BLOCK_SZ) = {}
    BY <1>2 DEF F!Return
  <2>2. CallOK(call)
    BY <2>1 DEF FInv
  <2>3. Array' = Array
    BY <2>1 DEF Array, F!Zone
  <2>4. call.left = 0 \/ call.pos >= F!Capacity
    <3> SUFFICES ASSUME call.left # 0, ~(call.pos >= F!Capacity) PROVE FALSE
      OBVIOUS
    <3>1. PICK f, s, l : call.file = f /\ call.pos = s /\ call.left = l
      OBVIOUS
    <3>2. f \in Files /\ s \in Nat /\ l \in Nat /\ F!Within(f, s, l)
      BY <2>2, <3>1, Zenon DEF CallOK
    <3>3. l > 0 /\ s \in s..(s + l - 1)
      BY <3>1, <3>2
    <3>4. F!Direct(f, s)
      BY <3>1, <3>2, <3>3 DEF F!Within
    <3>5. F!inode_get_blk(f, s \div BLOCK_SZ) # {}
      <4>1. PICK b : b = i_zone[f][(s \div BLOCK_SZ) + 1]
        OBVIOUS
      <4>2. F!inode_get_blk(f, s \div BLOCK_SZ) = {b}
        BY <3>2, <3>4, <4>1, DirectBlock
      <4> QED BY <4>2
    <3> QED BY <2>1, <3>1, <3>3, <3>5
  <2>5. F!Flat!End
    BY <2>1, <2>3, <2>4, Zenon DEF F!Flat!End, Array
  <2> QED BY <2>5 DEF F!Flat!FlatNext
<1> QED BY <1>1, <1>2

\* While calls stay in direct zones and reach no block in two places, reading and
\* writing a file is reading and writing one flat array: the bytes are in order,
\* none is left out, doubled or taken from another place; the bytes of a zone that
\* is missing are the boot sector's.
THEOREM FlatArray == F!DirectCalls /\ F!ZonesApart => (Spec => ImplementsFlatFile)
<1> SUFFICES ASSUME F!DirectCalls, F!ZonesApart PROVE Spec => ImplementsFlatFile
  OBVIOUS
<1>1. Init => FInv /\ F!Flat!FlatInit
  <2> SUFFICES ASSUME Init PROVE FInv /\ F!Flat!FlatInit
    OBVIOUS
  <2>1. FInv /\ call = NULL
    BY InitInv DEF Init, F!Init
  <2> QED BY <2>1 DEF F!Flat!FlatInit
<1>2. FInv /\ [Next]_vars => FInv'
  BY NextFile
<1>3. FInv /\ [Next]_vars => [F!Flat!FlatNext]_<<Array, call>>
  <2> SUFFICES ASSUME FInv, [Next]_vars PROVE [F!Flat!FlatNext]_<<Array, call>>
    OBVIOUS
  <2>1. CASE UNCHANGED fvars
    BY <2>1, FlatSame
  <2>2. CASE ReadWrite
    BY <2>2, FlatLoop, FlatCall DEF ReadWrite
  <2>3. UNCHANGED fvars \/ ReadWrite
    BY DEF Next, vars, Mount, RawInode, Namei, Walk, Lookup, Open, Close
  <2> QED BY <2>1, <2>2, <2>3
<1> QED BY <1>1, <1>2, <1>3, PTL
        DEF Spec, ImplementsFlatFile, F!ImplementsFlatFile, F!Flat!FlatSpec, Array

(***************************************************************************)
(* What a path designates.                                                 *)
(***************************************************************************)
\* What the character i of the path does; and where the path begins.
Hop(x, i) ==
  IF \E j \in 1..i : P!Component(j, i)
  THEN P!Step(x, SubSeq(path, CHOOSE j \in 1..i : P!Component(j, i), i)) ELSE x
From == IF path # << >> /\ path[1] = Slash THEN Root ELSE cur_dir

IsAfter(f, n) == f = [i \in 0..n |-> IF i = 0 THEN From ELSE Hop(f[i - 1], i)]

\* A set of numbers without a least member is empty: induction.
LEMMA NoLeast ==
  ASSUME NEW T, T \subseteq Nat, \A m \in T : \E y \in T : y < m
  PROVE T = {}
<1> SUFFICES ASSUME T # {} PROVE FALSE
  OBVIOUS
<1>1. P!Min(T) \in T /\ \A y \in T : P!Min(T) <= y
  BY MinOf
<1>2. PICK y \in T : y < P!Min(T)
  BY <1>1
<1>3. PICK x : x = P!Min(T)
  OBVIOUS
<1>4. x \in Nat /\ y \in Nat /\ x <= y /\ y < x
  BY <1>1, <1>2, <1>3
<1> QED BY <1>4

\* There is a function as After is defined.
LEMMA AfterExists == \A n \in Nat : \E f : IsAfter(f, n)
<1>1. PICK T : T = {n \in Nat : ~\E f : IsAfter(f, n)}
  OBVIOUS
<1>2. ASSUME NEW m \in T PROVE \E y \in T : y < m
  <2> SUFFICES ASSUME \A y \in T : ~(y < m) PROVE FALSE
    OBVIOUS
  <2>1. m \in Nat /\ ~\E f : IsAfter(f, m)
    BY <1>1
  <2>2. CASE m = 0
    <3>1. PICK f : f = [i \in 0..0 |-> From]
      OBVIOUS
    <3>2. f = [i \in 0..0 |-> IF i = 0 THEN From ELSE Hop(f[i - 1], i)]
      BY <3>1
    <3> QED BY <3>2, <2>1, <2>2 DEF IsAfter
  <2>3. CASE m # 0
    <3>1. PICK l : l = m - 1
      OBVIOUS
    <3>2. l \in Nat /\ l < m /\ l \notin T
      BY <3>1, <2>1, <2>3
    <3>3. PICK f : IsAfter(f, l)
      BY <3>2, <1>1
    <3>4. PICK g : g = [i \in 0..m |-> IF i = m THEN Hop(f[l], m) ELSE f[i]]
      OBVIOUS
    <3>5. DOMAIN f = 0..l /\ \A i \in 0..l : f[i] = IF i = 0 THEN From ELSE Hop(f[i - 1], i)
      BY <3>3 DEF IsAfter
    <3>6. ASSUME NEW i \in 0..m PROVE g[i] = IF i = 0 THEN From ELSE Hop(g[i - 1], i)
      <4>1. CASE i = m
        <5>1. g[i] = Hop(f[l], m) /\ g[i - 1] = f[l]
          BY <4>1, <3>1, <3>2, <3>4, <2>1, <2>3
        <5> QED BY <5>1, <4>1, <2>3
      <4>2. CASE i # m /\ i # 0
        <5>1. i \in 0..l /\ i - 1 \in 0..l /\ i - 1 \in 0..m /\ i - 1 # m
          BY <4>2, <3>1, <2>1
        <5>2. g[i] = f[i] /\ g[i - 1] = f[i - 1]
          BY <5>1, <4>2, <3>4
        <5> QED BY <5>1, <5>2, <4>2, <3>5
      <4>3. CASE i # m /\ i = 0
        <5>1. 0 \in 0..l /\ g[i] = f[0]
          BY <4>3, <3>2, <3>4
        <5> QED BY <5>1, <4>3, <3>5
      <4> QED BY <4>1, <4>2, <4>3
    <3>7. g = [i \in 0..m |-> IF i = 0 THEN From ELSE Hop(g[i - 1], i)]
      BY <3>4, <3>6
    <3> QED BY <3>7, <2>1 DEF IsAfter
  <2> QED BY <2>2, <2>3
<1>3. T = {}
  BY <1>1, <1>2, NoLeast
<1> QED BY <1>1, <1>3

\* After is that function.
LEMMA AfterIs ==
  ASSUME path \in Seq(Chars)
  PROVE /\ P!After[0] = From
        /\ \A i \in 1..Len(path) : P!After[i] = Hop(P!After[i - 1], i)
<1>1. P!After = CHOOSE g : g = [i \in 0..Len(path) |-> IF i = 0 THEN From ELSE Hop(g[i - 1], i)]
  BY DEF P!After, From, Hop
<1>2. Len(path) \in Nat
  OBVIOUS
<1>3. \E f : IsAfter(f, Len(path))
  BY <1>2, AfterExists
<1>4. P!After = [i \in 0..Len(path) |-> IF i = 0 THEN From ELSE Hop(P!After[i - 1], i)]
  BY <1>1, <1>3 DEF IsAfter
<1>5. PICK f : f = P!After
  OBVIOUS
<1>6. f = [i \in 0..Len(path) |-> IF i = 0 THEN From ELSE Hop(f[i - 1], i)]
  BY <1>4, <1>5
<1>7. 0 \in 0..Len(path) /\ \A i \in 1..Len(path) : i \in 0..Len(path) /\ i # 0
  BY <1>2
<1> QED BY <1>5, <1>6, <1>7

\* While no component ends, the path leads nowhere else.
LEMMA AfterSame ==
  ASSUME path \in Seq(Chars), NEW a \in Nat, NEW b \in Nat, a <= b, b <= Len(path),
         \A i \in (a + 1)..b : \A j \in 1..i : ~P!Component(j, i)
  PROVE P!After[b] = P!After[a]
<1>1. PICK T : T = {i \in a..b : P!After[i] # P!After[a]}
  OBVIOUS
<1>2. ASSUME NEW m \in T PROVE \E y \in T : y < m
  <2>1. m \in a..b /\ P!After[m] # P!After[a]
    BY <1>1
  <2>2. m # a
    BY <2>1
  <2>3. PICK l : l = m - 1
    OBVIOUS
  <2>4. l \in a..b /\ l < m /\ m \in (a + 1)..b /\ m \in 1..Len(path)
    BY <2>1, <2>2, <2>3
  <2>5. P!After[m] = Hop(P!After[l], m)
    BY <2>3, <2>4, AfterIs
  <2>6. Hop(P!After[l], m) = P!After[l]
    BY <2>4 DEF Hop
  <2> QED BY <2>1, <2>4, <2>5, <2>6, <1>1
<1>3. T = {}
  <2>1. T \subseteq Nat
    BY <1>1
  <2> QED BY <2>1, <1>2, NoLeast
<1>4. b \in a..b
  OBVIOUS
<1> QED BY <1>1, <1>3, <1>4

\* A component has one place.
LEMMA OneComponent ==
  ASSUME path \in Seq(Chars), NEW i \in 1..Len(path), NEW j \in 1..i, P!Component(j, i)
  PROVE P!After[i] = P!Step(P!After[i - 1], SubSeq(path, j, i))
<1>1. ASSUME NEW h \in 1..i, P!Component(h, i) PROVE h = j
  <2>1. /\ \A m \in j..i : path[m] # Slash
        /\ j = 1 \/ path[j - 1] = Slash
        /\ \A m \in h..i : path[m] # Slash
        /\ h = 1 \/ path[h - 1] = Slash
    BY <1>1 DEF P!Component
  <2>2. CASE h < j
    <3>1. j - 1 \in h..i /\ j # 1
      BY <2>2
    <3> QED BY <3>1, <2>1
  <2>3. CASE j < h
    <3>1. h - 1 \in j..i /\ h # 1
      BY <2>3
    <3> QED BY <3>1, <2>1
  <2> QED BY <2>2, <2>3
<1>2. (CHOOSE h \in 1..i : P!Component(h, i)) = j
  BY <1>1
<1>3. P!After[i] = Hop(P!After[i - 1], i)
  BY AfterIs
<1>4. \E h \in 1..i : P!Component(h, i)
  OBVIOUS
<1> QED BY <1>2, <1>3, <1>4, Zenon DEF Hop

\* What is not there leads nowhere.
LEMMA AfterNull ==
  ASSUME path \in Seq(Chars), NULL \notin DOMAIN image,
         NEW a \in Nat, a <= Len(path), P!After[a] = NULL
  PROVE P!Designated = NULL
<1>1. PICK T : T = {i \in a..Len(path) : P!After[i] # NULL}
  OBVIOUS
<1>5. Len(path) \in Nat
  OBVIOUS
<1>2. ASSUME NEW m \in T PROVE \E y \in T : y < m
  <2>1. m \in a..Len(path) /\ P!After[m] # NULL
    BY <1>1
  <2>2. m # a
    BY <2>1
  <2>3. PICK l : l = m - 1
    OBVIOUS
  <2>4. l \in a..Len(path) /\ l < m /\ m \in 1..Len(path)
    BY <2>1, <2>2, <2>3, <1>5
  <2>5. P!After[m] = Hop(P!After[l], m)
    BY <2>3, <2>4, AfterIs
  <2>6. Hop(NULL, m) = NULL
    BY DEF Hop, P!Step
  <2>7. P!After[l] # NULL
    BY <2>1, <2>5, <2>6
  <2> QED BY <2>4, <2>7, <1>1
<1>3. T = {}
  <2>1. T \subseteq Nat
    BY <1>1
  <2> QED BY <2>1, <1>2, NoLeast
<1>4. Len(path) \in a..Len(path)
  BY <1>5
<1> QED BY <1>1, <1>3, <1>4 DEF P!Designated

(***************************************************************************)
(* The names in a directory.                                               *)
(***************************************************************************)
\* The character i of the name of an entry, as it is in memory.
Text(x, i) == IF i <= Len(x.name) THEN x.name[i] ELSE 0
Entry == [inode : Nat, name : Seq(Chars)]

\* The constants of the format.
LEMMA Format ==
  /\ NAME_LEN \in Nat /\ NAME_LEN >= 1 /\ DIR_PER_BLK \in Nat /\ DIR_PER_BLK >= 1
  /\ Chars \subseteq Nat \ {0} /\ Slash \in Chars /\ Dot \in Chars /\ Slash # Dot
<1>1. /\ {Slash, Dot} \subseteq Chars /\ Slash # Dot /\ Chars \subseteq Nat \ {0}
      /\ NAME_LEN \in Nat \ {0} /\ DIR_PER_BLK \in Nat \ {0}
  BY MinixFsAssumption, Zenon DEF P!PathWalkConstants
<1> QED BY <1>1

\* An entry in memory: two bytes, then the name filled up with zeros.
LEMMA EntryBytes ==
  ASSUME NEW x \in Entry
  PROVE /\ P!Bytes(x) \in Seq(Nat) /\ Len(P!Bytes(x)) = NAME_LEN + 2
        /\ \A i \in 1..NAME_LEN : P!Bytes(x)[i + 2] = Text(x, i)
<1>1. PICK u, v : u = <<x.inode % 256, x.inode \div 256>>
                  /\ v = [i \in 1..NAME_LEN |-> IF i <= Len(x.name) THEN x.name[i] ELSE 0]
  OBVIOUS
<1>2. x.inode \in Nat /\ x.name \in Seq(Chars)
  BY DEF Entry
<1>3. x.inode % 256 \in Nat /\ x.inode \div 256 \in Nat
  BY <1>2
<1>4. u \in Seq(Nat) /\ Len(u) = 2
  BY <1>1, <1>3
<1>5. \A i \in 1..NAME_LEN : v[i] = Text(x, i) /\ v[i] \in Nat
  <2> TAKE i \in 1..NAME_LEN
  <2>1. v[i] = Text(x, i)
    BY <1>1 DEF Text
  <2>2. CASE i <= Len(x.name)
    <3>1. i \in 1..Len(x.name)
      BY <2>2, <1>2, Format
    <3>2. x.name[i] \in Chars
      BY <3>1, <1>2
    <3> QED BY <3>2, <2>1, <2>2, Format DEF Text
  <2>3. CASE ~(i <= Len(x.name))
    BY <2>1, <2>3 DEF Text
  <2> QED BY <2>1, <2>2, <2>3
<1>6. v \in [1..NAME_LEN -> Nat]
  BY <1>1, <1>5
<1>7. v \in Seq(Nat) /\ Len(v) = NAME_LEN
  BY <1>6, Format
<1>8. P!Bytes(x) = u \o v
  BY <1>1 DEF P!Bytes
<1>9. /\ u \o v \in Seq(Nat) /\ Len(u \o v) = Len(u) + Len(v)
      /\ \A i \in 1..(Len(u) + Len(v)) : (u \o v)[i] = IF i <= Len(u) THEN u[i] ELSE v[i - Len(u)]
  BY <1>4, <1>7, ConcatProperties
<1>10. ASSUME NEW i \in 1..NAME_LEN PROVE (u \o v)[i + 2] = Text(x, i)
  <2>1. i + 2 \in 1..(Len(u) + Len(v)) /\ ~(i + 2 <= Len(u)) /\ i + 2 - Len(u) = i
    BY <1>4, <1>7, Format
  <2> QED BY <2>1, <1>5, <1>9
<1>11. Len(u \o v) = NAME_LEN + 2
  BY <1>4, <1>7, <1>9, Format
<1> QED BY <1>8, <1>9, <1>10, <1>11

\* Division with remainder, both ways.
LEMMA Divided ==
  ASSUME NEW x \in Nat, NEW s \in Nat, s > 0
  PROVE \E u, v \in Nat : u = x \div s /\ v = x % s /\ v < s /\ x = s * u + v
<1>1. PICK u, v : u = x \div s /\ v = x % s
  OBVIOUS
<1>2. u \in Nat
  BY <1>1
<1>3. v \in Nat /\ v < s
  BY <1>1
<1>4. x = s * u + v
  BY <1>1
<1> QED BY <1>1, <1>2, <1>3, <1>4

LEMMA Quotient ==
  ASSUME NEW s \in Nat, s > 0, NEW u \in Nat, NEW v \in Nat, v < s, NEW x, x = s * u + v
  PROVE x \div s = u /\ x % s = v
<1>1. x \in Nat
  OBVIOUS
<1>2. x \div s = u
  BY <1>1
<1>3. x % s = v
  BY <1>1
<1> QED BY <1>2, <1>3

\* c bytes are before entry e, and each entry has sz bytes.
Before(e, sz, c) == sz = NAME_LEN + 2 /\ c = (e - 1) * sz
\* Entry e of a block is in memory behind c bytes.
Laid(B, e, sz, c) ==
  /\ c \in Nat /\ Len(P!Memory(B)) \in Nat /\ c + sz <= Len(P!Memory(B))
  /\ \A i \in 1..NAME_LEN : P!Memory(B)[c + 2 + i] = Text(B[e], i)

\* A block in memory.
LEMMA BlockBytes ==
  ASSUME NEW B \in [1..DIR_PER_BLK -> Entry], NEW e \in 1..DIR_PER_BLK, NEW sz, NEW c,
         Before(e, sz, c)
  PROVE Laid(B, e, sz, c)
<1>0. sz = NAME_LEN + 2 /\ c = (e - 1) * sz
  BY DEF Before
<1>1. sz \in Nat /\ sz > 2 /\ DIR_PER_BLK \in Nat
  BY <1>0, Format
<1>2. PICK all : all = DIR_PER_BLK * sz
  OBVIOUS
<1>3. all \in Nat
  BY <1>0, <1>1, <1>2
<1>4. PICK mem : mem = P!Memory(B)
  OBVIOUS
<1>5. mem = [a \in 1..all |-> P!Bytes(B[(a - 1) \div sz + 1])[((a - 1) % sz) + 1]]
  BY <1>0, <1>2, <1>4 DEF P!Memory
<1>6. ASSUME NEW a \in 1..all PROVE mem[a] \in Nat
  <2>2. a - 1 \in Nat
    BY <1>3
  <2>0. PICK z \in Nat : z = a - 1
    BY <2>2
  <2>8. \E u, v \in Nat : u = z \div sz /\ v = z % sz /\ v < sz /\ z = sz * u + v
    <3>1. sz \in Nat /\ sz > 0
      BY <1>0, <1>1
    <3> QED BY <3>1, Divided, Zenon
  <2>1. PICK u, v \in Nat : u = (a - 1) \div sz /\ v = (a - 1) % sz /\ v < sz
                             /\ a - 1 = sz * u + v
    BY <2>0, <2>8
  <2>3. u \in Nat /\ v \in Nat /\ v < sz /\ a - 1 = sz * u + v
    BY <2>1
  <2>4. u < DIR_PER_BLK
    <3> SUFFICES ASSUME u >= DIR_PER_BLK PROVE FALSE
      BY <2>3, <1>1
    <3>1. sz * u >= sz * DIR_PER_BLK
      BY <2>3, <1>1
    <3>2. PICK y : y = sz * u
      OBVIOUS
    <3>3. y \in Nat /\ y >= all
      BY <3>1, <3>2, <1>1, <1>2, <2>3
    <3> QED BY <3>2, <3>3, <2>3, <1>3
  <2>5. u + 1 \in 1..DIR_PER_BLK /\ v + 1 \in 1..sz
    BY <2>3, <2>4, <1>0, <1>1
  <2>6. P!Bytes(B[u + 1]) \in Seq(Nat) /\ Len(P!Bytes(B[u + 1])) = sz
    BY <1>0, <2>5, EntryBytes
  <2>7. P!Bytes(B[u + 1])[v + 1] \in Nat
    BY <2>5, <2>6
  <2> QED BY <2>1, <2>7, <1>5
<1>7. mem \in [1..all -> Nat]
  BY <1>5, <1>6
<1>8. Len(mem) = all
  BY <1>3, <1>7
<1>9. c \in Nat
  <2>1. e - 1 \in Nat
    BY <1>0, <1>1
  <2> QED BY <2>1, <1>0, <1>1
<1>10. c + sz <= all
  <2>1. e * sz <= DIR_PER_BLK * sz
    BY <1>0, <1>1
  <2>2. (e - 1) * sz + sz = e * sz
    BY <1>0, <1>1
  <2> QED BY <1>0, <2>1, <2>2, <1>2
<1>11. ASSUME NEW i \in 1..NAME_LEN PROVE mem[c + 2 + i] = Text(B[e], i)
  <2>1. PICK a : a = c + 2 + i
    OBVIOUS
  <2>2. i + 1 \in Nat /\ i + 1 < sz
    BY <1>0, Format
  <2>3. a \in 1..all /\ a - 1 = c + (i + 1)
    BY <2>1, <2>2, <1>0, <1>1, <1>3, <1>9, <1>10, Format
  <2>4. (a - 1) \div sz = e - 1 /\ (a - 1) % sz = i + 1
    <3>1. PICK h : h = e - 1
      OBVIOUS
    <3>2. PICK r : r = i + 1
      OBVIOUS
    <3>3. h \in Nat /\ r \in Nat /\ r < sz /\ c = sz * h
      BY <3>1, <3>2, <2>2, <1>0, <1>1
    <3>5. PICK x : x = a - 1
      OBVIOUS
    <3>6. x = sz * h + r
      BY <3>2, <3>3, <3>5, <2>3
    <3>4. x \div sz = h /\ x % sz = r
      <4>1. sz \in Nat /\ sz > 0
        BY <1>0, <1>1
      <4>2. h \in Nat /\ r \in Nat /\ r < sz /\ x = sz * h + r
        BY <3>3, <3>6
      <4> QED BY <4>1, <4>2, Quotient
    <3> QED BY <3>1, <3>2, <3>5, <3>4
  <2>5. e - 1 + 1 = e /\ i + 1 + 1 = i + 2
    BY <1>0, <1>1, Format
  <2>6. mem[a] = P!Bytes(B[e])[i + 2]
    BY <2>3, <2>4, <2>5, <1>5
  <2> QED BY <2>1, <2>6, EntryBytes
<1> QED BY <1>4, <1>3, <1>8, <1>9, <1>10, <1>11 DEF Laid

\* A name and the bytes of an entry agree as far as a name may reach.
Alike(src, x) == \A i \in 1..(Len(src) + 1) : i <= NAME_LEN => Append(src, 0)[i] = Text(x, i)

\* The characters of a name with its end.
LEMMA Ended ==
  ASSUME NEW src \in Seq(Chars)
  PROVE /\ Len(Append(src, 0)) = Len(src) + 1 /\ Append(src, 0)[Len(src) + 1] = 0
        /\ \A i \in 1..Len(src) : Append(src, 0)[i] = src[i] /\ src[i] \in Nat /\ src[i] # 0
<1>1. \A i \in 1..Len(src) : src[i] \in Chars
  OBVIOUS
<1>2. src \in Seq(Nat)
  <2>1. \A i \in 1..Len(src) : src[i] \in Nat
    BY <1>1, Format
  <2> QED BY <2>1
<1>3. 0 \in Nat
  OBVIOUS
<1>4. /\ Len(Append(src, 0)) = Len(src) + 1 /\ Append(src, 0)[Len(src) + 1] = 0
      /\ \A i \in 1..Len(src) : Append(src, 0)[i] = src[i]
  BY <1>2, <1>3, Appended
<1> QED BY <1>1, <1>4, Format

\* Names that agree are the same name.
LEMMA AlikeSame ==
  ASSUME NEW src \in Seq(Chars), NEW x \in Entry, Len(src) <= NAME_LEN, Len(x.name) <= NAME_LEN
  PROVE Alike(src, x) <=> x.name = src
<1>1. PICK y, l, n : y = x.name /\ l = Len(src) /\ n = Len(y)
  OBVIOUS
<1>2. y \in Seq(Chars) /\ l \in Nat /\ n \in Nat /\ l <= NAME_LEN /\ n <= NAME_LEN
  BY <1>1 DEF Entry
<1>3. \A i : Text(x, i) = IF i <= n THEN y[i] ELSE 0
  BY <1>1 DEF Text
<1>4. /\ Append(src, 0)[l + 1] = 0
      /\ \A i \in 1..l : Append(src, 0)[i] = src[i] /\ src[i] \in Nat /\ src[i] # 0
  BY <1>1, Ended
<1>5. \A i \in 1..n : y[i] \in Nat /\ y[i] # 0
  BY <1>1, <1>2, Ended
<1>6. ASSUME y = src PROVE Alike(src, x)
  <2> SUFFICES ASSUME NEW i \in 1..(l + 1), i <= NAME_LEN PROVE Append(src, 0)[i] = Text(x, i)
    BY <1>1 DEF Alike
  <2>1. CASE i \in 1..l
    BY <2>1, <1>1, <1>2, <1>3, <1>4, <1>6
  <2>2. CASE i = l + 1
    <3>1. ~(i <= n)
      BY <2>2, <1>1, <1>2, <1>6
    <3> QED BY <3>1, <2>2, <1>3, <1>4
  <2>3. i \in 1..l \/ i = l + 1
    BY <1>2
  <2> QED BY <2>1, <2>2, <2>3, Zenon
<1>7. ASSUME Alike(src, x) PROVE y = src
  <2>1. \A i \in 1..l : i <= n /\ y[i] = src[i]
    <3> TAKE i \in 1..l
    <3>1. i \in 1..(l + 1) /\ i <= NAME_LEN
      BY <1>2, Format
    <3>2. src[i] = Text(x, i)
      BY <3>1, <1>1, <1>4, <1>7 DEF Alike
    <3> QED BY <3>2, <1>3, <1>4
  <2>2. n <= l
    <3> SUFFICES ASSUME l < n PROVE FALSE
      BY <1>2
    <3>1. l + 1 \in 1..(l + 1) /\ l + 1 <= NAME_LEN /\ l + 1 \in 1..n
      BY <1>2, Format
    <3>2. 0 = Text(x, l + 1)
      BY <3>1, <1>1, <1>4, <1>7 DEF Alike
    <3>3. Text(x, l + 1) = y[l + 1]
      BY <3>1, <1>3
    <3> QED BY <3>1, <3>2, <3>3, <1>5
  <2>3. l <= n
    <3>1. CASE l = 0
      BY <3>1, <1>2
    <3>2. CASE l # 0
      <4>1. l \in 1..l
        BY <3>2, <1>2
      <4> QED BY <4>1, <2>1
    <3> QED BY <3>1, <3>2
  <2>4. n = l
    BY <2>2, <2>3, <1>2
  <2> QED BY <2>1, <2>4, <1>1, <1>2, SeqEqual
<1> QED BY <1>1, <1>6, <1>7

\* strcmp: a name is found only where it is, and is missed only where it fills its
\* field.
LEMMA Strcmp ==
  ASSUME NEW B \in [1..DIR_PER_BLK -> Entry], NEW e \in 1..DIR_PER_BLK,
         NEW src \in Seq(Chars), Len(src) <= NAME_LEN, Len(B[e].name) <= NAME_LEN,
         NEW a, a = (e - 1) * (NAME_LEN + 2) + 3
  PROVE /\ TRUE \in P!strcmp(src, P!Memory(B), a) => B[e].name = src
        /\ FALSE \in P!strcmp(src, P!Memory(B), a) /\ Len(src) < NAME_LEN => B[e].name # src
        /\ P!strcmp(src, P!Memory(B), a) \subseteq BOOLEAN
<1>1. PICK x, l, s, mem : x = B[e] /\ l = Len(src) /\ s = Append(src, 0) /\ mem = P!Memory(B)
  OBVIOUS
<1>2. PICK sz, c : sz = NAME_LEN + 2 /\ c = (e - 1) * sz
  OBVIOUS
<1>3. /\ c \in Nat /\ Len(mem) \in Nat /\ c + sz <= Len(mem)
      /\ \A i \in 1..NAME_LEN : mem[c + 2 + i] = Text(x, i)
  <2>1. Before(e, sz, c)
    BY <1>2 DEF Before
  <2>2. Laid(B, e, sz, c)
    BY <2>1, BlockBytes
  <2> QED BY <2>2, <1>1, Zenon DEF Laid
<1>4. a = c + 3 /\ l \in Nat /\ x \in Entry
  <2>1. a = c + 3
    BY <1>2, Zenon
  <2>2. l \in Nat
    BY <1>1
  <2>3. x \in Entry
    BY <1>1, Zenon
  <2> QED BY <2>1, <2>2, <2>3
<1>5. Len(s) = l + 1
  BY <1>1, Ended
<1>6. PICK inside : inside = {i \in 1..(l + 1) : a + i - 1 <= Len(mem)}
  OBVIOUS
<1>7. P!strcmp(src, mem, a) =
        IF \E i \in inside : s[i] # mem[a + i - 1] THEN {FALSE}
        ELSE IF inside = 1..(l + 1) THEN {TRUE} ELSE BOOLEAN
  BY <1>1, <1>5, <1>6 DEF P!strcmp
<1>8. \A i \in 1..(l + 1) : i <= NAME_LEN => i \in inside /\ mem[a + i - 1] = Text(x, i)
  <2> SUFFICES ASSUME NEW i \in 1..(l + 1), i <= NAME_LEN
               PROVE i \in inside /\ mem[a + i - 1] = Text(x, i)
    OBVIOUS
  <2>1. i \in 1..NAME_LEN /\ a + i - 1 = c + 2 + i
    BY <1>3, <1>4, Format
  <2>2. c + 2 + i <= Len(mem)
    BY <2>1, <1>2, <1>3, Format
  <2> QED BY <2>1, <2>2, <1>3, <1>6
<1>9. Alike(src, x) <=> x.name = src
  BY <1>1, <1>4, AlikeSame
<1>10. ASSUME TRUE \in P!strcmp(src, mem, a) PROVE x.name = src
  <2>1. \A i \in inside : s[i] = mem[a + i - 1]
    BY <1>7, <1>10
  <2>2. Alike(src, x)
    BY <2>1, <1>1, <1>8 DEF Alike
  <2> QED BY <2>2, <1>9
<1>11. ASSUME FALSE \in P!strcmp(src, mem, a), l < NAME_LEN PROVE x.name # src
  <2>1. \A i \in 1..(l + 1) : i <= NAME_LEN
    BY <1>4, <1>11, Format
  <2>2. inside = 1..(l + 1)
    BY <2>1, <1>8, <1>6
  <2>3. PICK i \in inside : s[i] # mem[a + i - 1]
    BY <2>2, <1>7, <1>11
  <2>4. ~Alike(src, x)
    BY <2>1, <2>2, <2>3, <1>1, <1>8 DEF Alike
  <2> QED BY <2>4, <1>9
<1>12. P!strcmp(src, mem, a) \subseteq BOOLEAN
  BY <1>7
<1> QED BY <1>1, <1>10, <1>11, <1>12

(***************************************************************************)
(* The walk.  What was reached is what the characters behind lead to, and  *)
(* the entries behind do not have the name that is looked up.              *)
(***************************************************************************)
Between(i) == i = 0 \/ path[i] = Slash \/ i = Len(path) \/ path[i + 1] = Slash
EntryAt(d, m) == image[d][(m \div DIR_PER_BLK) + 1][(m % DIR_PER_BLK) + 1]
InTable(d, m) == (m \div DIR_PER_BLK) + 1 <= Len(image[d])
Passed == \/ Len(name) = NAME_LEN
          \/ \A m \in Nat : m < k /\ InTable(dir, m) => EntryAt(dir, m).name # name
Sought == \E j \in 1..pos : P!Component(j, pos) /\ name = SubSeq(path, j, pos)

NInv ==
  /\ walk = "split" => dir = P!After[pos] /\ Between(pos)
  /\ walk = "lookup" => /\ Sought /\ dir = P!After[pos - 1]
                        /\ Len(name) <= NAME_LEN /\ Passed
  /\ NameiExact

\* What is designated depends on the arguments.
LEMMA SameInputs ==
  ASSUME image' = image, cur_dir' = cur_dir, path' = path
  PROVE /\ P!After' = P!After /\ P!Designated' = P!Designated /\ P!Missed' = P!Missed
        /\ \A j, i : P!Component(j, i)' = P!Component(j, i)
        /\ \A i : Between(i)' = Between(i)
        /\ \A d, m : EntryAt(d, m)' = EntryAt(d, m) /\ InTable(d, m)' = InTable(d, m)
<1>1. P!After' = P!After
  BY SMT DEF P!After, P!Step, P!Under, P!Entries, P!Component
<1>2. P!Designated' = P!Designated
  BY <1>1, Zenon DEF P!Designated
<1>3. P!Missed' = P!Missed
  BY SMT DEF P!Missed, P!Component, P!Entries
<1>4. \A j, i : P!Component(j, i)' = P!Component(j, i)
  BY Zenon DEF P!Component
<1>5. \A i : Between(i)' = Between(i)
  BY Zenon DEF Between
<1>6. \A d, m : EntryAt(d, m)' = EntryAt(d, m) /\ InTable(d, m)' = InTable(d, m)
  BY Zenon DEF EntryAt, InTable
<1> QED BY <1>1, <1>2, <1>3, <1>4, <1>5, <1>6, Zenon

\* Number m is entry e of block b.
Numbered(m, b, e) == b = (m \div DIR_PER_BLK) + 1 /\ e = (m % DIR_PER_BLK) + 1

\* The entries of a directory, by their numbers.
LEMMA EntryIn ==
  ASSUME image \in Images, NEW d \in DOMAIN image, NEW m \in Nat, InTable(d, m),
         NEW b, NEW e, Numbered(m, b, e)
  PROVE /\ b \in 1..Len(image[d]) /\ e \in 1..DIR_PER_BLK
        /\ image[d][b] \in [1..DIR_PER_BLK -> Entry]
        /\ EntryAt(d, m) \in P!Entries(d) /\ EntryAt(d, m) = image[d][b][e]
<1>1. PICK D, t : D = DIR_PER_BLK /\ t = image[d]
  OBVIOUS
<1>2. D \in Nat /\ D > 0 /\ t \in Seq([1..D -> Entry])
  BY <1>1, ImageFacts DEF Entry
<1>3. PICK u, v \in Nat : u = m \div D /\ v = m % D /\ v < D
  BY <1>2, Divided, Zenon
<1>4. b = u + 1 /\ e = v + 1 /\ b <= Len(t)
  BY <1>1, <1>3 DEF InTable, Numbered
<1>5. b \in 1..Len(t) /\ e \in 1..D
  BY <1>2, <1>3, <1>4
<1>6. t[b] \in [1..D -> Entry]
  BY <1>2, <1>5
<1>7. EntryAt(d, m) = t[b][e]
  BY <1>1, Zenon DEF EntryAt, Numbered
<1>8. t[b][e] \in P!Range(t[b]) /\ b \in DOMAIN t
  BY <1>2, <1>5, <1>6 DEF P!Range
<1>9. t[b][e] \in P!Entries(d)
  BY <1>1, <1>8, Zenon DEF P!Entries
<1> QED BY <1>1, <1>5, <1>6, <1>7, <1>9

\* Every entry has a number.
LEMMA EntryNumber ==
  ASSUME image \in Images, NEW d \in DOMAIN image, NEW x \in P!Entries(d)
  PROVE /\ x \in Entry /\ Len(x.name) <= NAME_LEN
        /\ \E m \in Nat : /\ x = EntryAt(d, m) /\ InTable(d, m)
                          /\ (m \div DIR_PER_BLK) + 1 \in 1..Len(image[d])
<1>1. PICK D, t : D = DIR_PER_BLK /\ t = image[d]
  OBVIOUS
<1>2. D \in Nat /\ D > 0 /\ t \in Seq([1..D -> Entry])
  BY <1>1, ImageFacts DEF Entry
<1>3. PICK b \in DOMAIN t : x \in P!Range(t[b])
  BY <1>1, Zenon DEF P!Entries
<1>4. b \in 1..Len(t) /\ t[b] \in [1..D -> Entry] /\ Len(t) \in Nat
  BY <1>2, <1>3
<1>5. PICK e \in 1..D : x = t[b][e]
  BY <1>3, <1>4 DEF P!Range
<1>6. x \in Entry
  BY <1>4, <1>5
<1>7. Len(x.name) <= NAME_LEN
  <2>1. \A im \in Images : \A y \in DOMAIN im : \A c \in DOMAIN im[y] :
          \A z \in P!Range(im[y][c]) : Len(z.name) <= NAME_LEN
    BY MinixFsAssumption, Zenon DEF P!PathWalkConstants
  <2> QED BY <2>1, <1>1, <1>3, Zenon
<1>8. PICK u, v \in Nat : u = b - 1 /\ v = e - 1
  BY <1>2, <1>4
<1>9. PICK m : m = D * u + v
  OBVIOUS
<1>10. v < D /\ u + 1 = b /\ v + 1 = e
  BY <1>2, <1>4, <1>8
<1>11. m \in Nat
  <2>1. D * u \in Nat
    BY <1>2
  <2> QED BY <2>1, <1>9
<1>12. m \div D = u /\ m % D = v
  BY <1>2, <1>9, <1>10, Quotient
<1>13. x = EntryAt(d, m)
  BY <1>1, <1>5, <1>10, <1>12 DEF EntryAt
<1>14. InTable(d, m) /\ (m \div D) + 1 \in 1..Len(t)
  BY <1>1, <1>4, <1>10, <1>12 DEF InTable
<1> QED BY <1>1, <1>6, <1>7, <1>11, <1>13, <1>14

\* An entry in use leads to its inode.
LEMMA StepTo ==
  ASSUME P!TidyImages, image \in Images, NEW d \in DOMAIN image, NEW x \in P!Entries(d), x.inode # 0
  PROVE P!Step(d, x.name) = x.inode
<1>1. \A y, z \in P!Entries(d) : y.inode # 0 /\ z.inode # 0 /\ y.name = z.name => y = z
  <2>1. PICK used : used = {e \in UNION {P!Range(image[d][b]) : b \in DOMAIN image[d]} : e.inode # 0}
    OBVIOUS
  <2>2. /\ [inode |-> d, name |-> <<Dot>>] \in used
        /\ \A e, f \in used : e.name = f.name => e = f
    BY <2>1 DEF P!TidyImages
  <2> QED BY <2>1, <2>2, Zenon DEF P!Entries
<1>2. P!Under(d, x.name) = {x.inode}
  <2>1. x.inode \in P!Under(d, x.name)
    BY DEF P!Under
  <2>2. ASSUME NEW i \in P!Under(d, x.name) PROVE i = x.inode
    <3>1. PICK y \in P!Entries(d) : y.name = x.name /\ y.inode # 0 /\ i = y.inode
      BY DEF P!Under
    <3> QED BY <3>1, <1>1, Zenon
  <2> QED BY <2>1, <2>2
<1> QED BY <1>2 DEF P!Step

\* A name that no entry in use has leads nowhere.
LEMMA StepNull ==
  ASSUME NEW d, NEW n, \A x \in P!Entries(d) : x.inode # 0 => x.name # n
  PROVE P!Step(d, n) = NULL
<1>1. P!Under(d, n) = {}
  BY DEF P!Under
<1> QED BY <1>1 DEF P!Step

\* "." leads to the directory itself.
LEMMA StepDot ==
  ASSUME P!TidyImages, image \in Images, NEW d \in DOMAIN image
  PROVE P!Step(d, <<Dot>>) = d
<1>1. PICK x : x = [inode |-> d, name |-> <<Dot>>]
  OBVIOUS
<1>2. x \in P!Entries(d) /\ x.inode # 0
  <2>1. PICK used : used = {e \in UNION {P!Range(image[d][b]) : b \in DOMAIN image[d]} : e.inode # 0}
    OBVIOUS
  <2>2. x \in used
    BY <1>1, <2>1, Zenon DEF P!TidyImages
  <2> QED BY <2>1, <2>2, Zenon DEF P!Entries
<1>3. x.inode = d /\ x.name = <<Dot>>
  BY <1>1
<1> QED BY <1>2, <1>3, StepTo

\* namei begins: "./" at the beginning leads to the current directory itself.
LEMMA StartExact ==
  ASSUME P!TidyImages, PInv, P!Start
  PROVE NInv'
<1>1. PICK first, skip :
        /\ first = IF path # << >> /\ path[1] = Slash THEN Root ELSE cur_dir
        /\ skip = IF Len(path) > 1 /\ path[1] = Dot /\ path[2] = Slash THEN 2 ELSE 0
  OBVIOUS
<1>2. /\ walk = "start" /\ dir' = first /\ pos' = skip
      /\ walk' = (IF first = NULL THEN "done" ELSE "split")
      /\ image' = image /\ cur_dir' = cur_dir /\ path' = path
  BY <1>1, Zenon DEF P!Start, P!inputs
<1>3. path \in Seq(Chars) /\ image \in Images /\ cur_dir \in {NULL} \cup DOMAIN image
  BY DEF PInv
<1>4. NULL \notin DOMAIN image /\ Len(path) \in Nat
  BY <1>3, ImageFacts
<1>5. first = P!After[0]
  BY <1>1, <1>3, AfterIs DEF From
<1>6. CASE first = NULL
  <2>1. 0 \in Nat /\ 0 <= Len(path)
    BY <1>4
  <2>2. P!Designated = NULL
    BY <2>1, <1>3, <1>4, <1>5, <1>6, AfterNull
  <2>3. P!Designated' = P!Designated
    BY <1>2, SameInputs
  <2> QED BY <2>2, <2>3, <1>2, <1>6 DEF NInv, NameiExact, P!NameiExact
<1>7. CASE first # NULL
  <2>1. first = P!After[skip] /\ Between(skip)
    <3>1. CASE skip = 0
      BY <3>1, <1>5 DEF Between
    <3>2. CASE skip # 0
      <4>1. skip = 2 /\ Len(path) > 1 /\ path[1] = Dot /\ path[2] = Slash
        BY <3>2, <1>1
      <4>2. first = cur_dir /\ cur_dir \in DOMAIN image
        BY <4>1, <1>1, <1>3, <1>7, Format
      <4>3. P!Component(1, 1)
        BY <4>1, <1>4, Format DEF P!Component
      <4>4. SubSeq(path, 1, 1) = <<Dot>>
        <5>1. /\ SubSeq(path, 1, 1) \in Seq(Chars) /\ Len(SubSeq(path, 1, 1)) = 1
              /\ SubSeq(path, 1, 1)[1] = Dot
          BY <4>1, <1>3, <1>4, SubSeqProperties
        <5>2. <<Dot>> \in Seq(Chars) /\ Len(<<Dot>>) = 1 /\ <<Dot>>[1] = Dot
          BY Format
        <5>3. PICK u, v : u = SubSeq(path, 1, 1) /\ v = <<Dot>>
          OBVIOUS
        <5>4. \A i \in 1..Len(u) : u[i] = v[i]
          <6> SUFFICES ASSUME NEW i \in 1..Len(u) PROVE u[i] = v[i]
            OBVIOUS
          <6>1. i = 1
            BY <5>1, <5>3
          <6> QED BY <6>1, <5>1, <5>2, <5>3
        <5>5. u \in Seq(Chars) /\ v \in Seq(Chars) /\ Len(u) = Len(v)
          BY <5>1, <5>2, <5>3
        <5>6. u = v
          BY <5>4, <5>5, SeqEqual, Zenon
        <5> QED BY <5>3, <5>6
      <4>5. P!After[1] = P!Step(P!After[0], SubSeq(path, 1, 1))
        <5>1. 1 \in 1..Len(path) /\ 1 \in 1..1 /\ 1 - 1 = 0
          BY <4>1, <1>4
        <5> QED BY <5>1, <4>3, <1>3, OneComponent
      <4>6. P!After[1] = first
        BY <4>2, <4>4, <4>5, <1>3, <1>5, StepDot
      <4>7. P!After[2] = P!After[1]
        <5>1. ASSUME NEW i \in (1 + 1)..2, NEW j \in 1..i PROVE ~P!Component(j, i)
          <6>1. i = 2 /\ 2 \in j..i
            OBVIOUS
          <6> QED BY <6>1, <4>1 DEF P!Component
        <5> QED BY <5>1, <4>1, <1>3, <1>4, AfterSame
      <4> QED BY <4>1, <4>6, <4>7 DEF Between
    <3> QED BY <3>1, <3>2
  <2>2. P!After' = P!After
    BY <1>2, SameInputs
  <2>3. dir' = P!After'[pos'] /\ Between(pos)'
    BY <2>1, <2>2, <1>2 DEF Between
  <2> QED BY <2>3, <1>2, <1>7 DEF NInv, NameiExact, P!NameiExact
<1> QED BY <1>6, <1>7

\* The next part of the path from p on: slashes up to o, and a component up to q.
Part(p, o, q, N) ==
  /\ o \in Nat /\ q \in Nat /\ p <= o /\ o <= q /\ q <= N
  /\ \A i \in (p + 1)..o : path[i] = Slash
  /\ \A i \in (o + 1)..q : path[i] # Slash
  /\ q = N \/ path[q + 1] = Slash
  /\ o = q => q = N

\* path_len finds the next part.
LEMMA FindsPart ==
  ASSUME path \in Seq(Chars), NEW p \in Nat, p <= Len(path), NEW N, N = Len(path),
         NEW s, s = SubSeq(path, p + 1, N), NEW l, l = P!path_len(s)
  PROVE /\ l.offset \in Nat /\ l.len \in Nat
        /\ Part(p, p + l.offset, p + l.offset + l.len, N)
<1>1. N \in Nat
  OBVIOUS
<1>2. PICK L, o, n : L = Len(s) /\ o = l.offset /\ n = l.len
  OBVIOUS
<1>3. s \in Seq(Chars) /\ L = N - p /\ \A i \in 1..L : s[i] = path[p + i]
  BY <1>1, <1>2, SubSeqProperties
<1>12. Split(s, l)
  <2>1. s \in Seq(Chars)
    BY <1>3
  <2> QED BY <2>1, PathLen
<1>4. /\ \A i \in (o + 1)..(o + n) : s[i] # Slash
      /\ \A i \in 1..o : s[i] = Slash
      /\ o + n = L \/ s[o + n + 1] = Slash
  BY <1>2, <1>12, Zenon DEF Split
<1>5. o \in Nat /\ n \in Nat /\ o + n <= L /\ (n = 0 => o = L)
  BY <1>2, <1>12, Zenon DEF Split
<1>6. L = N - p
  BY <1>3
<1>7. \A i \in (p + 1)..(p + o) : path[i] = Slash
  <2> SUFFICES ASSUME NEW i \in (p + 1)..(p + o) PROVE path[i] = Slash
    OBVIOUS
  <2>1. PICK h : h = i - p
    OBVIOUS
  <2>2. h \in 1..o /\ h \in 1..L /\ p + h = i
    BY <2>1, <1>1, <1>5, <1>6
  <2> QED BY <2>2, <1>3, <1>4
<1>8. \A i \in (p + o + 1)..(p + o + n) : path[i] # Slash
  <2> SUFFICES ASSUME NEW i \in (p + o + 1)..(p + o + n) PROVE path[i] # Slash
    OBVIOUS
  <2>1. PICK h : h = i - p
    OBVIOUS
  <2>2. h \in (o + 1)..(o + n) /\ h \in 1..L /\ p + h = i
    BY <2>1, <1>1, <1>5, <1>6
  <2> QED BY <2>2, <1>3, <1>4
<1>9. p + o + n = N \/ path[p + o + n + 1] = Slash
  <2>1. CASE o + n = L
    BY <2>1, <1>1, <1>5, <1>6
  <2>2. CASE o + n # L
    <3>1. PICK h : h = o + n + 1
      OBVIOUS
    <3>2. h \in 1..L /\ p + h = p + o + n + 1
      BY <3>1, <2>2, <1>1, <1>5, <1>6
    <3>3. s[h] = Slash
      BY <3>1, <2>2, <1>4
    <3> QED BY <3>2, <3>3, <1>3
  <2> QED BY <2>1, <2>2
<1>10. /\ p + o \in Nat /\ p + o + n \in Nat /\ p <= p + o /\ p + o <= p + o + n
       /\ p + o + n <= N /\ (p + o = p + o + n => p + o + n = N)
  BY <1>1, <1>5, <1>6
<1>11. Part(p, p + o, p + o + n, N)
  BY <1>7, <1>8, <1>9, <1>10 DEF Part
<1> QED BY <1>2, <1>5, <1>11

\* The next part is a component, or nothing but slashes is left.
LEMMA NextPart ==
  ASSUME path \in Seq(Chars), NEW N, N = Len(path), NEW p \in Nat, Between(p),
         NEW o, NEW q, Part(p, o, q, N)
  PROVE /\ o = q => P!Designated = P!After[p]
        /\ o # q => /\ o + 1 \in 1..q /\ P!Component(o + 1, q) /\ P!After[q - 1] = P!After[p]
<1>1. N \in Nat
  OBVIOUS
<1>2. o \in Nat /\ q \in Nat /\ p <= o /\ o <= q /\ q <= N
  BY DEF Part
<1>3. /\ \A i \in (p + 1)..o : path[i] = Slash
      /\ \A i \in (o + 1)..q : path[i] # Slash
      /\ q = N \/ path[q + 1] = Slash
      /\ o = q => q = N
  BY DEF Part
<1>4. ASSUME o = q PROVE P!Designated = P!After[p]
  <2>1. o = N /\ p <= N
    BY <1>2, <1>3, <1>4
  <2>2. ASSUME NEW i \in (p + 1)..N, NEW h \in 1..i PROVE ~P!Component(h, i)
    <3>1. path[i] = Slash /\ i \in h..i
      BY <2>1, <1>1, <1>3
    <3> QED BY <3>1 DEF P!Component
  <2>3. P!After[N] = P!After[p]
    <3>1. N <= Len(path) /\ p <= N
      BY <2>1, <1>1
    <3> QED BY <3>1, <2>2, <1>1, AfterSame, Zenon
  <2> QED BY <2>3 DEF P!Designated
<1>5. ASSUME o # q PROVE o + 1 \in 1..q /\ P!Component(o + 1, q) /\ P!After[q - 1] = P!After[p]
  <2>0. PICK j : j = o + 1
    OBVIOUS
  <2>1. j \in 1..q /\ j \in j..q /\ q \in j..q
    BY <2>0, <1>2, <1>5
  <2>2. j = 1 \/ path[j - 1] = Slash
    <3>1. CASE o = p
      <4>1. path[p + 1] # Slash /\ p # N /\ j - 1 = p
        BY <3>1, <2>0, <2>1, <1>1, <1>2, <1>3
      <4> QED BY <4>1, <3>1, <2>0 DEF Between
    <3>2. CASE o # p
      <4>1. j - 1 \in (p + 1)..o
        BY <3>2, <2>0, <1>2
      <4> QED BY <4>1, <1>3
    <3> QED BY <3>1, <3>2
  <2>3. P!Component(j, q)
    BY <2>0, <2>2, <1>3 DEF P!Component
  <2>4. PICK r : r = q - 1
    OBVIOUS
  <2>5. r \in Nat /\ p <= r /\ r <= Len(path)
    BY <2>4, <1>1, <1>2, <1>5
  <2>6. ASSUME NEW i \in (p + 1)..r, NEW h \in 1..i PROVE ~P!Component(h, i)
    <3> SUFFICES ASSUME P!Component(h, i) PROVE FALSE
      OBVIOUS
    <3>1. i \in h..i
      BY <2>5
    <3>2. path[i] # Slash /\ (i = N \/ path[i + 1] = Slash)
      BY <3>1 DEF P!Component
    <3>3. CASE i <= o
      <4>1. i \in (p + 1)..o
        BY <3>3, <1>2
      <4> QED BY <4>1, <3>2, <1>3
    <3>4. CASE ~(i <= o)
      <4>1. i + 1 \in (o + 1)..q /\ i # N
        BY <3>4, <2>4, <2>5, <1>1, <1>2
      <4> QED BY <4>1, <3>2, <1>3
    <3> QED BY <3>3, <3>4
  <2>7. P!After[r] = P!After[p]
    BY <2>5, <2>6, AfterSame
  <2> QED BY <2>0, <2>1, <2>3, <2>4, <2>7
<1> QED BY <1>4, <1>5

\* The next component is looked up in the directory that was reached; no entry has
\* a name that is too long.
LEMMA NameExact ==
  ASSUME PInv, NInv, P!NextName
  PROVE NInv'
<1>1. PICK s, l : s = SubSeq(path, pos + 1, Len(path)) /\ l = P!path_len(s)
  OBVIOUS
<1>2. PICK o, n : o = l.offset /\ n = l.len
  OBVIOUS
<1>3. /\ walk = "split" /\ image' = image /\ cur_dir' = cur_dir /\ path' = path
      /\ IF n = 0
         THEN walk' = "done" /\ dir' = dir
         ELSE /\ name' = SubSeq(path, pos + o + 1, pos + o + n)
              /\ pos' = pos + o + n
              /\ k' = 0
              /\ IF dir \notin DOMAIN image THEN walk' = "null_call" /\ dir' = dir
                 ELSE IF Len(name') > NAME_LEN THEN walk' = "done" /\ dir' = NULL
                 ELSE walk' = "lookup" /\ dir' = dir
  BY <1>1, <1>2, Zenon DEF P!NextName, P!strlen, P!inputs
<1>4. /\ path \in Seq(Chars) /\ Len(path) \in Nat /\ pos \in Nat /\ pos <= Len(path)
      /\ image \in Images
  BY DEF PInv
<1>5. dir = P!After[pos] /\ Between(pos)
  BY <1>3 DEF NInv
<1>6. PICK p, j, q, u : p = pos /\ u = p + o /\ j = u + 1 /\ q = u + n
  OBVIOUS
<1>13. o \in Nat /\ n \in Nat /\ Part(p, u, q, Len(path))
  BY <1>1, <1>2, <1>4, <1>6, FindsPart
<1>14. u \in Nat /\ q \in Nat /\ q <= Len(path) /\ (n = 0 <=> u = q)
  <2>1. u \in Nat /\ q \in Nat /\ q <= Len(path)
    BY <1>13 DEF Part
  <2> QED BY <2>1, <1>6, <1>13
<1>15. /\ u = q => P!Designated = P!After[p]
       /\ u # q => /\ u + 1 \in 1..q /\ P!Component(u + 1, q) /\ P!After[q - 1] = P!After[p]
  BY <1>4, <1>5, <1>6, <1>13, NextPart
<1>7. /\ o \in Nat /\ n \in Nat /\ q \in Nat /\ q <= Len(path)
      /\ n = 0 => P!Designated = P!After[p]
      /\ n # 0 => /\ j \in 1..q /\ P!Component(j, q) /\ P!After[q - 1] = P!After[p]
  BY <1>6, <1>13, <1>14, <1>15, Zenon
<1>8. P!Designated' = P!Designated /\ P!After' = P!After
      /\ \A h, i : P!Component(h, i)' = P!Component(h, i)
  BY <1>3, SameInputs
<1>9. CASE n = 0
  BY <1>3, <1>5, <1>6, <1>7, <1>8, <1>9 DEF NInv, NameiExact, P!NameiExact
<1>10. CASE n # 0 /\ dir \notin DOMAIN image
  BY <1>3, <1>10 DEF NInv, NameiExact, P!NameiExact
<1>11. CASE n # 0 /\ dir \in DOMAIN image /\ Len(name') > NAME_LEN
  <2>1. name' = SubSeq(path, j, q) /\ walk' = "done" /\ dir' = NULL
    BY <1>3, <1>6, <1>11
  <2>2. P!After[q] = P!Step(P!After[q - 1], SubSeq(path, j, q))
    BY <1>4, <1>7, <1>11, OneComponent
  <2>3. \A x \in P!Entries(dir) : x.inode # 0 => x.name # SubSeq(path, j, q)
    <3> SUFFICES ASSUME NEW x \in P!Entries(dir), x.name = SubSeq(path, j, q) PROVE FALSE
      OBVIOUS
    <3>1. Len(x.name) <= NAME_LEN /\ x \in Entry
      BY <1>4, <1>11, EntryNumber
    <3>2. x.name \in Seq(Chars)
      BY <3>1 DEF Entry
    <3>3. Len(x.name) \in Nat
      BY <3>2
    <3>4. Len(x.name) > NAME_LEN
      BY <2>1, <1>11
    <3>5. PICK w : w = Len(x.name)
      OBVIOUS
    <3>6. w \in Nat /\ w <= NAME_LEN /\ w > NAME_LEN
      BY <3>1, <3>3, <3>4, <3>5
    <3> QED BY <3>6, Format
  <2>4. P!After[q] = NULL
    BY <2>2, <2>3, <1>5, <1>6, <1>7, <1>11, StepNull
  <2>5. NULL \notin DOMAIN image
    BY <1>4, ImageFacts
  <2>6. P!Designated = NULL
    BY <2>4, <2>5, <1>4, <1>7, AfterNull
  <2> QED BY <2>1, <2>6, <1>8 DEF NInv, NameiExact, P!NameiExact
<1>12. CASE n # 0 /\ dir \in DOMAIN image /\ ~(Len(name') > NAME_LEN)
  <2>1. /\ name' = SubSeq(path, j, q) /\ walk' = "lookup" /\ dir' = dir /\ pos' = q /\ k' = 0
    BY <1>3, <1>6, <1>12
  <2>2. Sought'
    BY <2>1, <1>3, <1>7, <1>8, <1>12 DEF Sought
  <2>3. dir' = P!After'[pos' - 1]
    BY <2>1, <1>5, <1>6, <1>7, <1>8, <1>12
  <2>4. Len(name') <= NAME_LEN
    <3>1. SubSeq(path, j, q) \in Seq(Chars)
      BY <1>4, <1>7, <1>12, SubSeqProperties
    <3>2. Len(name') \in Nat
      BY <2>1, <3>1
    <3> QED BY <3>2, <1>12, Format
  <2>5. Passed'
    BY <2>1 DEF Passed
  <2> QED BY <2>1, <2>2, <2>3, <2>4, <2>5 DEF NInv, NameiExact, P!NameiExact
<1> QED BY <1>9, <1>10, <1>11, <1>12

\* A smaller number has no larger quotient.
LEMMA QuotientUp ==
  ASSUME NEW s \in Nat, s > 0, NEW x \in Nat, NEW y \in Nat, x <= y
  PROVE x \div s <= y \div s
<1>1. PICK u, v \in Nat : u = x \div s /\ v = x % s /\ v < s /\ x = s * u + v
  BY Divided, Zenon
<1>2. PICK t, w \in Nat : t = y \div s /\ w = y % s /\ w < s /\ y = s * t + w
  BY Divided, Zenon
<1>3. u <= t
  <2> SUFFICES ASSUME t < u PROVE FALSE
    OBVIOUS
  <2>1. s * (t + 1) <= s * u
    BY <1>1, <1>2
  <2>2. PICK a, b : a = s * t /\ b = s * u
    OBVIOUS
  <2>3. a \in Nat /\ b \in Nat /\ a + s <= b
    BY <2>1, <2>2, <1>1, <1>2
  <2> QED BY <2>2, <2>3, <1>1, <1>2
<1> QED BY <1>1, <1>2, <1>3

\* Where a name is not in the directory, the path leads nowhere; a name that fills
\* its field may be missed.
LEMMA LookupEnd ==
  ASSUME PInv, NInv, walk = "lookup", ~InTable(dir, k)
  PROVE P!Designated = NULL \/ P!Missed
<1>1. /\ path \in Seq(Chars) /\ Len(path) \in Nat /\ pos \in Nat /\ pos <= Len(path)
      /\ image \in Images /\ dir \in DOMAIN image /\ k \in Nat
  BY DEF PInv
<1>2. dir = P!After[pos - 1] /\ Passed
  BY DEF NInv
<1>3. PICK j \in 1..pos : P!Component(j, pos) /\ name = SubSeq(path, j, pos)
  BY DEF NInv, Sought
<1>4. pos \in 1..Len(path)
  BY <1>1, <1>3
<1>5. CASE Len(name) = NAME_LEN
  BY <1>3, <1>4, <1>5 DEF P!Missed
<1>6. CASE Len(name) # NAME_LEN
  <2>1. \A m \in Nat : m < k /\ InTable(dir, m) => EntryAt(dir, m).name # name
    BY <1>2, <1>6 DEF Passed
  <2>2. ASSUME NEW x \in P!Entries(dir) PROVE x.name # name
    <3>1. PICK m \in Nat : x = EntryAt(dir, m) /\ InTable(dir, m)
                           /\ (m \div DIR_PER_BLK) + 1 \in 1..Len(image[dir])
      BY <1>1, EntryNumber
    <3>2. m < k
      <4> SUFFICES ASSUME k <= m PROVE FALSE
        BY <1>1
      <4>1. DIR_PER_BLK \in Nat /\ DIR_PER_BLK > 0
        BY Format
      <4>2. PICK u, v, L : u = k \div DIR_PER_BLK /\ v = m \div DIR_PER_BLK /\ L = Len(image[dir])
        OBVIOUS
      <4>3. u <= v
        BY <4>1, <4>2, <1>1, QuotientUp
      <4>4. u \in Nat /\ v \in Nat
        BY <4>1, <4>2, <1>1, Divided
      <4>5. v + 1 <= L /\ L \in Nat
        <5>1. image[dir] \in Seq([1..DIR_PER_BLK -> Entry])
          BY <1>1, ImageFacts DEF Entry
        <5> QED BY <5>1, <4>2, <4>4, <3>1
      <4>6. ~(u + 1 <= L)
        BY <4>2 DEF InTable
      <4> QED BY <4>3, <4>4, <4>5, <4>6
    <3> QED BY <3>1, <3>2, <2>1
  <2>3. P!After[pos] = P!Step(dir, name)
    BY <1>1, <1>2, <1>3, <1>4, OneComponent
  <2>4. P!Step(dir, name) = NULL
    BY <2>2, StepNull
  <2>5. NULL \notin DOMAIN image
    BY <1>1, ImageFacts
  <2>6. P!Designated = NULL
    BY <2>3, <2>4, <2>5, <1>1, AfterNull
  <2> QED BY <2>6
<1> QED BY <1>5, <1>6

\* An entry with the name: its inode is what the path leads to; or the entry is not
\* in use, and the name may be missed.
LEMMA LookupHit ==
  ASSUME P!TidyImages, PInv, NInv, walk = "lookup", InTable(dir, k), EntryAt(dir, k).name = name
  PROVE /\ EntryAt(dir, k).inode # 0 => EntryAt(dir, k).inode = P!After[pos] /\ Between(pos)
        /\ EntryAt(dir, k).inode = 0 => P!Missed
<1>1. /\ path \in Seq(Chars) /\ Len(path) \in Nat /\ pos \in Nat /\ pos <= Len(path)
      /\ image \in Images /\ dir \in DOMAIN image /\ k \in Nat
  BY DEF PInv
<1>2. dir = P!After[pos - 1]
  BY DEF NInv
<1>3. PICK j \in 1..pos : P!Component(j, pos) /\ name = SubSeq(path, j, pos)
  BY DEF NInv, Sought
<1>4. pos \in 1..Len(path)
  BY <1>1, <1>3
<1>5. EntryAt(dir, k) \in P!Entries(dir)
  <2>1. PICK b, e : Numbered(k, b, e)
    BY DEF Numbered
  <2> QED BY <2>1, <1>1, EntryIn
<1>6. ASSUME EntryAt(dir, k).inode # 0 PROVE EntryAt(dir, k).inode = P!After[pos] /\ Between(pos)
  <2>1. P!After[pos] = P!Step(dir, name)
    BY <1>1, <1>2, <1>3, <1>4, OneComponent
  <2>2. P!Step(dir, name) = EntryAt(dir, k).inode
    BY <1>1, <1>5, <1>6, StepTo
  <2>3. Between(pos)
    BY <1>3 DEF P!Component, Between
  <2> QED BY <2>1, <2>2, <2>3
<1>7. ASSUME EntryAt(dir, k).inode = 0 PROVE P!Missed
  BY <1>1, <1>3, <1>4, <1>5, <1>7 DEF P!Missed
<1> QED BY <1>6, <1>7

\* An entry with another name is behind.
LEMMA LookupMiss ==
  ASSUME PInv, NInv, walk = "lookup", NEW k2, k2 = k + 1,
         Len(name) # NAME_LEN => EntryAt(dir, k).name # name
  PROVE \/ Len(name) = NAME_LEN
        \/ \A m \in Nat : m < k2 /\ InTable(dir, m) => EntryAt(dir, m).name # name
<1>1. k \in Nat
  BY DEF PInv
<1>2. Passed
  BY DEF NInv
<1>3. CASE Len(name) # NAME_LEN
  <2>1. \A m \in Nat : m < k /\ InTable(dir, m) => EntryAt(dir, m).name # name
    BY <1>2, <1>3 DEF Passed
  <2>2. \A m \in Nat : m < k2 => m < k \/ m = k
    BY <1>1
  <2> QED BY <2>1, <2>2, <1>3
<1> QED BY <1>3

\* One entry of a directory.
LEMMA LookupExact ==
  ASSUME P!TidyImages, PInv, NInv, P!minix_lookup
  PROVE NInv'
<1>1. PICK blocks, b, e, a : /\ blocks = image[dir] /\ b = (k \div DIR_PER_BLK) + 1
                             /\ e = (k % DIR_PER_BLK) + 1 /\ a = (e - 1) * (NAME_LEN + 2) + 3
  OBVIOUS
<1>2. /\ walk = "lookup" /\ image' = image /\ cur_dir' = cur_dir /\ path' = path
      /\ pos' = pos /\ name' = name
  BY DEF P!minix_lookup, P!inputs
<1>3. \/ b > Len(blocks) /\ P!Found(0)
      \/ /\ ~(b > Len(blocks))
         /\ \E same \in P!strcmp(name, P!Memory(blocks[b]), a) :
              IF same THEN P!Found(blocks[b][e].inode)
              ELSE k' = k + 1 /\ dir' = dir /\ walk' = walk
  BY <1>1, Zenon DEF P!minix_lookup
<1>4. /\ path \in Seq(Chars) /\ pos \in Nat /\ pos <= Len(path)
      /\ image \in Images /\ dir \in DOMAIN image /\ k \in Nat
  BY <1>2 DEF PInv
<1>5. InTable(dir, k) <=> b <= Len(blocks)
  BY <1>1 DEF InTable
<1>6. b \in Nat /\ Len(blocks) \in Nat
  <2>1. DIR_PER_BLK \in Nat /\ DIR_PER_BLK > 0
    BY Format
  <2>2. k \div DIR_PER_BLK \in Nat
    BY <2>1, <1>4, Divided
  <2>3. blocks \in Seq([1..DIR_PER_BLK -> Entry])
    BY <1>1, <1>4, ImageFacts DEF Entry
  <2> QED BY <2>2, <2>3, <1>1
<1>7. /\ P!After' = P!After /\ P!Designated' = P!Designated /\ P!Missed' = P!Missed
      /\ Between(pos)' = Between(pos) /\ Sought' = Sought
  <2>1. /\ P!After' = P!After /\ P!Designated' = P!Designated /\ P!Missed' = P!Missed
        /\ \A j, i : P!Component(j, i)' = P!Component(j, i)
    BY <1>2, SameInputs
  <2>2. Between(pos)' = Between(pos)
    BY <1>2 DEF Between
  <2>3. Sought' = Sought
    BY <1>2 DEF Sought, P!Component
  <2> QED BY <2>1, <2>2, <2>3
<1>8. CASE b > Len(blocks)
  <2>1. walk' = "done" /\ dir' = NULL
    BY <1>3, <1>6, <1>8 DEF P!Found
  <2>2. ~InTable(dir, k)
    BY <1>5, <1>6, <1>8
  <2>3. P!Designated = NULL \/ P!Missed
    BY <2>2, <1>2, LookupEnd
  <2> QED BY <2>1, <2>3, <1>7 DEF NInv, NameiExact, P!NameiExact
<1>9. CASE ~(b > Len(blocks))
  <2>1. InTable(dir, k)
    BY <1>5, <1>6, <1>9
  <2>2. /\ e \in 1..DIR_PER_BLK /\ blocks[b] \in [1..DIR_PER_BLK -> Entry]
        /\ EntryAt(dir, k) \in P!Entries(dir) /\ EntryAt(dir, k) = blocks[b][e]
    <3>1. Numbered(k, b, e)
      BY <1>1, Zenon DEF Numbered
    <3> QED BY <3>1, <2>1, <1>1, <1>4, EntryIn
  <2>3. PICK x : x = EntryAt(dir, k)
    OBVIOUS
  <2>4. x = blocks[b][e] /\ x \in Entry /\ Len(x.name) <= NAME_LEN /\ x.inode \in Nat
    <3>1. x \in Entry /\ Len(x.name) <= NAME_LEN
      BY <2>2, <2>3, <1>4, EntryNumber
    <3> QED BY <3>1, <2>2, <2>3 DEF Entry
  <2>5. name \in Seq(Chars) /\ Len(name) <= NAME_LEN
    <3>1. PICK j \in 1..pos : name = SubSeq(path, j, pos)
      BY <1>2 DEF NInv, Sought
    <3>2. Len(path) \in Nat
      BY <1>4
    <3>3. SubSeq(path, j, pos) \in Seq(Chars)
      BY <3>2, <1>4, SubSeqProperties
    <3> QED BY <3>1, <3>3, <1>2 DEF NInv
  <2>6. PICK S : S = P!strcmp(name, P!Memory(blocks[b]), a)
    OBVIOUS
  <2>7. /\ TRUE \in S => x.name = name
        /\ FALSE \in S /\ Len(name) < NAME_LEN => x.name # name
        /\ S \subseteq BOOLEAN
    <3>1. PICK B : B = blocks[b]
      OBVIOUS
    <3>2. /\ B \in [1..DIR_PER_BLK -> Entry] /\ e \in 1..DIR_PER_BLK /\ x = B[e]
          /\ Len(B[e].name) <= NAME_LEN /\ a = (e - 1) * (NAME_LEN + 2) + 3
          /\ S = P!strcmp(name, P!Memory(B), a)
      BY <3>1, <2>2, <2>4, <2>6, <1>1, Zenon
    <3> QED BY <3>2, <2>5, Strcmp, Zenon
  <2>8. PICK same \in S : IF same THEN P!Found(x.inode)
                          ELSE k' = k + 1 /\ dir' = dir /\ walk' = walk
    BY <2>4, <2>6, <1>3, <1>9, Zenon
  <2>9. CASE same = TRUE
    <3>1. P!Found(x.inode) /\ x.name = name
      BY <2>7, <2>8, <2>9
    <3>2. /\ x.inode # 0 => x.inode = P!After[pos] /\ Between(pos)
          /\ x.inode = 0 => P!Missed
      BY <3>1, <2>1, <2>3, <1>2, LookupHit
    <3>3. CASE x.inode = 0
      <4>1. walk' = "done" /\ dir' = NULL
        BY <3>1, <3>3 DEF P!Found
      <4> QED BY <4>1, <3>2, <3>3, <1>7 DEF NInv, NameiExact, P!NameiExact
    <3>4. CASE x.inode # 0
      <4>1. walk' = "split" /\ dir' = x.inode
        BY <3>1, <3>4 DEF P!Found
      <4>2. dir' = P!After'[pos'] /\ Between(pos)'
        BY <4>1, <3>2, <3>4, <1>2, <1>7
      <4> QED BY <4>1, <4>2 DEF NInv, NameiExact, P!NameiExact
    <3> QED BY <3>3, <3>4
  <2>10. CASE same = FALSE
    <3>1. k' = k + 1 /\ dir' = dir /\ walk' = "lookup"
      BY <2>8, <2>10, <1>2
    <3>2. Len(name) # NAME_LEN => x.name # name
      <4>1. PICK n : n = Len(name)
        OBVIOUS
      <4>2. n \in Nat /\ n <= NAME_LEN
        BY <4>1, <2>5
      <4>3. n # NAME_LEN => n < NAME_LEN
        BY <4>2, Format
      <4> QED BY <4>1, <4>3, <2>7, <2>8, <2>10
    <3>3. \/ Len(name) = NAME_LEN
          \/ \A m \in Nat : m < k' /\ InTable(dir, m) => EntryAt(dir, m).name # name
      BY <3>1, <3>2, <2>3, <1>2, LookupMiss
    <3>4. Passed'
      <4>1. \A d, m : EntryAt(d, m)' = EntryAt(d, m) /\ InTable(d, m)' = InTable(d, m)
        BY <1>2, SameInputs
      <4> QED BY <4>1, <3>1, <3>3, <1>2 DEF Passed, EntryAt, InTable
    <3>5. Sought /\ dir = P!After[pos - 1]
      BY <1>2 DEF NInv
    <3>6. Sought' /\ dir' = P!After'[pos' - 1] /\ Len(name') <= NAME_LEN
      BY <3>1, <3>5, <2>5, <1>2, <1>7
    <3> QED BY <3>1, <3>4, <3>6 DEF NInv, NameiExact, P!NameiExact
  <2> QED BY <2>7, <2>8, <2>9, <2>10
<1> QED BY <1>8, <1>9

\* namei is called or returns, or does nothing.
LEMMA OtherExact ==
  ASSUME NInv, \/ \E d, p : P!Call(d, p)
               \/ P!Return
               \/ UNCHANGED pvars
  PROVE NInv'
<1>1. CASE \E d, p : P!Call(d, p)
  <2>1. walk' = "start"
    BY <1>1 DEF P!Call
  <2> QED BY <2>1 DEF NInv, NameiExact, P!NameiExact
<1>2. CASE P!Return
  <2>1. walk' = "idle"
    BY <1>2 DEF P!Return
  <2> QED BY <2>1 DEF NInv, NameiExact, P!NameiExact
<1>3. CASE UNCHANGED pvars
  <2>1. /\ image' = image /\ cur_dir' = cur_dir /\ path' = path /\ walk' = walk /\ pos' = pos
        /\ dir' = dir /\ name' = name /\ k' = k
    BY <1>3 DEF pvars
  <2>2. /\ P!After' = P!After /\ P!Designated' = P!Designated /\ P!Missed' = P!Missed
    BY <2>1, SameInputs
  <2>3. Between(pos)' = Between(pos)
    BY <2>1 DEF Between
  <2>4. Sought' = Sought
    BY <2>1 DEF Sought, P!Component
  <2>5. Passed' = Passed
    BY <2>1 DEF Passed, EntryAt, InTable
  <2> QED BY <2>1, <2>2, <2>3, <2>4, <2>5 DEF NInv, NameiExact, P!NameiExact
<1> QED BY <1>1, <1>2, <1>3

\* If every directory has "." for itself, and a name in use is that of one inode,
\* namei returns the inode the path designates, and NULL if there is none, for images
\* and paths of any size; a name that fills its field, or that an entry which is not
\* in use still has, may be missed, but another file is never found in its place.
THEOREM Walked == P!TidyImages => (Spec => []NameiExact)
<1> SUFFICES ASSUME P!TidyImages PROVE Spec => []NameiExact
  OBVIOUS
<1>1. Init => Inv /\ NInv
  <2> SUFFICES ASSUME Init PROVE Inv /\ NInv
    OBVIOUS
  <2>1. Inv /\ walk = "idle"
    BY InitInv DEF Init, P!Init
  <2> QED BY <2>1 DEF NInv, NameiExact, P!NameiExact
<1>2. Inv /\ NInv /\ [Next]_vars => NInv'
  <2> SUFFICES ASSUME Inv, NInv, [Next]_vars PROVE NInv'
    OBVIOUS
  <2>1. PInv
    BY DEF Inv
  <2>2. CASE Walk
    BY <2>1, <2>2, StartExact, NameExact DEF Walk
  <2>3. CASE Lookup
    BY <2>1, <2>3, LookupExact DEF Lookup
  <2>4. CASE \/ \E d, p : P!Call(d, p)
             \/ P!Return
             \/ UNCHANGED pvars
    BY <2>4, OtherExact
  <2>5. \/ Walk \/ Lookup
        \/ \E d, p : P!Call(d, p)
        \/ P!Return
        \/ UNCHANGED pvars
    BY DEF Next, vars, Mount, RawInode, Namei, Open, ReadWrite, Close
  <2> QED BY <2>2, <2>3, <2>4, <2>5
<1>3. Inv /\ [Next]_vars => Inv'
  BY NextInv
<1>4. NInv => NameiExact
  BY DEF NInv
<1> QED BY <1>1, <1>2, <1>3, <1>4, PTL DEF Spec

=============================================================================
