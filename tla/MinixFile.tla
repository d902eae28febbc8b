----------------------------- MODULE MinixFile -----------------------------
(***************************************************************************)
(* minix_read, minix_write and inode_get_blk (fs/minix_fs.c): the bytes of *)
(* a file are found through its zones, the last two of which are indirect. *)
(* Blocks are read and written in place: that the buffers behave as one    *)
(* store of blocks is what BufferCache shows.  A step is one round of the  *)
(* loop.  Block numbers are 2 bytes wide on the flash; index blocks are    *)
(* sequences of them.                                                      *)
(***************************************************************************)
EXTENDS Integers, Sequences, FiniteSets

CONSTANTS
  Files,
  i_zone,      \* the zones of each file: ND direct ones and two indirect ones
  Flash,       \* the blocks as they are at first
  BLOCK_SZ,    \* bytes of a block
  ND, PER,     \* 7 direct zones, 512 block numbers in an index block
  Extents,     \* the calls that are made: file, position and count
  MaxCalls,
  NULL

BLK_NO_SZ == 2
Blocks == DOMAIN Flash
Beyond == -1   \* a block number that is larger than the flash
\* Bytes that a call of at most n bytes writes.
Written(c, n) == [i \in 1..n |-> <<"written", c, i>>]

MinixFileConstants ==
  /\ BLOCK_SZ \in Nat \ {0} /\ ND \in Nat \ {0} /\ PER \in Nat \ {0}
  /\ \A f \in Files : Len(i_zone[f]) = ND + 2
  /\ \A f \in Files, z \in 1..(ND + 2) : i_zone[f][z] \in Blocks
  /\ \A f \in Files, z \in 1..ND :
       Flash[i_zone[f][z]] = [i \in 1..BLOCK_SZ |-> Flash[i_zone[f][z]][i]]
  /\ Blocks \subseteq Nat /\ MaxCalls \in Nat
  /\ Extents \subseteq [file : Files, pos : Nat, count : Nat]
  /\ NULL \notin [file : Files, op : {"read", "write"}, pos : Nat, left : Nat,
                    buf : Seq({"written"} \X Nat \X Nat)]

VARIABLES
  disk,    \* the contents of the blocks
  call,    \* the call in progress with pos, left and the caller's buffer
  calls    \* number of calls begun

vars == <<disk, call, calls>>

Init == disk = Flash /\ call = NULL /\ calls = 0

(***************************************************************************)
(* inode_get_blk                                                           *)
(***************************************************************************)
\* *addr, an unsigned long: four block numbers, the first one lowest, which is
\* beyond the flash unless the other three are 0.  What lies outside of the
\* buffer, or at an odd address, can be any number.
Word(b, byte) ==
  LET cell == byte \div BLK_NO_SZ IN
  IF byte % BLK_NO_SZ # 0 \/ cell + 4 > PER THEN Blocks \cup {Beyond}
  ELSE IF \A i \in 2..4 : disk[b][cell + i] = 0 THEN {disk[b][cell + 1]}
  ELSE {Beyond}

\* Error: the limit is one block too far.
GetBlkBeyond(f, k) ==
  IF k < ND THEN {i_zone[f][k + 1]}
  ELSE IF k <= ND + PER + PER * PER THEN {i_zone[f][ND + 2]} ELSE {}

\* The numbers the k-th block of file f may be found under; {} is NULL.
inode_get_blk(f, k) ==
  IF k < ND THEN {i_zone[f][k + 1]}
  ELSE IF k < ND + PER THEN Word(i_zone[f][ND + 1], BLK_NO_SZ * (k - ND))
  ELSE IF k < ND + PER + PER * PER
  THEN Word(i_zone[f][ND + 2], (BLK_NO_SZ * (k - ND - PER)) \div PER)
  ELSE {}

(***************************************************************************)
(* The calls.                                                              *)
(***************************************************************************)
Begin(x, op) ==
  /\ call = NULL /\ calls < MaxCalls
  /\ calls' = calls + 1
  /\ call' = [file |-> x.file, op |-> op, pos |-> x.pos, left |-> x.count,
              buf |-> IF op = "read" THEN << >> ELSE Written(calls', x.count)]
  /\ UNCHANGED disk

chars(nr, left) == IF BLOCK_SZ - nr < left THEN BLOCK_SZ - nr ELSE left

\* Error: the place in the block is not added to bh->data.
RoundFromStart(b) ==
  LET n == chars(call.pos % BLOCK_SZ, call.left)
      rest == [call EXCEPT !.pos = @ + n, !.left = @ - n]
  IN IF call.op = "read"
     THEN /\ call' = [rest EXCEPT !.buf = @ \o SubSeq(disk[b], 1, n)]
          /\ UNCHANGED disk
     ELSE /\ call' = [rest EXCEPT !.buf = SubSeq(@, n + 1, Len(@))]
          /\ disk' = [disk EXCEPT ![b] = [i \in DOMAIN @ |->
               IF i <= n THEN call.buf[i] ELSE @[i]]]

\* Error: every round begins at the start of the caller's buffer.
RoundSameBuf(b) ==
  LET nr == call.pos % BLOCK_SZ
      n == chars(nr, call.left)
      rest == [call EXCEPT !.pos = @ + n, !.left = @ - n]
  IN IF call.op = "read"
     THEN /\ call' = [rest EXCEPT !.buf = SubSeq(disk[b], nr + 1, nr + n)]
          /\ UNCHANGED disk
     ELSE /\ call' = rest
          /\ disk' = [disk EXCEPT ![b] = [i \in DOMAIN @ |->
               IF i \in (nr + 1)..(nr + n) THEN call.buf[i - nr] ELSE @[i]]]

\* One round of minix_read or minix_write with the block b.
Round(b) ==
  LET nr == call.pos % BLOCK_SZ
      n == chars(nr, call.left)
      rest == [call EXCEPT !.pos = @ + n, !.left = @ - n]
  IN IF call.op = "read"
     THEN /\ call' = [rest EXCEPT !.buf = @ \o SubSeq(disk[b], nr + 1, nr + n)]
          /\ UNCHANGED disk
     ELSE /\ call' = [rest EXCEPT !.buf = SubSeq(@, n + 1, Len(@))]
          /\ disk' = [disk EXCEPT ![b] = [i \in DOMAIN @ |->
               IF i \in (nr + 1)..(nr + n) THEN call.buf[i - nr] ELSE @[i]]]

Loop ==
  /\ call # NULL /\ call.left > 0
  /\ \E b \in inode_get_blk(call.file, call.pos \div BLOCK_SZ) :
       IF b # Beyond THEN Round(b)
       ELSE call' = [call EXCEPT !.op = "wild", !.left = 0] /\ UNCHANGED disk
  /\ UNCHANGED calls

\* The loop has ended, or there is no such block.
Return ==
  /\ call # NULL
  /\ call.left > 0 => inode_get_blk(call.file, call.pos \div BLOCK_SZ) = {}
  /\ call' = NULL
  /\ UNCHANGED <<disk, calls>>

Next == Loop \/ Return \/ \E x \in Extents, op \in {"read", "write"} : Begin(x, op)

Spec == Init /\ [][Next]_vars

(***************************************************************************)
(* Properties.                                                             *)
(***************************************************************************)
\* Blocks keep their size, and a write has as many bytes left to store as to
\* take from the caller's buffer (minix_write).
TypeOK ==
  /\ \A b \in Blocks : DOMAIN disk[b] = DOMAIN Flash[b]
  /\ call = NULL \/ /\ call.op \in {"read", "write"} /\ call.left \in Nat
                    /\ call.op = "write" => Len(call.buf) = call.left
  /\ calls \in 0..MaxCalls

\* The zones of a Minix file: direct, one indirect, one double indirect.
Zone(f, k) ==
  LET k1 == k - ND  k2 == k - ND - PER IN
  IF k1 < 0 THEN i_zone[f][k + 1]
  ELSE IF k2 < 0 THEN disk[i_zone[f][ND + 1]][k1 + 1]
  ELSE disk[disk[i_zone[f][ND + 2]][(k2 \div PER) + 1]][(k2 % PER) + 1]

Capacity == BLOCK_SZ * (ND + PER + PER * PER)
Positions(f) == (UNION {x.pos..(x.pos + x.count - 1) : x \in {y \in Extents : y.file = f}})
                  \cap 0..(Capacity - 1)

\* Behind its direct zones inode_get_blk does not find the blocks of a Minix
\* file: calls that stay within the direct zones, whether their file has them
\* or not, or begin where no file can reach.
Direct(f, p) == p \div BLOCK_SZ < ND
Within(f, p, n) == p >= Capacity \/ \A q \in p..(p + n - 1) : Direct(f, q)
DirectCalls == \A x \in Extents : Within(x.file, x.pos, x.count)

\* A zone the file does not have: its number is 0, that of the boot sector.
Missing(f, p) == p \div BLOCK_SZ < ND /\ i_zone[f][(p \div BLOCK_SZ) + 1] = 0

\* No block is in two places of a file, or in two files, that calls reach: two
\* zones that are missing would both be the boot sector.
ZonesApart == \A f, g \in Files : \A p \in Positions(f), q \in Positions(g) :
  i_zone[f][(p \div BLOCK_SZ) + 1] = i_zone[g][(q \div BLOCK_SZ) + 1]
    => f = g /\ p \div BLOCK_SZ = q \div BLOCK_SZ

Flat == INSTANCE FlatFile WITH
  content <- [f \in Files |-> [p \in Positions(f) |->
                disk[Zone(f, p \div BLOCK_SZ)][(p % BLOCK_SZ) + 1]]]

\* Reading and writing a file is reading and writing one flat array: the bytes
\* are in order, none is left out, doubled or taken from another place.  The
\* bytes of a zone the file does not have are those of the boot sector.
ImplementsFlatFile == Flat!FlatSpec

\* A write never changes a block of another file, and changes the boot sector
\* if, and only if, it is at a position whose zone the file does not have:
\* minix_write asks neither for a zone nor for the size of the file.
OwnBlocks == [][\A b \in Blocks : disk'[b] # disk[b] =>
  IF Missing(call.file, call.pos) THEN b = 0
  ELSE b # 0 /\ b \in {i_zone[call.file][z] : z \in 1..ND}]_vars

=============================================================================
