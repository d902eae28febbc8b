------------------------------ MODULE MCMinixFs ------------------------------
EXTENDS MinixFs, TLC

(***************************************************************************)
(* Directories.  The characters are "/", ".", "a"; NAME_LEN is 3.          *)
(***************************************************************************)
E(ino, n) == [inode |-> ino, name |-> n]
free == E(0, << >>)
a == <<3>>
dot == <<2>>
dotdot == <<2, 2>>

\* Directories 1 and 2 (two blocks each), files 3 and 4; or no files at all.
Tree == (1 :> <<<<E(1, dot), E(1, dotdot)>>, <<E(4, <<3, 3>>), E(2, a)>>>>) @@
        (2 :> <<<<E(2, dot), E(1, dotdot)>>, <<E(3, a), free>>>>)
Bare == 1 :> <<<<E(1, dot), E(1, dotdot)>>>>
\* A file with a name of NAME_LEN characters; and "a" deleted and made again.
Long == 1 :> <<<<E(3, <<3, 3, 3>>), E(1, dot)>>>>
Deleted == 1 :> <<<<E(0, a), E(1, dot)>>, <<E(4, a), free>>>>
MCImages == {Tree, Bare, Long, Deleted}
MCPopulated == [s_ninodes |-> 5, s_imap_blocks |-> 1, s_zmap_blocks |-> 1,
                s_firstdatazone |-> 7]

(***************************************************************************)
(* Blocks 1 to 5 hold data, block 6 numbers of blocks (of which four are   *)
(* read at once); block 0 is the boot sector.  File 3 is scattered over    *)
(* the flash and ends in an indirect block; file 4 has one zone.           *)
(***************************************************************************)
Data(b) == [p \in 1..BLOCK_SZ |-> <<b, p>>]
MCFlash == [b \in 0..5 |-> Data(b)] @@ (6 :> <<5, 4, 0, 0>>)
MCZones == (3 :> <<3, 1, 6, 0>>) @@ (4 :> <<4, 0, 0, 0>>)

Capacity == BLOCK_SZ * (ND + PER + PER * PER)
Ext(f, ps, n) == {[file |-> f, pos |-> p, count |-> c] : p \in ps, c \in 1..n}
\* Within the direct zones of each file, the second of which file 4 does not
\* have, and from the end of the largest file.
InZones == {x \in Ext(3, 0..(2 * BLOCK_SZ - 1), 2 * BLOCK_SZ) : x.pos + x.count <= 2 * BLOCK_SZ}
           \cup {x \in Ext(4, 0..(2 * BLOCK_SZ - 1), 2 * BLOCK_SZ) : x.pos + x.count <= 2 * BLOCK_SZ}
           \cup Ext(3, {Capacity, Capacity + 1}, 1)

ASSUME ImageAssumption == F!DirectCalls /\ F!ZonesApart /\ P!TidyImages

=============================================================================
