----------------------------- MODULE BlockStore -----------------------------
(***************************************************************************)
(* What the block layer promises the file system: blocks of slots that are *)
(* read and written one slot at a time, every read returning what was      *)
(* written last.                                                           *)
(***************************************************************************)
CONSTANTS Blocks, Slots, Vals

VARIABLES
  store,   \* store[b][s]: the contents of the blocks
  done     \* the last access: <<kind, block, slot, value>>

StoreTypeOK == store \in [Blocks -> [Slots -> Vals]]

Read(b, s) ==
  /\ done' = <<"read", b, s, store[b][s]>>
  /\ UNCHANGED store

Write(b, s, v) ==
  /\ store' = [store EXCEPT ![b][s] = v]
  /\ done' = <<"written", b, s, v>>

StoreNext == \E b \in Blocks, s \in Slots :
  Read(b, s) \/ \E v \in Vals : Write(b, s, v)

StoreSpec == StoreTypeOK /\ [][StoreNext]_<<store, done>>

=============================================================================
