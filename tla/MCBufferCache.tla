---------------------------- MODULE MCBufferCache ----------------------------
EXTENDS BufferCache, TLC

CONSTANTS t1, t2, b1, b2, b3

\* A freshly made image: what the blocks hold at first makes no difference.
MCInit == Init /\ disk = [b \in Blocks |-> [s \in Slots |-> 0]]

MCSpec == MCInit /\ [][Next]_vars

BufSymmetry == Permutations({t1, t2}) \cup Permutations({b1, b2, b3})

=============================================================================
