----------------------------- MODULE MCException -----------------------------
EXTENDS Exception, TLC

CONSTANTS u1, u2
UserSymmetry == Permutations({u1, u2})

=============================================================================
