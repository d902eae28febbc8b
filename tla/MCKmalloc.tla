------------------------------ MODULE MCKmalloc ------------------------------
EXTENDS Kmalloc, TLC

CONSTANTS t1, t2

\* Two objects on a page of the smaller bucket, one on a page of the larger.
MCSlots == <<2, 1>>

=============================================================================
