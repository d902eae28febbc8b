-------------------------------- MODULE Heap --------------------------------
(***************************************************************************)
(* What kmalloc and free_s promise their callers: memory that no other     *)
(* object shares, from the call that returns it until it is given back.    *)
(***************************************************************************)
CONSTANTS Owners, Objects, Disjoint(_, _)

VARIABLE owned   \* owned[t]: the objects t has obtained and not yet freed

HeapInit == owned = [t \in Owners |-> {}]

Malloc(t) ==
  \E o \in Objects :
    /\ \A u \in Owners : \A x \in owned[u] : Disjoint(o, x)
    /\ owned' = [owned EXCEPT ![t] = @ \cup {o}]

Free(t) ==
  \E o \in owned[t] : owned' = [owned EXCEPT ![t] = @ \ {o}]

HeapNext == \E t \in Owners : Malloc(t) \/ Free(t)
HeapSpec == HeapInit /\ [][HeapNext]_owned

=============================================================================
