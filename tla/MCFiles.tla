------------------------------- MODULE MCFiles -------------------------------
EXTENDS Files, TLC

CONSTANTS t1, t2

\* Inode 1 is the root directory with user_code.bin (inode 2, to which
\* print_minix keeps a reference), the file "a" and the directory "d".
MCEntry == (1 :> [prog |-> 2, a |-> 3, d |-> 4]) @@ (4 :> [a |-> 5])
MCBootInodes == <<1, 2>>
MCBootRefs == <<3, 1>>
MCSize == <<1, 1, 1, 1, 1>>
MCPaths == {<<"prog">>, <<"a">>, <<"d", "a">>, <<"x">>, <<"prog", "a">>, <<"d">>}
TaskSymmetry == Permutations({t1, t2})

=============================================================================
