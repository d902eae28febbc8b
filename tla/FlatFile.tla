------------------------------ MODULE FlatFile ------------------------------
(***************************************************************************)
(* What read and write of a file promise: the file is a flat array of      *)
(* bytes, and a call moves its bytes one after the other, some at a time,  *)
(* between the array and the caller's buffer.                              *)
(***************************************************************************)
EXTENDS Integers, Sequences

CONSTANTS Files, Capacity, NULL

VARIABLES
  content,  \* content[f][p]: the byte of file f at position p
  call      \* the call in progress, or NULL

FlatInit == call = NULL /\ DOMAIN content = Files

Begin ==
  /\ call = NULL
  /\ call' # NULL
  /\ call'.op = "read" => call'.buf = << >>
  /\ call'.op = "write" => Len(call'.buf) = call'.left
  /\ UNCHANGED content

\* The next n bytes of the call.
Transfer(n) ==
  /\ call # NULL
  /\ n \in 1..call.left
  /\ LET rest == [call EXCEPT !.pos = @ + n, !.left = @ - n]
         bytes == content[call.file]
     IN IF call.op = "read"
        THEN /\ call' = [rest EXCEPT !.buf =
                           @ \o [i \in 1..n |-> bytes[call.pos + i - 1]]]
             /\ UNCHANGED content
        ELSE /\ call' = [rest EXCEPT !.buf = SubSeq(@, n + 1, Len(@))]
             /\ content' = [content EXCEPT ![call.file] = [p \in DOMAIN bytes |->
                  IF p \in call.pos..(call.pos + n - 1)
                  THEN call.buf[p - call.pos + 1] ELSE bytes[p]]]

\* The call is complete, or has reached a position no file can have.
End ==
  /\ call # NULL
  /\ call.left = 0 \/ call.pos >= Capacity
  /\ call' = NULL
  /\ UNCHANGED content

FlatNext == Begin \/ End \/ \E n \in 1..(IF call = NULL THEN 0 ELSE call.left) : Transfer(n)

FlatSpec == FlatInit /\ [][FlatNext]_<<content, call>>

=============================================================================
