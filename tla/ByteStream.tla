----------------------------- MODULE ByteStream -----------------------------
(***************************************************************************)
(* What a TCP connection promises the two applications: the reader gets    *)
(* the bytes the writer wrote, in that order, none twice, none left out.   *)
(***************************************************************************)
EXTENDS Naturals, Sequences

CONSTANT MaxBytes    \* bound: the bytes written

VARIABLES written,   \* how many bytes were written: 1, 2, ... written
          read       \* the bytes read, in the order of reading

Init == written = 0 /\ read = <<>>

Write == /\ written' \in written + 1 .. MaxBytes
         /\ UNCHANGED read

Read == \E n \in 1 .. written - Len(read) :
            /\ read' = [i \in 1 .. Len(read) + n |-> i]
            /\ UNCHANGED written

Next == Write \/ Read

Spec == Init /\ [][Next]_<<written, read>>
=============================================================================
