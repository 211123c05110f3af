----------------------------- MODULE ByteStream -----------------------------
(***************************************************************************)
(* What a FileBuffer promises to the two threads that share it: a file of  *)
(* known size that grows from the front until it is closed.  A read gets   *)
(* the bytes that were written at its offset; it gets fewer than it asked  *)
(* for only at the end of the file or of a file that was closed too early. *)
(* The byte at offset k is represented by k.                               *)
(***************************************************************************)
EXTENDS Naturals, Sequences

CONSTANT Size   \* the size the archive declares for the file

VARIABLES
    available,  \* bytes written so far
    closed,     \* nothing more will be written
    got         \* the last read and what it returned

vars == << available, closed, got >>

Min2(a, b) == IF a < b THEN a ELSE b

\* The n bytes from offset on.
Slice(offset, n) == [k \in 1 .. n |-> offset + k - 1]

\* How many of the bytes asked for exist once `limit' bytes are there.
Within(limit, offset, count) ==
    IF offset >= limit THEN 0 ELSE Min2(limit - offset, count)

Init ==
    /\ available = 0
    /\ closed = FALSE
    /\ got = [offset |-> 0, count |-> 0, bytes |-> << >>]

Write ==
    /\ ~closed
    /\ available' \in available .. Size
    /\ UNCHANGED << closed, got >>

Close ==
    /\ closed' = TRUE
    /\ UNCHANGED << available, got >>

Read ==
    /\ LET offset == got'.offset
           count == got'.count
           n == Within(IF closed THEN available ELSE Size, offset, count)
           all == Within(Size, offset, count)
       IN \/ /\ n = 0 \/ offset + n <= available
             /\ got' = [offset |-> offset, count |-> count,
                        bytes |-> Slice(offset, n)]
          \/ /\ all = 0 \/ offset + all <= available
             /\ got' = [offset |-> offset, count |-> count,
                        bytes |-> Slice(offset, all)]
    /\ UNCHANGED << available, closed >>

Next == Write \/ Close \/ Read

Spec == Init /\ [][Next]_vars
=============================================================================
