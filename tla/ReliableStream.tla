--------------------------- MODULE ReliableStream ---------------------------
(***************************************************************************)
(* What a connection promises in one direction: the bytes written at one   *)
(* end become readable at the other in order, once each, and end of file   *)
(* follows the last of them.  A direction may fail; from then on nothing   *)
(* more arrives.  A byte is its index in the stream.                       *)
(***************************************************************************)
EXTENDS Integers, Sequences

VARIABLES
    written,   \* bytes the writer has written
    ended,     \* the writer has ended its stream
    taken,     \* bytes the reader has read
    avail,     \* bytes that have arrived and are not read yet
    closed,    \* the reader's side knows where the stream ends
    failed     \* the reader's side has been told of an error

vars == <<written, ended, taken, avail, closed, failed>>

Init ==
    /\ written = 0 /\ ended = FALSE
    /\ taken = 0 /\ avail = <<>>
    /\ closed = FALSE /\ failed = FALSE

Write ==
    /\ ~ended
    /\ written' > written
    /\ UNCHANGED <<ended, taken, avail, closed, failed>>

End ==
    /\ ended' = TRUE
    /\ UNCHANGED <<written, taken, avail, closed, failed>>

(* The next n bytes arrive, and with the last one possibly the end. *)
Arrive ==
    LET arrived == taken + Len(avail)
    IN  /\ ~failed
        /\ \E n \in 0 .. (written - arrived) :
              /\ avail' = avail \o [j \in 1 .. n |-> arrived + j - 1]
              /\ closed' \in {closed, ended /\ arrived + n = written}
        /\ closed => closed'
        /\ UNCHANGED <<written, ended, taken, failed>>

Take ==
    /\ \E n \in 1 .. Len(avail) :
          /\ taken' = taken + n
          /\ avail' = SubSeq(avail, n + 1, Len(avail))
    /\ UNCHANGED <<written, ended, closed, failed>>

Fail ==
    /\ failed' = TRUE
    /\ UNCHANGED <<written, ended, taken, avail, closed>>

Next == Write \/ End \/ Arrive \/ Take \/ Fail

Spec == Init /\ [][Next]_vars
=============================================================================
