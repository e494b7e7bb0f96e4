---------------------------- MODULE ByteStreamOps ----------------------------
(***************************************************************************)
(* libsponge/byte_stream.{hh,cc}: a bounded first-in first-out stream of   *)
(* bytes with one writer and one reader.  A stream is a record, so that a  *)
(* sender and a receiver can each own one.                                 *)
(*                                                                         *)
(* Throughout the project a byte is identified with its index in the       *)
(* logical stream it belongs to (0, 1, 2, ...).                            *)
(***************************************************************************)
EXTENDS Integers, Sequences

Byte == Nat

SmallerOf(a, b) == IF a <= b THEN a ELSE b

(* The bytes of the logical stream at indices from .. from + n - 1. *)
BytesFrom(from, n) == [j \in 1 .. n |-> from + j - 1]

ByteStreamType(Bytes) ==
    [end_flag : BOOLEAN, capacity : Nat, size : Nat, stream : Seq(Bytes),
     bytes_w : Nat, bytes_r : Nat, error : BOOLEAN]

NewByteStream(capacity) ==
    [end_flag |-> FALSE, capacity |-> capacity, size |-> 0, stream |-> <<>>,
     bytes_w |-> 0, bytes_r |-> 0, error |-> FALSE]

remaining_capacity(s) == s.capacity - s.size

(* How many of n bytes write() accepts. *)
Accepted(s, n) ==
    IF s.end_flag THEN 0 ELSE SmallerOf(n, remaining_capacity(s))

write(s, data) ==
    LET n == Accepted(s, Len(data))
    IN  [s EXCEPT !.stream  = @ \o SubSeq(data, 1, n),
                  !.size    = @ + n,
                  !.bytes_w = @ + n]

(* pop_output(len); remove_prefix throws unless len <= Len(s.stream). *)
pop_output(s, len) ==
    [s EXCEPT !.stream  = SubSeq(@, len + 1, Len(@)),
              !.size    = @ - len,
              !.bytes_r = @ + len]

(* read(len): the bytes returned, and the stream that is left. *)
ReadSize(s, len) == SmallerOf(len, s.size)
peek_output(s, len) == SubSeq(s.stream, 1, SmallerOf(len, Len(s.stream)))
read(s, len) == pop_output(s, ReadSize(s, len))

end_input(s) == [s EXCEPT !.end_flag = TRUE]

set_error(s) == [s EXCEPT !.error = TRUE]

eof(s) == s.end_flag /\ s.size = 0

(* What a stream that carries the logical stream 0, 1, 2, ... looks like: the
   counters agree with the buffer, and the buffer holds the next bytes to be
   read, in order, none missing and none twice. *)
StreamIntact(s) ==
    /\ s.size = Len(s.stream)
    /\ s.bytes_w = s.bytes_r + s.size
    /\ s.size <= s.capacity
    /\ \A j \in 1 .. Len(s.stream) : s.stream[j] = s.bytes_r + j - 1
=============================================================================
