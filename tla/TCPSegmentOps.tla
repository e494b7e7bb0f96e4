---------------------------- MODULE TCPSegmentOps ----------------------------
(***************************************************************************)
(* libsponge/tcp_helpers/tcp_segment.{hh,cc} and the header fields that    *)
(* the connection reads and writes.                                        *)
(***************************************************************************)
EXTENDS ByteStreamOps, WrappingIntegers

(* A default-constructed segment with its sequence number set. *)
NewSegment(seqno) ==
    [seqno |-> seqno, syn |-> FALSE, fin |-> FALSE, rst |-> FALSE, ack |-> FALSE,
     ackno |-> 0, win |-> 0, payload |-> <<>>]

SegmentType ==
    [seqno : WrappingInt32, syn : BOOLEAN, fin : BOOLEAN, rst : BOOLEAN,
     ack : BOOLEAN, ackno : WrappingInt32, win : Nat, payload : Seq(Byte)]

Bit(b) == IF b THEN 1 ELSE 0

length_in_sequence_space(seg) == Len(seg.payload) + Bit(seg.syn) + Bit(seg.fin)
=============================================================================
