--------------------------- MODULE MCSegmentWire ---------------------------
(* A SYN with options, a segment with an odd number of payload bytes, and a *)
(* reset; the values are such that every byte of a header differs from 0    *)
(* somewhere.                                                               *)
EXTENDS SegmentWire

Seg(seqno, ackno, doff, flags, win, payload) ==
  [seqno |-> seqno, ackno |-> ackno, doff |-> doff, flags |-> flags, win |-> win,
   uptr |-> 0, payload |-> payload]

MCSegments ==
  {Seg(<<65535, 65280>>, <<0, 0>>, 6, {"syn"}, 64000, <<>>),
   Seg(<<65535, 65281>>, <<258, 772>>, 5, {"ack", "psh", "fin"}, 1, <<255, 0, 255>>),
   Seg(<<1, 2>>, <<0, 0>>, 5, {"rst", "syn"}, 0, <<>>)}
MCUsing ==
  [udp |-> {"client", "server", "stranger"}, tun |-> {"client", "server", "stranger"},
   tap |-> {"client", "server"}]
=============================================================================
