--------------------------- MODULE TCPReceiverOps ---------------------------
(***************************************************************************)
(* libsponge/tcp_receiver.{hh,cc}.                                         *)
(***************************************************************************)
EXTENDS StreamReassemblerOps, TCPSegmentOps

None == -1   \* an empty std::optional<WrappingInt32>

NewReceiver(capacity) ==
    [reassembler |-> NewReassembler(capacity), capacity |-> capacity, isn |-> None]

stream_out(rc) == rc.reassembler.output

(* The states TCPReceiver::segment_received may leave. The index is a size_t:
   sequence number 0 without SYN becomes the greatest 64-bit number. *)
receive(rc, seg) ==
    LET isn   == IF seg.syn THEN seg.seqno ELSE rc.isn
        index == IF seg.syn THEN 0 ELSE (unwrap(seg.seqno, isn, 0) - 1) % Lim
    IN  IF isn = None
        THEN {rc}
        ELSE {[rc EXCEPT !.isn = isn, !.reassembler = ra] :
                ra \in push_substring(rc.reassembler, seg.payload, index, seg.fin)}

(* Mutant: FIN is acknowledged when it has been seen. *)
ackno_finSeen(rc) ==
    IF rc.isn = None THEN None
    ELSE wrap(stream_out(rc).bytes_w + 1 + Bit(rc.reassembler.end_flag), rc.isn)

ackno(rc) ==
    IF rc.isn = None THEN None
    ELSE wrap(stream_out(rc).bytes_w + 1 + Bit(stream_out(rc).end_flag), rc.isn)

window_size(rc) == rc.capacity - stream_out(rc).size
=============================================================================
