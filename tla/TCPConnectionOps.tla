-------------------------- MODULE TCPConnectionOps --------------------------
(***************************************************************************)
(* libsponge/tcp_connection.{hh,cc}, with the state summaries of           *)
(* tcp_helpers/tcp_state.{hh,cc} it branches on.  `idle' is                *)
(* time_since_last_segment_received(), which is all _tick and _rece_tick   *)
(* are used for; it is capped where the code stops telling values apart.   *)
(***************************************************************************)
EXTENDS TCPSenderOps, TCPReceiverOps

CONSTANTS
    MaxRetx,        \* TCPConfig::MAX_RETX_ATTEMPTS (8)
    LingerFactor,   \* the 10 of "10 * _cfg.rt_timeout"
    WinMod          \* values of the 16-bit window field (2^16)

ASSUME ConnectionAssumption ==
    MaxRetx \in Nat /\ LingerFactor \in Nat \ {0} /\ WinMod \in Nat \ {0}

LingerTime == LingerFactor * RtTimeout

NewConnection(sendCapacity, recvCapacity, isn) ==
    [sender |-> NewSender(sendCapacity, isn), receiver |-> NewReceiver(recvCapacity),
     segments_out |-> <<>>, linger |-> TRUE, close |-> FALSE, idle |-> 0,
     isn_receiver |-> None]

active(c) == ~c.close
inbound_stream(c) == stream_out(c.receiver)
outbound_stream(c) == c.sender.stream

(* TCPState::state_summary, for the sender and for the receiver. *)
SenderSummary(s) ==
    IF s.stream.error THEN "ERROR"
    ELSE IF s.next_seqno = 0 THEN "CLOSED"
    ELSE IF s.next_seqno = bytes_in_flight(s) THEN "SYN_SENT"
    ELSE IF ~eof(s.stream) \/ s.next_seqno < s.stream.bytes_w + 2 THEN "SYN_ACKED"
    ELSE IF bytes_in_flight(s) # 0 THEN "FIN_SENT"
    ELSE "FIN_ACKED"

ReceiverSummary(rc) ==
    IF stream_out(rc).error THEN "ERROR"
    ELSE IF ackno(rc) = None THEN "LISTEN"
    ELSE IF stream_out(rc).end_flag THEN "FIN_RECV"
    ELSE "SYN_RECV"

(* TCPState: what a connection shows of its state, and the "official" states
   written that way. *)
State(sender, receiver, up, linger) ==
    [sender |-> sender, receiver |-> receiver, active |-> up, linger |-> linger]

Official ==
    [LISTEN      |-> State("CLOSED", "LISTEN", TRUE, TRUE),
     SYN_RCVD    |-> State("SYN_SENT", "SYN_RECV", TRUE, TRUE),
     SYN_SENT    |-> State("SYN_SENT", "LISTEN", TRUE, TRUE),
     ESTABLISHED |-> State("SYN_ACKED", "SYN_RECV", TRUE, TRUE),
     CLOSE_WAIT  |-> State("SYN_ACKED", "FIN_RECV", TRUE, FALSE),
     LAST_ACK    |-> State("FIN_SENT", "FIN_RECV", TRUE, FALSE),
     CLOSING     |-> State("FIN_SENT", "FIN_RECV", TRUE, TRUE),
     FIN_WAIT_1  |-> State("FIN_SENT", "SYN_RECV", TRUE, TRUE),
     FIN_WAIT_2  |-> State("FIN_ACKED", "SYN_RECV", TRUE, TRUE),
     TIME_WAIT   |-> State("FIN_ACKED", "FIN_RECV", TRUE, TRUE),
     RESET       |-> State("ERROR", "ERROR", FALSE, FALSE),
     CLOSED      |-> State("FIN_ACKED", "FIN_RECV", FALSE, FALSE)]

state(c) ==
    State(SenderSummary(c.sender), ReceiverSummary(c.receiver), active(c), active(c) /\ c.linger)

(* send_segment: everything the sender queued goes out with the current
   acknowledgment; the window is cut to 16 bits. *)
send_segment(c) ==
    LET stamp(seg) ==
            IF ackno(c.receiver) = None THEN seg
            ELSE [seg EXCEPT !.ack = TRUE, !.ackno = ackno(c.receiver),
                             !.win = window_size(c.receiver) % WinMod]
        queued == c.sender.segments_out
    IN  [c EXCEPT !.segments_out = @ \o [i \in 1 .. Len(queued) |-> stamp(queued[i])],
                  !.sender.segments_out = <<>>]

check_segment_in_window(c, seg) ==
    LET start0 == unwrap(seg.seqno, c.isn_receiver, 0)
        len    == length_in_sequence_space(seg)
        end0   == IF len = 0 THEN start0 ELSE start0 + len - 1
        left   == unwrap(ackno(c.receiver), c.isn_receiver, 0)
    IN  \/ c.isn_receiver = None
        \/ ackno(c.receiver) = None
        \/ end0 >= left /\ start0 < left + window_size(c.receiver)

SetErrors(c) ==
    [c EXCEPT !.sender.stream = set_error(@),
              !.receiver.reassembler.output = set_error(@)]

(* send_rst: the RST replaces whatever was waiting to go out. The segment it
   is made from is copied from the front of the sender's queue, not popped. *)
send_rst(c) ==
    LET sender == send_empty_segment(c.sender)
        rst    == [Head(sender.segments_out) EXCEPT !.rst = TRUE]
    IN  [SetErrors([c EXCEPT !.sender = sender])
           EXCEPT !.segments_out = <<rst>>, !.close = TRUE]

(* At least one segment answers a segment that occupies sequence numbers. *)
Answer(s) == IF s.segments_out = <<>> THEN send_empty_segment(s) ELSE s

(* An empty segment just below the window is a keep-alive, and is answered. *)
AnswerKeepAlive(s, seg, ackno0) ==
    IF /\ ackno0 # None /\ length_in_sequence_space(seg) = 0
       /\ seg.seqno = Less(ackno0, 1)
    THEN send_empty_segment(s) ELSE s

(* The second half of segment_received, from the acknowledgment on. *)
Respond(c, seg) ==
    LET acked   == IF seg.ack THEN ack_received(c.sender, seg.ackno, seg.win) ELSE c.sender
        replied == IF length_in_sequence_space(seg) > 0
                   THEN Answer(fill_window(acked)) ELSE acked
    IN  send_segment([c EXCEPT !.sender =
                        AnswerKeepAlive(replied, seg, ackno(c.receiver))])

(* Mutant: any FIN makes the connection the passive closer. *)
LingersAfter_anyFin(c, seg) == c.linger /\ ~seg.fin

(* A FIN that arrives before ours was sent makes this the passive closer. *)
LingersAfter(c, seg) ==
    c.linger /\ (seg.fin => SenderSummary(c.sender) \in {"FIN_SENT", "FIN_ACKED"})

(* The flags of the segment: RST kills the connection, SYN names the peer's
   initial sequence number, FIN may end lingering. *)
KilledBy(c, seg) == IF seg.rst THEN [SetErrors(c) EXCEPT !.close = TRUE] ELSE c

Noted(c, seg) ==
    [c EXCEPT !.idle = 0,
              !.isn_receiver = IF seg.syn THEN seg.seqno ELSE @,
              !.linger = LingersAfter(c, seg)]

Received(c, seg) ==
    {[c EXCEPT !.receiver = rc] :
        rc \in IF check_segment_in_window(c, seg)
               THEN receive(c.receiver, seg) ELSE {c.receiver}}

(* The states TCPConnection::segment_received may leave; RST does not end it. *)
segment_received(c, seg) ==
    {Respond(d, seg) : d \in Received(Noted(KilledBy(c, seg), seg), seg)}

(* Mutant: the connection does not wait for its FIN to be acknowledged. *)
StreamsFinished_unacked(c) ==
    /\ unassembled_bytes(c.receiver.reassembler) = 0
    /\ eof(inbound_stream(c))
    /\ eof(outbound_stream(c))

(* Both directions are finished: the inbound stream was assembled and read to
   its end, the outbound one sent to its end and acknowledged. *)
StreamsFinished(c) ==
    /\ unassembled_bytes(c.receiver.reassembler) = 0
    /\ eof(inbound_stream(c))
    /\ eof(outbound_stream(c))
    /\ bytes_in_flight(c.sender) = 0

(* The stages of tick. *)
FillOnTick(c) ==
    IF outbound_stream(c).size # 0 \/ eof(outbound_stream(c))
    THEN send_segment([c EXCEPT !.sender = fill_window(@)]) ELSE c

TickSender(c, ms) == send_segment([c EXCEPT !.sender = sender_tick(@, ms)])

AbortIfFutile(c) == IF c.sender.consecutive_retran > MaxRetx THEN send_rst(c) ELSE c

CloseIfDone(c) ==
    IF StreamsFinished(c)
    THEN [c EXCEPT !.linger = @ /\ c.idle < LingerTime,
                   !.close = @ \/ c.idle >= LingerTime \/ ~c.linger]
    ELSE c

tick(c, ms) ==
    LET later == [c EXCEPT !.idle = SmallerOf(@ + ms, LingerTime)]
    IN  CloseIfDone(AbortIfFutile(TickSender(FillOnTick(later), ms)))

connection_write(c, data) ==
    send_segment([c EXCEPT !.sender = fill_window([@ EXCEPT !.stream = write(@, data)])])

end_input_stream(c) ==
    send_segment([c EXCEPT !.sender = fill_window([@ EXCEPT !.stream = end_input(@)])])

connect(c) == send_segment([c EXCEPT !.sender = fill_window(@)])
=============================================================================
