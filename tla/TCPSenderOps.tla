---------------------------- MODULE TCPSenderOps ----------------------------
(***************************************************************************)
(* libsponge/tcp_sender.{hh,cc}: TCPSender and its RetransmissionTimer.    *)
(***************************************************************************)
EXTENDS TCPSegmentOps

CONSTANTS
    MaxPayload,   \* TCPConfig::MAX_PAYLOAD_SIZE (1000)
    RtTimeout     \* the retx_timeout given to the constructor

ASSUME SenderAssumption == MaxPayload \in Nat \ {0} /\ RtTimeout \in Nat \ {0}

(* RetransmissionTimer *)
start(timeout) == [rto |-> timeout, running |-> TRUE]

NewSender(capacity, isn) ==
    [isn |-> isn, segments_out |-> <<>>, stream |-> NewByteStream(capacity),
     next_seqno |-> 0, last_retrans_seqno |-> 0, retransmission_queue |-> <<>>,
     consecutive_retran |-> 0, rto |-> RtTimeout, window_size |-> 1, ack |-> isn,
     window_probe |-> FALSE, state |-> "INIT",
     timer |-> [rto |-> 0, running |-> FALSE]]

SenderType ==
    [isn : WrappingInt32, segments_out : Seq(SegmentType),
     stream : ByteStreamType(Byte), next_seqno : Nat,
     last_retrans_seqno : WrappingInt32, retransmission_queue : Seq(SegmentType),
     consecutive_retran : Nat, rto : Nat, window_size : Nat \ {0},
     ack : WrappingInt32, window_probe : BOOLEAN,
     state : {"INIT", "SYN_SENT", "FIN_SENT"},
     timer : [rto : Nat, running : BOOLEAN]]

next_seqno(s) == wrap(s.next_seqno, s.isn)

(* Both operands are uint64_t: the difference wraps. *)
bytes_in_flight(s) == (s.next_seqno - unwrap(s.ack, s.isn, 0)) % Lim

(* Mutant: FIN goes out with the stream not yet read to its end. *)
Plan_finEarly(s) ==
    LET room == (s.window_size - bytes_in_flight(s)) % Lim
        syn  == s.stream.bytes_r = 0 /\ s.state = "INIT"
        n    == SmallerOf(room - 1, s.stream.size)
    IN  IF room = 0 \/ s.state = "FIN_SENT"
        THEN [syn |-> FALSE, n |-> 0, fin |-> FALSE]
        ELSE [syn |-> syn, n |-> IF syn THEN 0 ELSE n,
              fin |-> s.stream.end_flag /\ ~syn]

(* What fill_window has to send. The loop keeps filling while the unsigned
   difference `room' is not zero: SYN first, then as much of the stream as
   fits, and FIN with the last of it if the stream has ended and one more
   sequence number fits. *)
Plan(s) ==
    LET room == (s.window_size - bytes_in_flight(s)) % Lim
        syn  == s.stream.bytes_r = 0 /\ s.state = "INIT"
        n    == SmallerOf(room - Bit(syn), s.stream.size)
        fin  == /\ s.stream.end_flag /\ n = s.stream.size
                /\ Bit(syn) + n + 1 <= room
    IN  IF room = 0 \/ s.state = "FIN_SENT"
        THEN [syn |-> FALSE, n |-> 0, fin |-> FALSE]
        ELSE [syn |-> syn, n |-> n, fin |-> fin]

(* Mutant: everything in one segment, however long. *)
Segments_uncut(s, plan) ==
    IF plan.n = 0 /\ ~plan.syn /\ ~plan.fin THEN <<>>
    ELSE <<[NewSegment(wrap(s.next_seqno, s.isn))
              EXCEPT !.syn = plan.syn, !.fin = plan.fin,
                     !.payload = SubSeq(s.stream.stream, 1, plan.n)]>>

(* The segments the plan is cut into: MaxPayload bytes each but the last. *)
Segments(s, plan) ==
    LET full  == (plan.n + MaxPayload - 1) \div MaxPayload
        count == IF full = 0 THEN Bit(plan.syn \/ plan.fin) ELSE full
        sent(i) == (i - 1) * MaxPayload
    IN  [i \in 1 .. count |->
           [NewSegment(wrap(s.next_seqno + sent(i) + (IF i = 1 THEN 0 ELSE Bit(plan.syn)),
                            s.isn))
              EXCEPT !.syn = plan.syn /\ i = 1,
                     !.fin = plan.fin /\ i = count,
                     !.payload = SubSeq(s.stream.stream, sent(i) + 1,
                                        SmallerOf(sent(i) + MaxPayload, plan.n))]]

(* The segments go out and into the retransmission queue, and the timer runs. *)
Enqueue(s, plan, segs) ==
    IF segs = <<>>
    THEN s
    ELSE [s EXCEPT !.segments_out = @ \o segs,
                   !.retransmission_queue = @ \o segs,
                   !.next_seqno = @ + Bit(plan.syn) + plan.n + Bit(plan.fin),
                   !.stream = pop_output(@, plan.n),
                   !.state = IF plan.fin THEN "FIN_SENT"
                             ELSE IF plan.syn THEN "SYN_SENT" ELSE @,
                   !.timer = IF @.running THEN @ ELSE start(s.rto)]

SendPlanned(s, plan) == Enqueue(s, plan, Segments(s, plan))

fill_window(s) == SendPlanned(s, Plan(s))

(* Mutant: a segment whose last number is the one acknowledged stays queued. *)
FullyAcked_strict(s, a) ==
    LET q == s.retransmission_queue
        done(i) == unwrap(q[i].seqno, s.isn, 0) + length_in_sequence_space(q[i]) < a
    IN  CHOOSE j \in 0 .. Len(q) :
            /\ \A i \in 1 .. j : done(i)
            /\ j < Len(q) => ~done(j + 1)

(* How many segments at the head of the retransmission queue end at or before
   absolute sequence number a. *)
FullyAcked(s, a) ==
    LET q == s.retransmission_queue
        done(i) == unwrap(q[i].seqno, s.isn, 0) + length_in_sequence_space(q[i]) <= a
    IN  CHOOSE j \in 0 .. Len(q) :
            /\ \A i \in 1 .. j : done(i)
            /\ j < Len(q) => ~done(j + 1)

(* Mutant: the timer is not stopped when nothing is outstanding any more. *)
NewlyAcked_noStop(s, ackno) ==
    LET q    == s.retransmission_queue
        rest == SubSeq(q, FullyAcked(s, unwrap(ackno, s.isn, 0)) + 1, Len(q))
    IN  [s EXCEPT !.ack = ackno, !.rto = RtTimeout, !.consecutive_retran = 0,
                  !.retransmission_queue = rest,
                  !.timer = start(RtTimeout)]

(* What an acknowledgment of something new changes besides the window. *)
NewlyAcked(s, ackno) ==
    LET q    == s.retransmission_queue
        rest == SubSeq(q, FullyAcked(s, unwrap(ackno, s.isn, 0)) + 1, Len(q))
    IN  [s EXCEPT !.ack = ackno,
                  !.rto = RtTimeout,
                  !.retransmission_queue = rest,
                  !.timer = IF rest = <<>> THEN [@ EXCEPT !.running = FALSE]
                            ELSE start(RtTimeout),
                  !.consecutive_retran = 0]

(* Mutant: a zero window is taken at its word. *)
SetWindow_zero(s, window_size) ==
    [s EXCEPT !.window_size = window_size, !.window_probe = (window_size = 0)]

(* The window is taken from every acknowledgment, old ones included; zero
   counts as one, to be probed. *)
SetWindow(s, window_size) ==
    [s EXCEPT !.window_size = IF window_size = 0 THEN 1 ELSE window_size,
              !.window_probe = (window_size = 0)]

(* Mutant: an older acknowledgment takes the sender back. *)
ack_received_backwards(s, ackno, window_size) ==
    IF unwrap(ackno, s.isn, 0) > s.next_seqno
    THEN SetWindow(s, window_size)
    ELSE NewlyAcked(SetWindow(s, window_size), ackno)

ack_received(s, ackno, window_size) ==
    LET a == unwrap(ackno, s.isn, 0)
    IN  IF a > s.next_seqno \/ a <= unwrap(s.ack, s.isn, 0)
        THEN SetWindow(s, window_size)
        ELSE NewlyAcked(SetWindow(s, window_size), ackno)

(* Mutant: a window probe doubles the timeout too. *)
retransmit_probeDoubles(s) ==
    LET seg   == Head(s.retransmission_queue)
        count == IF s.last_retrans_seqno = seg.seqno THEN s.consecutive_retran + 1 ELSE 1
    IN  [s EXCEPT !.segments_out = Append(@, seg),
                  !.consecutive_retran = count, !.last_retrans_seqno = seg.seqno,
                  !.rto = 2 * @, !.timer = start(2 * s.rto)]

(* retransmit(); called only when the queue is not empty, or front() is
   undefined. *)
retransmit(s) ==
    LET seg   == Head(s.retransmission_queue)
        count == IF s.last_retrans_seqno = seg.seqno THEN s.consecutive_retran + 1 ELSE 1
        rto   == IF s.window_probe THEN s.rto ELSE 2 * s.rto
        sent  == [s EXCEPT !.segments_out = Append(@, seg)]
    IN  IF s.window_size # 0
        THEN [sent EXCEPT !.consecutive_retran = count,
                          !.last_retrans_seqno = seg.seqno,
                          !.rto = rto,
                          !.timer = start(rto)]
        ELSE [sent EXCEPT !.timer = start(s.rto)]

sender_tick(s, ms) ==
    IF ~s.timer.running THEN s
    ELSE IF s.timer.rto > ms THEN [s EXCEPT !.timer.rto = @ - ms]
    ELSE retransmit(s)

send_empty_segment(s) ==
    [s EXCEPT !.segments_out = Append(@, NewSegment(next_seqno(s)))]
=============================================================================
