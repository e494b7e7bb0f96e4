------------------------------ MODULE TCPSender ------------------------------
(***************************************************************************)
(* One TCPSender: an application writes to its stream, the owner calls     *)
(* fill_window, ack_received, tick and send_empty_segment in any order and *)
(* takes the segments out, and acknowledgments arrive late, repeated, out  *)
(* of order, for part of a segment, or for data never sent.                *)
(***************************************************************************)
EXTENDS TCPSenderOps

CONSTANTS
    Isn,            \* initial sequence number
    SendCapacity,   \* capacity of the outgoing stream
    StreamLen,      \* bytes the application writes before it ends the stream
    Windows,        \* window sizes the peer may advertise
    Ticks,          \* milliseconds that may pass between two ticks
    MaxRetx         \* TCPConfig::MAX_RETX_ATTEMPTS: the owner then gives up

ASSUME TCPSenderAssumption ==
    /\ Isn \in WrappingInt32
    /\ SendCapacity \in Nat \ {0}
    /\ StreamLen \in Nat
    /\ Windows \subseteq 0 .. Half - 1   \* a 16-bit field
    /\ Ticks \subseteq Nat \ {0}
    /\ MaxRetx \in Nat

VARIABLES
    s,      \* the TCPSender
    acked,  \* history: highest absolute number acknowledged to it so far
    backed  \* history: retransmissions since then, window probes not counted

vars == <<s, acked, backed>>

Init ==
    /\ s = NewSender(SendCapacity, Isn)
    /\ acked = 0 /\ backed = 0

(* The application writes the next n bytes of its stream, or ends it. *)
Write(n) ==
    /\ ~s.stream.end_flag
    /\ s.stream.bytes_w + n <= StreamLen
    /\ s' = [s EXCEPT !.stream = write(@, BytesFrom(@.bytes_w, n))]
    /\ UNCHANGED <<acked, backed>>

EndInput ==
    /\ s.stream.bytes_w = StreamLen
    /\ s' = [s EXCEPT !.stream = end_input(@)]
    /\ UNCHANGED <<acked, backed>>

(* The owner empties segments_out after every call that may fill it. *)
TakeSegments ==
    /\ s.segments_out # <<>>
    /\ s' = [s EXCEPT !.segments_out = <<>>]
    /\ UNCHANGED <<acked, backed>>

FillWindow ==
    /\ s.segments_out = <<>>
    /\ s' = fill_window(s)
    /\ UNCHANGED <<acked, backed>>

AckReceived(a, w) ==
    /\ s' = ack_received(s, wrap(a, Isn), w)
    /\ IF acked < a /\ a <= s.next_seqno
       THEN acked' = a /\ backed' = 0
       ELSE UNCHANGED <<acked, backed>>

Tick(ms) ==
    /\ s.segments_out = <<>>
    /\ s.consecutive_retran <= MaxRetx
    /\ s' = sender_tick(s, ms)
    /\ backed' = backed + Bit(s'.segments_out # <<>> /\ ~s.window_probe)
    /\ UNCHANGED acked

SendEmptySegment ==
    /\ s.segments_out = <<>>
    /\ s' = send_empty_segment(s)
    /\ UNCHANGED <<acked, backed>>

Next ==
    \/ \E n \in 1 .. StreamLen : Write(n)
    \/ EndInput
    \/ TakeSegments
    \/ FillWindow
    \/ \E a \in 1 .. s.next_seqno + 1, w \in Windows : AckReceived(a, w)
    \/ \E ms \in Ticks : Tick(ms)
    \/ SendEmptySegment

Spec == Init /\ [][Next]_vars

TypeOK ==
    /\ s \in SenderType /\ s.isn = Isn
    /\ acked \in Nat /\ backed \in Nat

Queue == s.retransmission_queue

(* Absolute sequence numbers of the i-th outstanding segment's first number and
   of the first one after it. *)
First(i) == unwrap(Queue[i].seqno, Isn, 0)
After(i) == First(i) + length_in_sequence_space(Queue[i])

(* The retransmission queue is exactly what is outstanding: its segments
   follow one another without gap or overlap up to next_seqno, the oldest one
   contains the first unacknowledged number, and it is empty only when
   everything has been acknowledged. *)
QueueTilesFlight ==
    /\ \A i \in 1 .. Len(Queue) :
          /\ length_in_sequence_space(Queue[i]) > 0
          /\ After(i) = IF i = Len(Queue) THEN s.next_seqno ELSE First(i + 1)
    /\ IF Queue = <<>> THEN acked = s.next_seqno
       ELSE First(1) <= acked /\ acked < After(1)

(* The timer runs exactly while something is outstanding; so an expired timer
   always finds a segment to retransmit, and nothing outstanding waits for a
   timer that is off. *)
TimerArmed == s.timer.running <=> Queue # <<>>

(* Every outstanding segment carries the bytes its sequence number names: SYN
   is number 0, byte b of the stream is number b + 1, FIN comes after the last
   byte, and next_seqno counts all of them. *)
SequenceSpaceKept ==
    /\ s.next_seqno = Bit(s.state # "INIT") + s.stream.bytes_r + Bit(s.state = "FIN_SENT")
    /\ s.state = "FIN_SENT" => eof(s.stream)
    /\ \A i \in 1 .. Len(Queue) :
          LET seg == Queue[i]
              body == First(i) + Bit(seg.syn)
          IN  /\ seg.syn <=> First(i) = 0
              /\ seg.fin <=> s.state = "FIN_SENT" /\ i = Len(Queue)
              /\ \A j \in 1 .. Len(seg.payload) : seg.payload[j] = body + j - 2
              /\ Len(seg.payload) <= MaxPayload

(* bytes_in_flight(): "how many sequence numbers are occupied by segments sent
   but not yet acknowledged?" (tcp_sender.hh:105). *)
InFlightExact == bytes_in_flight(s) = s.next_seqno - acked

(* The timeout is the initial one, doubled by every retransmission since the
   last acknowledgment of something new: not by a window probe, and undone by
   no older acknowledgment. Every doubling is counted by
   consecutive_retransmissions(), and the timer never runs for longer. *)
BackoffDoubles ==
    /\ s.rto = RtTimeout * 2 ^ backed
    /\ backed <= s.consecutive_retran
    /\ s.timer.running => s.timer.rto \in 1 .. s.rto
=============================================================================
