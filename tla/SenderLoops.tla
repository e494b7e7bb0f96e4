----------------------------- MODULE SenderLoops -----------------------------
(***************************************************************************)
(* The two loops of TCPSender, iteration by iteration, compared with the   *)
(* closed forms TCPSenderOps uses.                                         *)
(***************************************************************************)
EXTENDS TCPSender

(* The while loop of fill_window (tcp_sender.cc:82-119). *)
RECURSIVE FillLoop(_)
FillLoop(t) ==
    LET room == (t.window_size - bytes_in_flight(t)) % Lim
        syn  == t.stream.bytes_r = 0 /\ t.state = "INIT"
        t1   == IF syn THEN [t EXCEPT !.state = "SYN_SENT"] ELSE t
        want == SmallerOf(room - Bit(syn), MaxPayload)
        t2   == [t1 EXCEPT !.stream = read(@, want)]
        seg1 == [NewSegment(next_seqno(t)) EXCEPT
                   !.syn = syn,
                   !.payload = peek_output(t.stream, ReadSize(t.stream, want))]
        fin  == /\ eof(t2.stream) /\ t2.state = "SYN_SENT"
                /\ length_in_sequence_space(seg1) + 1 <= room
        seg  == [seg1 EXCEPT !.fin = fin]
        t3   == IF fin THEN [t2 EXCEPT !.state = "FIN_SENT"] ELSE t2
        len  == length_in_sequence_space(seg)
    IN  IF room = 0 \/ t.state = "FIN_SENT" THEN t
        ELSE IF len = 0 THEN t3
        ELSE FillLoop([t3 EXCEPT !.next_seqno = @ + len,
                                 !.segments_out = Append(@, seg),
                                 !.retransmission_queue = Append(@, seg),
                                 !.timer = IF @.running THEN @ ELSE start(t.rto)])

(* The while loop of ack_received (tcp_sender.cc:145-150). *)
RECURSIVE PopLoop(_, _)
PopLoop(q, a) ==
    IF q = <<>> THEN q
    ELSE IF unwrap(Head(q).seqno, Isn, 0) + length_in_sequence_space(Head(q)) > a
    THEN q
    ELSE PopLoop(Tail(q), a)

(* In every reachable state fill_window and ack_received leave what the loops
   of the code leave. *)
LoopsAgree ==
    /\ fill_window(s) = FillLoop(s)
    /\ \A a \in 0 .. s.next_seqno :
          SubSeq(Queue, FullyAcked(s, a) + 1, Len(Queue)) = PopLoop(Queue, a)
=============================================================================
