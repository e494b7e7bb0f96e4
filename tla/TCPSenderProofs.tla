--------------------------- MODULE TCPSenderProofs ---------------------------
(***************************************************************************)
(* The TCPSender keeps its types and its timer, for every word size,       *)
(* stream, window, timeout and payload size; and while the stream fits in  *)
(* one turn of the sequence numbers, its retransmission queue is exactly   *)
(* what is outstanding.                                                    *)
(***************************************************************************)
EXTENDS TCPSender, ByteStreamProofs, WrappingIntegersProofs

LEMMA Widths == Mod \in Nat \ {0} /\ Lim \in Nat \ {0}
  BY WidthAssumption

LEMMA BitType == ASSUME NEW b \in BOOLEAN PROVE Bit(b) \in {0, 1}
  BY DEF Bit

(* Remainders are in range. *)
LEMMA ModRange ==
    ASSUME NEW m \in Nat \ {0}, NEW x \in Int PROVE (x % m) \in 0 .. m - 1
  OBVIOUS

LEMMA DivNat ==
    ASSUME NEW m \in Nat \ {0}, NEW x \in Nat PROVE (x \div m) \in Nat
  OBVIOUS

LEMMA WrapType ==
    ASSUME NEW x \in Int, NEW isn0 \in Int PROVE wrap(x, isn0) \in WrappingInt32
<1>1. (x % Mod) \in Int
  BY Widths, ModRange
<1>2. ((isn0 + (x % Mod)) % Mod) \in 0 .. Mod - 1
  BY <1>1, Widths, ModRange
<1> QED BY <1>2 DEF wrap, Plus, WrappingInt32

(* unwrap with checkpoint 0, as the sender calls it. *)
LEMMA UnwrapType ==
    ASSUME NEW n \in WrappingInt32, NEW isn0 \in WrappingInt32
    PROVE  unwrap(n, isn0, 0) \in Nat
<1>1. ASSUME NEW x \in Int PROVE (x % Lim) \in Nat
  BY Widths, ModRange
<1>2. ASSUME NEW x \in Int PROVE (x % Mod) \in Int
  BY Widths, ModRange
<1>3. Offset(n, isn0) \in Int
  BY <1>2, Widths DEF Offset, WrappingInt32
<1>4. (0 \div Mod) \in Int
  BY Widths
<1> DEFINE A == Offset(n, isn0)
           t == 0 \div Mod
<1>5. /\ (t * Mod + A) \in Int
      /\ ((t + 1) * Mod + A) \in Int
      /\ ((t - 1) * Mod + A) \in Int
  BY <1>3, <1>4, Widths
<1>6. /\ ((t * Mod + A) % Lim) \in Nat
      /\ (((t + 1) * Mod + A) % Lim) \in Nat
      /\ (((t - 1) * Mod + A) % Lim) \in Nat
  BY <1>1, <1>5
<1> QED BY <1>6 DEF unwrap

LEMMA InFlightType ==
    ASSUME NEW t \in SenderType PROVE bytes_in_flight(t) \in Nat
<1>1. t.next_seqno \in Nat /\ t.ack \in WrappingInt32 /\ t.isn \in WrappingInt32
  BY DEF SenderType
<1>2. unwrap(t.ack, t.isn, 0) \in Nat
  BY <1>1, UnwrapType
<1>3. (t.next_seqno - unwrap(t.ack, t.isn, 0)) \in Int
  BY <1>1, <1>2
<1> QED BY <1>3, Widths, ModRange DEF bytes_in_flight

(* What fill_window plans never exceeds what the stream holds. *)
LEMMA PlanType ==
    ASSUME NEW t \in SenderType
    PROVE  /\ Plan(t) = [syn |-> Plan(t).syn, n |-> Plan(t).n, fin |-> Plan(t).fin]
           /\ Plan(t).syn \in BOOLEAN /\ Plan(t).fin \in BOOLEAN
           /\ Plan(t).n \in 0 .. t.stream.size
<1> DEFINE room == (t.window_size - bytes_in_flight(t)) % Lim
           syn  == t.stream.bytes_r = 0 /\ t.state = "INIT"
           n    == SmallerOf(room - Bit(syn), t.stream.size)
           fin  == /\ t.stream.end_flag /\ n = t.stream.size
                   /\ Bit(syn) + n + 1 <= room
<1>1. /\ t.window_size \in Nat /\ t.stream \in ByteStreamType(Byte)
      /\ t.stream.size \in Nat /\ t.stream.end_flag \in BOOLEAN
  BY DEF SenderType, ByteStreamType
<1>2. room \in Nat
  <2>1. (t.window_size - bytes_in_flight(t)) \in Int
    BY <1>1, InFlightType
  <2> QED BY <2>1, Widths, ModRange
<1>3. syn \in BOOLEAN /\ fin \in BOOLEAN
  BY <1>1
<1>4. Plan(t) = IF room = 0 \/ t.state = "FIN_SENT"
                THEN [syn |-> FALSE, n |-> 0, fin |-> FALSE]
                ELSE [syn |-> syn, n |-> n, fin |-> fin]
  BY DEF Plan
<1> HIDE DEF room, syn, fin
<1>5. room # 0 => n \in 0 .. t.stream.size
  BY <1>1, <1>2, <1>3, BitType DEF SmallerOf
<1> HIDE DEF n
<1>6. CASE room = 0 \/ t.state = "FIN_SENT"
  <2>1. Plan(t) = [syn |-> FALSE, n |-> 0, fin |-> FALSE]
    BY <1>4, <1>6
  <2> QED BY <1>1, <2>1
<1>7. CASE ~(room = 0 \/ t.state = "FIN_SENT")
  <2>1. Plan(t) = [syn |-> syn, n |-> n, fin |-> fin]
    BY <1>4, <1>7
  <2> QED BY <1>3, <1>5, <1>7, <2>1
<1> QED BY <1>6, <1>7

-----------------------------------------------------------------------------

LEMMA NewSegmentType ==
    ASSUME NEW q \in WrappingInt32 PROVE NewSegment(q) \in SegmentType
<1>1. 0 \in WrappingInt32 /\ <<>> \in Seq(Byte)
  BY Widths DEF WrappingInt32
<1> QED BY <1>1 DEF NewSegment, SegmentType

(* The segments of a plan are segments, and there is one unless the plan is
   empty. *)
LEMMA SegmentsType ==
    ASSUME NEW t \in SenderType, GoodStream(t.stream)
    PROVE  Segments(t, Plan(t)) \in Seq(SegmentType)
<1> DEFINE plan  == Plan(t)
           full  == (plan.n + MaxPayload - 1) \div MaxPayload
           count == IF full = 0 THEN Bit(plan.syn \/ plan.fin) ELSE full
           sent(i) == (i - 1) * MaxPayload
           seqno(i) == wrap(t.next_seqno + sent(i) + (IF i = 1 THEN 0 ELSE Bit(plan.syn)),
                            t.isn)
           part(i) == SubSeq(t.stream.stream, sent(i) + 1,
                             SmallerOf(sent(i) + MaxPayload, plan.n))
           seg(i) == [NewSegment(seqno(i)) EXCEPT !.syn = plan.syn /\ i = 1,
                                                  !.fin = plan.fin /\ i = count,
                                                  !.payload = part(i)]
<1>1. plan.syn \in BOOLEAN /\ plan.fin \in BOOLEAN /\ plan.n \in 0 .. t.stream.size
  BY PlanType
<1>2. Segments(t, plan) = [i \in 1 .. count |-> seg(i)]
  BY DEF Segments
<1>3. t.next_seqno \in Nat /\ t.isn \in WrappingInt32
  BY DEF SenderType
<1> HIDE DEF plan
<1>4. count \in Nat
  <2>1. (plan.n + MaxPayload - 1) \in Nat
    BY <1>1, StreamFields, SenderAssumption
  <2>2. full \in Nat
    BY <2>1, SenderAssumption, DivNat
  <2> QED BY <1>1, <2>2, BitType
<1> HIDE DEF count
<1>5. ASSUME NEW i \in 1 .. count PROVE seg(i) \in SegmentType
  <2>1. sent(i) \in Nat
    BY <1>4, SenderAssumption
  <2>2. seqno(i) \in WrappingInt32
    <3>1. (t.next_seqno + sent(i) + (IF i = 1 THEN 0 ELSE Bit(plan.syn))) \in Int
      BY <1>1, <1>3, <2>1, BitType
    <3>2. t.isn \in Int
      BY <1>3, Widths DEF WrappingInt32
    <3> QED BY <3>1, <3>2, WrapType
  <2>3. part(i) \in Seq(Byte)
    <3>1. SmallerOf(sent(i) + MaxPayload, plan.n) \in 0 .. Len(t.stream.stream)
      BY <1>1, <2>1, StreamFields, SenderAssumption DEF SmallerOf
    <3> QED BY <2>1, <3>1, StreamFields, SubSeqProperties
  <2>4. NewSegment(seqno(i)) \in SegmentType
    BY <2>2, NewSegmentType
  <2> HIDE DEF seqno, part
  <2> QED BY <1>1, <2>3, <2>4, Zenon DEF SegmentType
<1> HIDE DEF seg
<1> QED BY <1>2, <1>4, <1>5, IsASeq DEF plan
-----------------------------------------------------------------------------

(* The timer runs exactly while something is outstanding. *)
Armed(t) == t.timer.running <=> t.retransmission_queue # <<>>

(* The inductive invariant, as a predicate on a sender. *)
Good(t) == t \in SenderType /\ StreamFits(t.stream) /\ Armed(t)

LEMMA SenderFields ==
    ASSUME NEW t \in SenderType
    PROVE  /\ t.isn \in WrappingInt32 /\ t.segments_out \in Seq(SegmentType)
           /\ t.stream \in ByteStreamType(Byte) /\ t.next_seqno \in Nat
           /\ t.last_retrans_seqno \in WrappingInt32
           /\ t.retransmission_queue \in Seq(SegmentType)
           /\ t.consecutive_retran \in Nat /\ t.rto \in Nat
           /\ t.window_size \in Nat \ {0} /\ t.ack \in WrappingInt32
           /\ t.window_probe \in BOOLEAN
           /\ t.state \in {"INIT", "SYN_SENT", "FIN_SENT"}
           /\ t.timer \in [rto : Nat, running : BOOLEAN]
  BY DEF SenderType

LEMMA GoodStreamOf ==
    ASSUME NEW t, Good(t) PROVE t \in SenderType /\ GoodStream(t.stream)
  BY SenderFields DEF Good, GoodStream

LEMMA StartType ==
    ASSUME NEW x \in Nat
    PROVE  start(x) \in [rto : Nat, running : BOOLEAN] /\ start(x).running
  BY DEF start

(* fill_window queues segments and starts the timer, or does nothing. *)
LEMMA FillWindowGood ==
    ASSUME NEW t, Good(t)
    PROVE  Good(fill_window(t)) /\ fill_window(t).isn = t.isn
<1> DEFINE plan == Plan(t)
           segs == Segments(t, plan)
           out   == t.segments_out \o segs
           queue == t.retransmission_queue \o segs
           next  == t.next_seqno + Bit(plan.syn) + plan.n + Bit(plan.fin)
           rest  == pop_output(t.stream, plan.n)
           phase == IF plan.fin THEN "FIN_SENT" ELSE IF plan.syn THEN "SYN_SENT" ELSE t.state
           clock == IF t.timer.running THEN t.timer ELSE start(t.rto)
<1>1. t \in SenderType /\ GoodStream(t.stream)
  BY GoodStreamOf
<1>2. plan.syn \in BOOLEAN /\ plan.fin \in BOOLEAN /\ plan.n \in 0 .. t.stream.size
  BY <1>1, PlanType
<1>3. segs \in Seq(SegmentType)
  BY <1>1, SegmentsType
<1>4. fill_window(t) =
        IF segs = <<>> THEN t
        ELSE [t EXCEPT !.segments_out = out, !.retransmission_queue = queue,
                       !.next_seqno = next, !.stream = rest, !.state = phase,
                       !.timer = clock]
  BY DEF fill_window, SendPlanned, Enqueue
<1>5. GoodStream(rest)
  BY <1>1, <1>2, PopEffect
<1>6. next \in Nat
  BY <1>1, <1>2, BitType, SenderFields, StreamFields
<1>7. phase \in {"INIT", "SYN_SENT", "FIN_SENT"}
  BY <1>1, <1>2, SenderFields
<1>8. clock \in [rto : Nat, running : BOOLEAN] /\ clock.running
  BY <1>1, SenderFields, StartType, SMTT(30)
<1> HIDE DEF plan, segs
<1>9. out \in Seq(SegmentType) /\ queue \in Seq(SegmentType)
      /\ (segs # <<>> => queue # <<>>)
  BY <1>1, <1>3, SenderFields, ConcatProperties, ConcatEmptySeq
<1> HIDE DEF out, queue, next, rest, phase, clock
<1>10. CASE segs = <<>>
  BY <1>4, <1>10
<1>11. CASE segs # <<>>
  <2> DEFINE u == [t EXCEPT !.segments_out = out, !.retransmission_queue = queue,
                            !.next_seqno = next, !.stream = rest, !.state = phase,
                            !.timer = clock]
  <2>1. fill_window(t) = u
    BY <1>4, <1>11
  <2>2. u \in SenderType
    BY <1>1, <1>5, <1>6, <1>7, <1>8, <1>9, Zenon DEF SenderType, GoodStream
  <2>3. /\ u.stream = rest /\ u.timer = clock /\ u.retransmission_queue = queue
        /\ u.isn = t.isn
    BY <1>1 DEF SenderType
  <2> HIDE DEF u
  <2> QED BY <1>5, <1>8, <1>9, <1>11, <2>1, <2>2, <2>3 DEF Good, Armed, GoodStream
<1> QED BY <1>10, <1>11

(* The acknowledgment loop removes the segments at the head of the queue that
   end at or before the acknowledged number, and stops at the first that does
   not. *)
LEMMA FullyAckedPrefix ==
    ASSUME NEW t \in SenderType, NEW a \in Nat, NEW n, n = FullyAcked(t, a)
    PROVE  /\ n \in 0 .. Len(t.retransmission_queue)
           /\ \A i \in 1 .. n :
                 unwrap(t.retransmission_queue[i].seqno, t.isn, 0)
                   + length_in_sequence_space(t.retransmission_queue[i]) <= a
           /\ n < Len(t.retransmission_queue) =>
                 ~(unwrap(t.retransmission_queue[n + 1].seqno, t.isn, 0)
                     + length_in_sequence_space(t.retransmission_queue[n + 1]) <= a)
<1> DEFINE q == t.retransmission_queue
           done(i) == unwrap(q[i].seqno, t.isn, 0) + length_in_sequence_space(q[i]) <= a
           prefix(j) == /\ \A i \in 1 .. j : done(i)
                        /\ j < Len(q) => ~done(j + 1)
           stops == {j \in 0 .. Len(q) : j < Len(q) => ~done(j + 1)}
<1>1. Len(q) \in Nat
  BY SenderFields, LenProperties
<1>2. FullyAcked(t, a) = CHOOSE j \in 0 .. Len(q) : prefix(j)
  BY DEF FullyAcked
<1> HIDE DEF done, q
<1>3. PICK j \in stops : \A k \in stops : j <= k
  <2>1. Len(q) \in stops /\ stops \subseteq Nat
    BY <1>1
  <2> HIDE DEF stops
  <2> QED BY <2>1, LeastNat, Zenon
<1>4. j \in 0 .. Len(q) /\ prefix(j)
  <2>1. ASSUME NEW i \in 1 .. j PROVE done(i)
    <3>1. i - 1 \in 0 .. Len(q) /\ i - 1 < j /\ (i - 1) + 1 = i
      BY <1>1, <1>3
    <3>2. i - 1 \notin stops
      <4> HIDE DEF stops
      <4>1. i - 1 \in stops => j <= i - 1
        BY <1>3
      <4>2. i \in Int /\ j \in Int
        BY <1>1, <1>3 DEF stops
      <4> QED BY <3>1, <4>1, <4>2
    <3> QED BY <3>1, <3>2
  <2> QED BY <1>1, <1>3, <2>1
<1>5. \E k \in 0 .. Len(q) : prefix(k)
  BY <1>4
<1> HIDE DEF prefix
<1>6. n \in 0 .. Len(q) /\ prefix(n)
  BY <1>2, <1>5, Zenon
<1> QED BY <1>6 DEF q, prefix, done

LEMMA FullyAckedRange ==
    ASSUME NEW t \in SenderType, NEW a \in Nat
    PROVE  FullyAcked(t, a) \in 0 .. Len(t.retransmission_queue)
  BY FullyAckedPrefix

LEMMA SetWindowGood ==
    ASSUME NEW t, Good(t), NEW w \in Nat
    PROVE  Good(SetWindow(t, w)) /\ SetWindow(t, w).isn = t.isn
<1> DEFINE u == SetWindow(t, w)
           size == IF w = 0 THEN 1 ELSE w
<1>1. t \in SenderType
  BY DEF Good
<1>2. u \in SenderType
  <2>1. size \in Nat \ {0} /\ (w = 0) \in BOOLEAN
    OBVIOUS
  <2>2. u = [t EXCEPT !.window_size = size, !.window_probe = (w = 0)]
    BY Zenon DEF SetWindow
  <2> HIDE DEF size, u
  <2> QED BY <1>1, <2>1, <2>2, Zenon DEF SenderType
<1>3. /\ u.stream = t.stream /\ u.timer = t.timer /\ u.isn = t.isn
      /\ u.retransmission_queue = t.retransmission_queue
  BY <1>1 DEF SetWindow, SenderType
<1> HIDE DEF u
<1>4. Good(u)
  BY <1>2, <1>3 DEF Good, Armed, StreamFits
<1> QED BY <1>3, <1>4 DEF u

(* A new acknowledgment stops the timer when it empties the queue, and restarts
   it when it does not. *)
LEMMA NewlyAckedGood ==
    ASSUME NEW t, Good(t), NEW a \in WrappingInt32
    PROVE  Good(NewlyAcked(t, a)) /\ NewlyAcked(t, a).isn = t.isn
<1> DEFINE q     == t.retransmission_queue
           rest  == SubSeq(q, FullyAcked(t, unwrap(a, t.isn, 0)) + 1, Len(q))
           clock == IF rest = <<>> THEN [t.timer EXCEPT !.running = FALSE]
                    ELSE start(RtTimeout)
           u     == [t EXCEPT !.ack = a, !.rto = RtTimeout,
                              !.retransmission_queue = rest, !.timer = clock,
                              !.consecutive_retran = 0]
<1>1. t \in SenderType /\ q \in Seq(SegmentType) /\ t.isn \in WrappingInt32
      /\ t.timer \in [rto : Nat, running : BOOLEAN]
  BY SenderFields DEF Good
<1>2. NewlyAcked(t, a) = u
  BY DEF NewlyAcked
<1>3. rest \in Seq(SegmentType)
  <2>1. FullyAcked(t, unwrap(a, t.isn, 0)) \in 0 .. Len(q)
    BY <1>1, UnwrapType, FullyAckedRange, Zenon
  <2> HIDE DEF q
  <2> QED BY <1>1, <2>1, LenProperties, SubSeqProperties
<1>4. /\ clock \in [rto : Nat, running : BOOLEAN]
      /\ clock.running <=> rest # <<>>
  <2> HIDE DEF rest
  <2>1. CASE rest = <<>>
    BY <1>1, <2>1, Zenon
  <2>2. CASE rest # <<>>
    BY <2>2, SenderAssumption, StartType
  <2> QED BY <2>1, <2>2
<1> HIDE DEF rest, clock, q
<1>5. u \in SenderType
  BY <1>1, <1>3, <1>4, SenderAssumption, Zenon DEF SenderType
<1>6. /\ u.stream = t.stream /\ u.timer = clock /\ u.isn = t.isn
      /\ u.retransmission_queue = rest
  BY <1>1 DEF SenderType
<1> HIDE DEF u
<1>7. Good(u)
  BY <1>4, <1>5, <1>6 DEF Good, Armed, StreamFits
<1> QED BY <1>2, <1>6, <1>7

LEMMA AckReceivedGood ==
    ASSUME NEW t, Good(t), NEW a \in WrappingInt32, NEW w \in Nat
    PROVE  Good(ack_received(t, a, w)) /\ ack_received(t, a, w).isn = t.isn
<1>1. Good(SetWindow(t, w)) /\ SetWindow(t, w).isn = t.isn
  BY SetWindowGood
<1>2. Good(NewlyAcked(SetWindow(t, w), a)) /\ NewlyAcked(SetWindow(t, w), a).isn = t.isn
  BY <1>1, NewlyAckedGood
<1> QED BY <1>1, <1>2 DEF ack_received

(* An expired timer finds a segment to retransmit, and runs again. *)
LEMMA RetransmitGood ==
    ASSUME NEW t, Good(t), t.timer.running
    PROVE  Good(retransmit(t)) /\ retransmit(t).isn = t.isn
<1> DEFINE q     == t.retransmission_queue
           seg   == Head(q)
           count == IF t.last_retrans_seqno = seg.seqno THEN t.consecutive_retran + 1 ELSE 1
           rto   == IF t.window_probe THEN t.rto ELSE 2 * t.rto
           out   == Append(t.segments_out, seg)
           u     == [t EXCEPT !.segments_out = out, !.consecutive_retran = count,
                              !.last_retrans_seqno = seg.seqno, !.rto = rto,
                              !.timer = start(rto)]
<1>1. t \in SenderType /\ q \in Seq(SegmentType) /\ q # <<>>
  BY SenderFields DEF Good, Armed
<1>2. seg \in SegmentType /\ seg.seqno \in WrappingInt32
  <2>1. seg \in SegmentType
    BY <1>1, HeadTailProperties
  <2> HIDE DEF seg
  <2> QED BY <2>1 DEF SegmentType
<1>3. retransmit(t) = u
  <2>1. t.window_size # 0
    BY <1>1, SenderFields
  <2> DEFINE sent == [t EXCEPT !.segments_out = out]
             more == [sent EXCEPT !.consecutive_retran = count,
                                  !.last_retrans_seqno = seg.seqno, !.rto = rto,
                                  !.timer = start(rto)]
  <2>2. retransmit(t) = more
    BY <2>1, Zenon DEF retransmit
  <2> HIDE DEF seg, count, rto, out
  <2>3. more = u
    BY <1>1 DEF SenderType
  <2> QED BY <2>2, <2>3
<1>4. count \in Nat /\ rto \in Nat
  BY <1>1, SenderFields
<1>5. start(rto) \in [rto : Nat, running : BOOLEAN] /\ start(rto).running
  BY <1>4, StartType
<1>6. out \in Seq(SegmentType)
  BY <1>1, <1>2, SenderFields, AppendProperties
<1> HIDE DEF seg, count, rto, out
<1>7. u \in SenderType
  BY <1>1, <1>2, <1>4, <1>5, <1>6, Zenon DEF SenderType
<1>8. /\ u.stream = t.stream /\ u.timer = start(rto) /\ u.isn = t.isn
      /\ u.retransmission_queue = q
  BY <1>1 DEF SenderType
<1> HIDE DEF u
<1>9. Good(u)
  BY <1>1, <1>5, <1>7, <1>8 DEF Good, Armed, StreamFits
<1> QED BY <1>3, <1>8, <1>9

LEMMA TickGood ==
    ASSUME NEW t, Good(t), NEW ms \in Nat
    PROVE  Good(sender_tick(t, ms)) /\ sender_tick(t, ms).isn = t.isn
<1>1. CASE ~t.timer.running
  BY <1>1 DEF sender_tick
<1>2. CASE t.timer.running /\ t.timer.rto > ms
  <2> DEFINE clock == [t.timer EXCEPT !.rto = t.timer.rto - ms]
             u     == [t EXCEPT !.timer = clock]
  <2>1. t \in SenderType /\ t.timer \in [rto : Nat, running : BOOLEAN]
    BY SenderFields DEF Good
  <2>2. sender_tick(t, ms) = u
    BY <1>2 DEF sender_tick
  <2>3. clock \in [rto : Nat, running : BOOLEAN] /\ clock.running = t.timer.running
    <3>1. t.timer.rto \in Nat /\ t.timer.running \in BOOLEAN
      BY <2>1
    <3>2. t.timer.rto - ms \in Nat
      BY <1>2, <3>1
    <3> QED BY <2>1, <3>2
  <2> HIDE DEF clock
  <2>4. u \in SenderType
    BY <2>1, <2>3 DEF SenderType
  <2>5. /\ u.stream = t.stream /\ u.timer = clock /\ u.isn = t.isn
        /\ u.retransmission_queue = t.retransmission_queue
    BY <2>1 DEF SenderType
  <2> HIDE DEF u
  <2> QED BY <2>2, <2>3, <2>4, <2>5 DEF Good, Armed, StreamFits
<1>3. CASE t.timer.running /\ ~(t.timer.rto > ms)
  BY <1>3, RetransmitGood DEF sender_tick
<1> QED BY <1>1, <1>2, <1>3

(* Replacing segments_out, or the stream by another good one, keeps the rest. *)
LEMMA OutputGood ==
    ASSUME NEW t, Good(t), NEW out \in Seq(SegmentType)
    PROVE  /\ Good([t EXCEPT !.segments_out = out])
           /\ [t EXCEPT !.segments_out = out].isn = t.isn
<1> DEFINE u == [t EXCEPT !.segments_out = out]
<1>1. t \in SenderType
  BY DEF Good
<1>2. u \in SenderType
  BY <1>1, Zenon DEF SenderType
<1>3. /\ u.stream = t.stream /\ u.timer = t.timer /\ u.isn = t.isn
      /\ u.retransmission_queue = t.retransmission_queue
  BY <1>1 DEF SenderType
<1> HIDE DEF u
<1>4. Good(u)
  BY <1>2, <1>3 DEF Good, Armed, StreamFits
<1> QED BY <1>3, <1>4 DEF u

LEMMA StreamGood ==
    ASSUME NEW t, Good(t), NEW st, GoodStream(st)
    PROVE  Good([t EXCEPT !.stream = st]) /\ [t EXCEPT !.stream = st].isn = t.isn
<1> DEFINE u == [t EXCEPT !.stream = st]
<1>1. t \in SenderType
  BY DEF Good
<1>2. u \in SenderType
  BY <1>1 DEF SenderType, GoodStream
<1>3. /\ u.stream = st /\ u.timer = t.timer /\ u.isn = t.isn
      /\ u.retransmission_queue = t.retransmission_queue
  BY <1>1 DEF SenderType
<1> HIDE DEF u
<1>4. Good(u)
  BY <1>2, <1>3 DEF Good, Armed, StreamFits, GoodStream
<1> QED BY <1>3, <1>4 DEF u

LEMMA InitGood == Init => Good(s) /\ s.isn = Isn
<1> SUFFICES ASSUME Init PROVE Good(s) /\ s.isn = Isn
  OBVIOUS
<1>1. s = NewSender(SendCapacity, Isn) /\ Isn \in WrappingInt32 /\ RtTimeout \in Nat
  BY TCPSenderAssumption, SenderAssumption DEF Init
<1>2. NewByteStream(SendCapacity) \in ByteStreamType(Byte)
  BY TCPSenderAssumption DEF NewByteStream, ByteStreamType
<1>3. 0 \in WrappingInt32
  BY Widths DEF WrappingInt32
<1>4. s \in SenderType
  BY <1>1, <1>2, <1>3 DEF NewSender, SenderType
<1>5. s.stream = NewByteStream(SendCapacity) /\ s.timer = [rto |-> 0, running |-> FALSE]
      /\ s.retransmission_queue = <<>> /\ s.isn = Isn
  BY <1>1 DEF NewSender
<1>6. StreamFits(s.stream)
  BY <1>5, TCPSenderAssumption DEF NewByteStream, StreamFits
<1> QED BY <1>4, <1>5, <1>6 DEF Good, Armed

(* Every call, and every step of the application, keeps the sender good. *)
LEMMA StepGood ==
    ASSUME Good(s), s.isn = Isn, acked \in Nat, [Next]_vars
    PROVE  Good(s)' /\ s'.isn = Isn /\ acked' \in Nat
<1>1. Isn \in WrappingInt32 /\ Isn \in Int
  BY TCPSenderAssumption, Widths DEF WrappingInt32
<1>2. s \in SenderType /\ GoodStream(s.stream) /\ s.next_seqno \in Nat
  BY GoodStreamOf, SenderFields
<1>3. ASSUME NEW n \in 1 .. StreamLen, Write(n)
      PROVE  Good(s)' /\ s'.isn = Isn /\ acked' \in Nat
  <2> DEFINE data == BytesFrom(s.stream.bytes_w, n)
  <2>1. data \in Seq(Byte)
    BY <1>2, <1>3, TCPSenderAssumption, StreamFields, IsASeq DEF BytesFrom, Byte
  <2> HIDE DEF data
  <2>2. s' = [s EXCEPT !.stream = write(s.stream, data)] /\ acked' = acked
    BY <1>3 DEF Write, data
  <2>3. GoodStream(write(s.stream, data))
    BY <1>2, <2>1, WriteEffect
  <2> QED BY <2>2, <2>3, StreamGood
<1>4. ASSUME EndInput PROVE Good(s)' /\ s'.isn = Isn /\ acked' \in Nat
  <2>1. s' = [s EXCEPT !.stream = end_input(s.stream)] /\ acked' = acked
    BY <1>4 DEF EndInput
  <2> QED BY <1>2, <2>1, EndInputEffect, StreamGood
<1>5. ASSUME TakeSegments PROVE Good(s)' /\ s'.isn = Isn /\ acked' \in Nat
  <2>1. <<>> \in Seq(SegmentType)
    OBVIOUS
  <2> QED BY <1>5, <2>1, OutputGood, Zenon DEF TakeSegments
<1>6. ASSUME FillWindow PROVE Good(s)' /\ s'.isn = Isn /\ acked' \in Nat
  BY <1>6, FillWindowGood DEF FillWindow
<1>7. ASSUME NEW a \in 1 .. s.next_seqno + 1, NEW w \in Windows, AckReceived(a, w)
      PROVE  Good(s)' /\ s'.isn = Isn /\ acked' \in Nat
  <2>1. w \in Nat /\ a \in Nat
    BY <1>2, TCPSenderAssumption
  <2>2. wrap(a, Isn) \in WrappingInt32
    BY <1>1, <2>1, WrapType
  <2>3. acked' \in Nat
    BY <1>7, <2>1 DEF AckReceived
  <2> QED BY <1>7, <2>1, <2>2, <2>3, AckReceivedGood DEF AckReceived
<1>8. ASSUME NEW ms \in Ticks, Tick(ms) PROVE Good(s)' /\ s'.isn = Isn /\ acked' \in Nat
  <2>1. ms \in Nat
    BY TCPSenderAssumption
  <2> QED BY <1>8, <2>1, TickGood DEF Tick
<1>9. ASSUME SendEmptySegment PROVE Good(s)' /\ s'.isn = Isn /\ acked' \in Nat
  <2> DEFINE out == Append(s.segments_out, NewSegment(next_seqno(s)))
  <2>1. next_seqno(s) \in WrappingInt32
    BY <1>1, <1>2, WrapType DEF next_seqno
  <2>2. out \in Seq(SegmentType)
    BY <1>2, <2>1, NewSegmentType, SenderFields, AppendProperties
  <2>3. s' = [s EXCEPT !.segments_out = out] /\ acked' = acked
    BY <1>9 DEF SendEmptySegment, send_empty_segment
  <2> HIDE DEF out
  <2> QED BY <2>2, <2>3, OutputGood
<1>10. CASE UNCHANGED vars
  BY <1>10 DEF vars
<1> QED BY <1>3, <1>4, <1>5, <1>6, <1>7, <1>8, <1>9, <1>10 DEF Next

(* The count of retransmissions is one. *)
LEMMA StepCounts == backed \in Nat /\ [Next]_vars => backed' \in Nat
BY DEF Next, Write, EndInput, TakeSegments, FillWindow, AckReceived, Tick, SendEmptySegment,
       Bit, vars

(* The inductive invariant. *)
SenderInv == Good(s) /\ s.isn = Isn /\ acked \in Nat /\ backed \in Nat

(* The types, the stream's counters and the timer hold together in every state
   the sender's handlers reach. *)
THEOREM SenderInvariant == Spec => []SenderInv
<1>1. Init => SenderInv
  BY InitGood DEF Init, SenderInv
<1>2. SenderInv /\ [Next]_vars => SenderInv'
  BY StepGood, StepCounts DEF SenderInv
<1> QED BY <1>1, <1>2, PTL DEF Spec

(* Every field of the sender keeps its type: no handler makes a window of zero,
   a negative size or timeout, or queues something that is not a segment. *)
THEOREM SenderTypeCorrect == Spec => []TypeOK
<1>1. SenderInv => TypeOK
  BY DEF SenderInv, Good, TypeOK
<1> QED BY <1>1, SenderInvariant, PTL

(* The retransmission timer runs exactly while a segment is outstanding, so
   retransmit() never takes the front of an empty queue and nothing sent is
   left without a timer. *)
THEOREM SenderTimerArmed == Spec => []TimerArmed
<1>1. SenderInv => TimerArmed
  BY DEF SenderInv, Good, Armed, TimerArmed, Queue
<1> QED BY <1>1, SenderInvariant, PTL

-----------------------------------------------------------------------------
(* What is outstanding, while the stream, its SYN and its FIN fit in one turn
   of the 32-bit sequence numbers.  The sender unwraps acknowledgments with
   checkpoint 0 and so knows no second turn. *)
OneTurn == StreamLen + 2 < Mod

FirstOf(seg) == unwrap(seg.seqno, Isn, 0)
EndOf(seg) == FirstOf(seg) + length_in_sequence_space(seg)

(* The segments of q follow one another up to next. *)
Tiles(q, next) ==
    \A i \in 1 .. Len(q) :
        /\ length_in_sequence_space(q[i]) > 0
        /\ EndOf(q[i]) = IF i = Len(q) THEN next ELSE FirstOf(q[i + 1])

(* a is the first unacknowledged number. *)
Unacked(q, next, a) ==
    IF q = <<>> THEN a = next ELSE FirstOf(q[1]) <= a /\ a < EndOf(q[1])

(* A segment holds the bytes its number names. *)
Carries(seg) ==
    /\ seg.syn <=> FirstOf(seg) = 0
    /\ \A j \in 1 .. Len(seg.payload) :
          seg.payload[j] = FirstOf(seg) + Bit(seg.syn) + j - 2
    /\ Len(seg.payload) <= MaxPayload

Loaded(q, over) ==
    \A i \in 1 .. Len(q) : Carries(q[i]) /\ (q[i].fin <=> over /\ i = Len(q))

(* How next_seqno, the stream and the state go together. *)
Numbered(t) ==
    /\ StreamIntact(t.stream) /\ t.stream.bytes_w <= StreamLen
    /\ t.next_seqno
         = Bit(t.state # "INIT") + t.stream.bytes_r + Bit(t.state = "FIN_SENT")
    /\ t.state = "INIT" => t.stream.bytes_r = 0
    /\ t.state = "FIN_SENT" => eof(t.stream)

Flight(t, a) ==
    /\ Numbered(t)
    /\ a = unwrap(t.ack, Isn, 0) /\ a <= t.next_seqno
    /\ Tiles(t.retransmission_queue, t.next_seqno)
    /\ Unacked(t.retransmission_queue, t.next_seqno, a)
    /\ Loaded(t.retransmission_queue, t.state = "FIN_SENT")

FlightInv == SenderInv /\ Flight(s, acked)

(* Numbers below one turn survive wrap and unwrap. *)
LEMMA BelowOneTurn ==
    ASSUME NEW x \in Nat, x < Mod
    PROVE  wrap(x, Isn) \in WrappingInt32 /\ unwrap(wrap(x, Isn), Isn, 0) = x
<1>1. Isn \in WrappingInt32 /\ Mod \in Nat \ {0}
  BY TCPSenderAssumption, Widths
<1>2. x % Mod = x
  BY <1>1
<1> QED BY <1>1, <1>2, UnwrapFromZero, WrapOffset

(* n bytes are cut into pieces of m, all full but the last. *)
LEMMA Pieces ==
    ASSUME NEW n \in Nat, NEW m \in Nat \ {0}, NEW k \in Nat \ {0}
    PROVE  /\ (n + m - 1) \div m \in Nat
           /\ (n + m - 1) \div m = 0 <=> n = 0
           /\ (k - 1) * m \in Nat /\ ((k + 1) - 1) * m = (k - 1) * m + m
           /\ k <= (n + m - 1) \div m => (k - 1) * m < n
           /\ k < (n + m - 1) \div m => (k - 1) * m + m < n
           /\ k = (n + m - 1) \div m => n <= (k - 1) * m + m
<1> DEFINE x == n + m - 1
           full == x \div m
           r == x % m
<1>1. x \in Nat /\ x \in Int
  OBVIOUS
<1>2. full \in Int /\ r \in 0 .. m - 1 /\ x = full * m + r
  BY <1>1, DivMod
<1>3. full \in Nat
  BY <1>1, DivNat
<1> HIDE DEF full, r
<1>4. full * m <= n + m - 1 /\ n <= full * m
  BY <1>2
<1>5. full = 0 <=> n = 0
  <2>1. full = 0 => n = 0
    BY <1>4
  <2>2. full >= 1 => full * m >= m
    BY <1>3
  <2>3. full >= 1 => n > 0
    <3>1. full * m \in Int
      BY <1>3
    <3> QED BY <1>4, <2>2, <3>1
  <2> QED BY <1>3, <2>1, <2>3
<1>6. /\ (k - 1) * m \in Nat /\ (k - 1) * m + m = k * m
      /\ ((k + 1) - 1) * m = k * m
  OBVIOUS
<1>7. ASSUME k <= full PROVE k * m <= full * m
  BY <1>3, <1>7
<1>8. ASSUME k < full PROVE k * m + m <= full * m
  BY <1>3, <1>8
<1>9. full * m \in Nat /\ k * m \in Nat
  BY <1>3
<1>10. k <= full => (k - 1) * m < n
  BY <1>4, <1>6, <1>7, <1>9
<1>11. k < full => (k - 1) * m + m < n
  BY <1>4, <1>6, <1>8, <1>9
<1>12. k = full => n <= (k - 1) * m + m
  BY <1>4, <1>6, <1>9
<1> QED BY <1>3, <1>5, <1>6, <1>10, <1>11, <1>12 DEF full

(* A plan that is not empty starts with SYN exactly in state INIT, is not made
   once FIN has been sent, and ends with FIN only behind the last byte. *)
LEMMA PlanNumbers ==
    ASSUME NEW t \in SenderType, Numbered(t)
    PROVE  /\ Plan(t).syn \/ Plan(t).fin \/ Plan(t).n # 0
                => t.state # "FIN_SENT" /\ (Plan(t).syn <=> t.state = "INIT")
           /\ Plan(t).fin => t.stream.end_flag /\ Plan(t).n = t.stream.size
<1> DEFINE room == (t.window_size - bytes_in_flight(t)) % Lim
           syn  == t.stream.bytes_r = 0 /\ t.state = "INIT"
           n    == SmallerOf(room - Bit(syn), t.stream.size)
           fin  == /\ t.stream.end_flag /\ n = t.stream.size
                   /\ Bit(syn) + n + 1 <= room
<1>1. Plan(t) = IF room = 0 \/ t.state = "FIN_SENT"
                THEN [syn |-> FALSE, n |-> 0, fin |-> FALSE]
                ELSE [syn |-> syn, n |-> n, fin |-> fin]
  BY DEF Plan
<1>2. syn <=> t.state = "INIT"
  BY DEF Numbered
<1> HIDE DEF room, syn, n
<1>3. CASE room = 0 \/ t.state = "FIN_SENT"
  BY <1>1, <1>3
<1>4. CASE ~(room = 0 \/ t.state = "FIN_SENT")
  BY <1>1, <1>2, <1>4
<1> QED BY <1>3, <1>4

(* The segments a plan is cut into tile its sequence numbers, and carry the
   bytes these stand for. *)
LEMMA SegmentsTile ==
    ASSUME NEW t, Good(t), t.isn = Isn, StreamIntact(t.stream),
           NEW plan, plan.syn \in BOOLEAN, plan.fin \in BOOLEAN,
           plan.n \in 0 .. t.stream.size,
           NEW next \in Nat, next < Mod,
           next = t.next_seqno + Bit(plan.syn) + plan.n + Bit(plan.fin),
           t.next_seqno + Bit(plan.syn) = t.stream.bytes_r + 1,
           plan.syn <=> t.next_seqno = 0
    PROVE  /\ Segments(t, plan) = <<>> <=> ~(plan.syn \/ plan.fin \/ plan.n # 0)
           /\ Segments(t, plan) # <<>> => FirstOf(Segments(t, plan)[1]) = t.next_seqno
           /\ Tiles(Segments(t, plan), next)
           /\ Loaded(Segments(t, plan), plan.fin)
<1> DEFINE base  == t.next_seqno
           b     == Bit(plan.syn)
           f     == Bit(plan.fin)
           extra == Bit(plan.syn \/ plan.fin)
           full  == (plan.n + MaxPayload - 1) \div MaxPayload
           count == IF full = 0 THEN extra ELSE full
           sent(i) == (i - 1) * MaxPayload
           first(i) == base + sent(i) + (IF i = 1 THEN 0 ELSE b)
           cut(i) == SmallerOf(sent(i) + MaxPayload, plan.n)
           part(i) == SubSeq(t.stream.stream, sent(i) + 1, cut(i))
           seg(i) == [NewSegment(wrap(first(i), Isn)) EXCEPT !.syn = plan.syn /\ i = 1,
                                                             !.fin = plan.fin /\ i = count,
                                                             !.payload = part(i)]
           segs == Segments(t, plan)
<1>1. /\ t \in SenderType /\ GoodStream(t.stream) /\ base \in Nat
      /\ t.stream.stream \in Seq(Byte) /\ t.stream.size = Len(t.stream.stream)
      /\ t.stream.size \in Nat /\ t.stream.bytes_r \in Nat
      /\ Mod \in Nat /\ MaxPayload \in Nat \ {0}
  BY GoodStreamOf, SenderFields, StreamFields, Widths, SenderAssumption
<1>2. /\ b \in {0, 1} /\ f \in {0, 1} /\ extra \in {0, 1} /\ plan.n \in Nat
      /\ plan.n <= Len(t.stream.stream)
      /\ (b = 1 <=> plan.syn) /\ (f = 1 <=> plan.fin) /\ (extra = 1 <=> plan.syn \/ plan.fin)
  BY <1>1 DEF Bit
<1>3. segs = [i \in 1 .. count |-> seg(i)]
  BY DEF Segments
<1>4. count \in Nat /\ (count = 0 <=> ~(plan.syn \/ plan.fin \/ plan.n # 0))
  <2>1. 1 \in Nat \ {0} /\ plan.n \in Nat /\ MaxPayload \in Nat \ {0}
    BY <1>1, <1>2
  <2>2. full \in Nat /\ (full = 0 <=> plan.n = 0)
    BY <2>1, Pieces
  <2> HIDE DEF full
  <2> QED BY <1>2, <2>2
<1>5. Len(segs) = count /\ (segs = <<>> <=> count = 0)
  <2> HIDE DEF seg, count
  <2> QED BY <1>3, <1>4
<1>6. ASSUME NEW i \in 1 .. count
      PROVE  /\ sent(i) \in Nat /\ cut(i) \in Nat /\ sent(i) <= cut(i) /\ cut(i) <= plan.n
             /\ cut(i) <= sent(i) + MaxPayload
             /\ i < count => cut(i) = sent(i) + MaxPayload
             /\ i < count => sent(i + 1) = sent(i) + MaxPayload
             /\ i = count => cut(i) = plan.n
             /\ i = 1 => sent(i) = 0
             /\ i # 1 => sent(i) > 0
             /\ plan.n = 0 => i = 1 /\ count = 1
             /\ plan.n # 0 => sent(i) < cut(i)
  <2> DEFINE n == plan.n
             m == MaxPayload
             z == sent(i)
             c == cut(i)
  <2>1. n \in Nat /\ m \in Nat \ {0} /\ i \in Nat \ {0}
    BY <1>1, <1>2, <1>4, SMTT(30)
  <2>2. /\ full \in Nat
        /\ full = 0 <=> n = 0
        /\ z \in Nat /\ sent(i + 1) = z + m
        /\ i <= full => z < n
        /\ i < full => z + m < n
        /\ i = full => n <= z + m
    <3>1. full = (n + m - 1) \div m /\ z = (i - 1) * m /\ sent(i + 1) = ((i + 1) - 1) * m
      OBVIOUS
    <3> HIDE DEF n, m, z, full, sent
    <3> QED BY <2>1, <3>1, Pieces, Zenon
  <2>3. i = 1 => z = 0
    BY <2>1
  <2>4. i # 1 => z > 0
    <3>1. i # 1 => i - 1 \in Nat \ {0}
      BY <2>1
    <3> QED BY <2>1, <3>1
  <2>5. count = IF full = 0 THEN extra ELSE full
    OBVIOUS
  <2>6. c = SmallerOf(z + m, n)
    OBVIOUS
  <2> HIDE DEF n, m, z, c, full, count, extra
  <2>7. /\ c \in Nat /\ z <= c /\ c <= n /\ c <= z + m
        /\ i < count => c = z + m
        /\ i = count => c = n
        /\ n = 0 => i = 1 /\ count = 1
        /\ n # 0 => z < c
    <3>1. extra \in {0, 1}
      BY <1>2
    <3> HIDE DEF sent
    <3> QED BY <2>1, <2>2, <2>3, <2>5, <2>6, <3>1 DEF SmallerOf
  <2> QED BY <2>2, <2>3, <2>4, <2>7 DEF n, m, z, c
<1> HIDE DEF sent, cut, count
<1>7. ASSUME NEW i \in 1 .. count
      PROVE  /\ FirstOf(segs[i]) = first(i) /\ segs[i].payload = part(i)
             /\ segs[i].syn <=> plan.syn /\ i = 1
             /\ segs[i].fin <=> plan.fin /\ i = count
  <2> DEFINE z == sent(i)
             c == cut(i)
  <2>1. z \in Nat /\ z <= plan.n /\ (i = 1 => z = 0)
        /\ i \in Nat /\ (z = plan.n => plan.n = 0)
    BY <1>1, <1>2, <1>4, <1>6
  <2> HIDE DEF z
  <2>2. first(i) \in Nat /\ first(i) < Mod
    <3>1. first(i) = base + z + (IF i = 1 THEN 0 ELSE b)
      BY DEF z
    <3> HIDE DEF first
    <3> QED BY <1>1, <1>2, <2>1, <3>1, SMTT(30)
  <2>3. segs[i] = seg(i)
    BY <1>3, Zenon
  <2> HIDE DEF first, segs, part
  <2>4. /\ segs[i].seqno = wrap(first(i), Isn) /\ segs[i].payload = part(i)
        /\ segs[i].syn <=> plan.syn /\ i = 1
        /\ segs[i].fin <=> plan.fin /\ i = count
    BY <2>3, ZenonT(60) DEF NewSegment
  <2>5. FirstOf(segs[i]) = first(i)
    BY <2>2, <2>4, BelowOneTurn DEF FirstOf
  <2> QED BY <2>4, <2>5
<1> HIDE DEF segs, seg
<1> DEFINE n == plan.n
           r == t.stream.bytes_r
           m == MaxPayload
<1>8. /\ base \in Nat /\ n \in Nat /\ r \in Nat /\ b \in {0, 1} /\ f \in {0, 1}
      /\ m \in Nat \ {0}
      /\ next = base + b + n + f /\ base + b = r + 1
      /\ b = 1 <=> base = 0
      /\ count # 0 /\ n = 0 => b = 1 \/ f = 1
  BY <1>1, <1>2, <1>4
<1>9. ASSUME NEW i \in 1 .. count
      PROVE  /\ length_in_sequence_space(segs[i]) > 0
             /\ EndOf(segs[i]) = IF i = count THEN next ELSE FirstOf(segs[i + 1])
             /\ Carries(segs[i])
  <2> DEFINE z == sent(i)
             c == cut(i)
             p == part(i)
             x == first(i)
             u == segs[i]
             d == IF i = 1 THEN b ELSE 0
             e == IF i = count THEN f ELSE 0
             size == length_in_sequence_space(u)
  <2>1. /\ z \in Nat /\ c \in Nat /\ z <= c /\ c <= n /\ c <= z + m
        /\ i < count => c = z + m
        /\ i < count => sent(i + 1) = z + m
        /\ i = count => c = n
        /\ i = 1 => z = 0
        /\ i # 1 => z > 0
        /\ n = 0 => i = 1 /\ count = 1
        /\ n # 0 => z < c
    BY <1>6
  <2>2. /\ FirstOf(u) = x /\ u.payload = p
        /\ u.syn <=> plan.syn /\ i = 1
        /\ u.fin <=> plan.fin /\ i = count
    BY <1>7
  <2>3. x = base + z + (b - d)
    BY <1>8, <2>1
  <2>4. i # count => FirstOf(segs[i + 1]) = base + sent(i + 1) + b /\ i < count
    <3> SUFFICES ASSUME i # count
                 PROVE  FirstOf(segs[i + 1]) = base + sent(i + 1) + b /\ i < count
      OBVIOUS
    <3>1. i + 1 \in 1 .. count /\ i < count /\ i + 1 # 1
      BY <1>4
    <3>2. FirstOf(segs[i + 1]) = first(i + 1)
      BY <1>7, <3>1
    <3> QED BY <3>1, <3>2
  <2>5. p = SubSeq(t.stream.stream, z + 1, c) /\ n <= Len(t.stream.stream)
    BY <1>2
  <2>6. /\ d \in {0, 1} /\ e \in {0, 1} /\ Bit(u.syn) = d /\ Bit(u.fin) = e
        /\ u.syn <=> d = 1
    BY <1>2, <2>2 DEF Bit
  <2>7. /\ i = count => e = f
        /\ i # count => e = 0
        /\ i = 1 => d = b
        /\ i # 1 => d = 0
    OBVIOUS
  <2> HIDE DEF z, c, p, x, u, first, part, base, b, f, d, e, n, r, m
  <2>8. /\ p \in Seq(Byte) /\ Len(p) = c - z
        /\ \A j \in 1 .. c - z : p[j] = t.stream.stream[z + j]
    BY <1>1, <1>8, <2>1, <2>5, SMTT(30)
  <2>9. ASSUME NEW j \in 1 .. c - z PROVE p[j] = r + z + j - 1
    <3>1. z + j \in 1 .. Len(t.stream.stream) /\ j \in Int
      BY <1>1, <1>8, <2>1, <2>5, SMTT(30)
    <3>2. t.stream.stream[z + j] = r + (z + j) - 1
      BY <3>1 DEF StreamIntact, r
    <3> QED BY <1>8, <2>1, <2>8, <3>1, <3>2
  <2>10. size = (c - z) + d + e
    BY <2>2, <2>6, <2>8 DEF length_in_sequence_space
  <2> HIDE DEF size
  <2>11. size > 0
    <3>1. CASE n # 0
      BY <2>1, <2>6, <2>10, <3>1
    <3>2. CASE n = 0
      <4>1. i = 1 /\ i = count /\ count # 0 /\ c - z = 0
        BY <2>1, <3>2
      <4> QED BY <1>8, <2>6, <2>7, <2>10, <3>2, <4>1
    <3> QED BY <3>1, <3>2
  <2>12. EndOf(u) = IF i = count THEN next ELSE FirstOf(segs[i + 1])
    <3>1. EndOf(u) = x + size
      BY <2>2 DEF EndOf, size
    <3>2. EndOf(u) = base + b + c + e
      BY <1>8, <2>1, <2>3, <2>6, <2>10, <3>1
    <3> QED BY <1>8, <2>1, <2>4, <2>7, <3>2
  <2>13. Carries(u)
    <3>1. u.syn <=> x = 0
      BY <1>8, <2>1, <2>3, <2>6, <2>7
    <3>2. ASSUME NEW j \in 1 .. c - z PROVE p[j] = x + Bit(u.syn) + j - 2
      <4>1. x \in Int /\ j \in Int /\ x + d = r + 1 + z
        BY <1>8, <2>1, <2>3, <2>6
      <4>2. p[j] = r + z + j - 1
        BY <2>9
      <4> QED BY <1>8, <2>1, <2>6, <4>1, <4>2
    <3>3. Len(p) <= m
      BY <1>8, <2>1, <2>8
    <3> QED BY <2>2, <2>8, <3>1, <3>2, <3>3 DEF Carries, m
  <2> QED BY <2>11, <2>12, <2>13 DEF u, size
<1>10. Tiles(segs, next)
  BY <1>5, <1>9 DEF Tiles
<1>11. Loaded(segs, plan.fin)
  BY <1>5, <1>7, <1>9 DEF Loaded
<1>12. segs # <<>> => FirstOf(segs[1]) = base
  <2>1. count # 0 => 1 \in 1 .. count
    BY <1>4
  <2>2. count # 0 => FirstOf(segs[1]) = first(1) /\ sent(1) = 0
    BY <1>6, <1>7, <2>1
  <2> QED BY <1>1, <1>5, <2>2
<1> QED BY <1>4, <1>5, <1>10, <1>11, <1>12 DEF segs

LEMMA SegmentLength ==
    ASSUME NEW seg \in SegmentType
    PROVE  length_in_sequence_space(seg) \in Nat
<1>1. seg.payload \in Seq(Byte) /\ seg.syn \in BOOLEAN /\ seg.fin \in BOOLEAN
  BY DEF SegmentType
<1>2. Len(seg.payload) \in Nat
  BY <1>1, LenProperties
<1>3. Bit(seg.syn) \in Nat /\ Bit(seg.fin) \in Nat
  BY DEF Bit
<1> QED BY <1>2, <1>3 DEF length_in_sequence_space

(* New segments behind the queued ones. *)
LEMMA QueueJoin ==
    ASSUME NEW q \in Seq(SegmentType), NEW new \in Seq(SegmentType), new # <<>>,
           NEW mid \in Nat, NEW next \in Nat, NEW a \in Nat, NEW over \in BOOLEAN,
           Tiles(q, mid), Tiles(new, next), FirstOf(new[1]) = mid,
           Unacked(q, mid, a), Loaded(q, FALSE), Loaded(new, over)
    PROVE  /\ Tiles(q \o new, next) /\ Unacked(q \o new, next, a) /\ Loaded(q \o new, over)
<1> DEFINE all == q \o new
           l   == Len(q)
           k   == Len(new)
<1>1. l \in Nat /\ k \in Nat \ {0}
  BY LenProperties, EmptySeq
<1>2. /\ all \in Seq(SegmentType) /\ Len(all) = l + k
      /\ \A i \in 1 .. l : all[i] = q[i]
      /\ \A i \in 1 .. k : all[l + i] = new[i]
  BY <1>1
<1> HIDE DEF all, l, k
<1>3. ASSUME NEW i \in 1 .. Len(all)
      PROVE  /\ length_in_sequence_space(all[i]) > 0
             /\ EndOf(all[i]) = IF i = Len(all) THEN next ELSE FirstOf(all[i + 1])
             /\ Carries(all[i]) /\ (all[i].fin <=> over /\ i = Len(all))
  <2>1. CASE i <= l
    <3>1. i \in 1 .. l /\ i # Len(all)
      BY <1>1, <1>2, <2>1
    <3>2. /\ length_in_sequence_space(q[i]) > 0 /\ Carries(q[i]) /\ ~q[i].fin
          /\ EndOf(q[i]) = IF i = l THEN mid ELSE FirstOf(q[i + 1])
      BY <3>1 DEF Tiles, Loaded, l
    <3>3. CASE i = l
      <4>1. 1 \in 1 .. k
        BY <1>1
      <4>2. all[i + 1] = new[1]
        BY <1>2, <3>3, <4>1
      <4> QED BY <1>2, <3>1, <3>2, <3>3, <4>2
    <3>4. CASE i # l
      <4>1. i + 1 \in 1 .. l
        BY <1>1, <3>1, <3>4
      <4> QED BY <1>2, <3>1, <3>2, <3>4, <4>1
    <3> QED BY <3>3, <3>4
  <2>2. CASE ~(i <= l)
    <3> DEFINE j == i - l
    <3>1. j \in 1 .. k /\ l + j = i /\ (i = Len(all) <=> j = k) /\ l + (j + 1) = i + 1
      BY <1>1, <1>2, <2>2
    <3> HIDE DEF j
    <3>2. all[i] = new[j]
      BY <1>2, <3>1
    <3>3. /\ length_in_sequence_space(new[j]) > 0 /\ Carries(new[j])
          /\ new[j].fin <=> over /\ j = k
          /\ EndOf(new[j]) = IF j = k THEN next ELSE FirstOf(new[j + 1])
      BY <3>1 DEF Tiles, Loaded, k
    <3>4. j # k => all[i + 1] = new[j + 1]
      <4>1. j # k => j + 1 \in 1 .. k
        BY <1>1, <3>1
      <4>2. j # k => all[l + (j + 1)] = new[j + 1]
        BY <1>2, <4>1
      <4> QED BY <3>1, <4>2
    <3> QED BY <3>1, <3>2, <3>3, <3>4
  <2> QED BY <2>1, <2>2
<1>4. Unacked(all, next, a)
  <2>1. all # <<>>
    BY <1>1, <1>2
  <2>2. CASE q = <<>>
    <3>1. l = 0 /\ 1 \in 1 .. k
      BY <1>1, <2>2 DEF l
    <3>2. all[1] = new[1]
      BY <1>2, <3>1
    <3>3. length_in_sequence_space(new[1]) > 0
      BY <3>1 DEF Tiles, k
    <3>4. new[1] \in SegmentType
      BY <3>1 DEF k
    <3>5. length_in_sequence_space(new[1]) \in Nat
      BY <3>4, SegmentLength
    <3>6. a = mid
      BY <2>2 DEF Unacked
    <3> QED BY <2>1, <3>2, <3>3, <3>5, <3>6 DEF Unacked, EndOf
  <2>3. CASE q # <<>>
    <3>1. 1 \in 1 .. l
      BY <2>3, <1>1, EmptySeq DEF l
    <3>2. all[1] = q[1]
      BY <1>2, <3>1
    <3> QED BY <2>1, <2>3, <3>2 DEF Unacked
  <2> QED BY <2>2, <2>3
<1> QED BY <1>3, <1>4, Zenon DEF Tiles, Loaded, all

LEMMA NothingPlanned ==
    ASSUME NEW t, NEW plan, ~plan.syn, ~plan.fin, plan.n = 0
    PROVE  Segments(t, plan) = <<>>
<1> DEFINE full  == (plan.n + MaxPayload - 1) \div MaxPayload
           count == IF full = 0 THEN Bit(plan.syn \/ plan.fin) ELSE full
           sent(i) == (i - 1) * MaxPayload
           seg(i) == [NewSegment(wrap(t.next_seqno + sent(i)
                                        + (IF i = 1 THEN 0 ELSE Bit(plan.syn)), t.isn))
                        EXCEPT !.syn = plan.syn /\ i = 1,
                               !.fin = plan.fin /\ i = count,
                               !.payload = SubSeq(t.stream.stream, sent(i) + 1,
                                                  SmallerOf(sent(i) + MaxPayload, plan.n))]
<1>1. Segments(t, plan) = [i \in 1 .. count |-> seg(i)]
  BY DEF Segments
<1>2. 1 \in Nat \ {0} /\ plan.n \in Nat /\ MaxPayload \in Nat \ {0}
  BY SenderAssumption
<1>3. full = 0
  BY <1>2, Pieces
<1> HIDE DEF full, seg
<1>4. count = 0
  BY <1>3 DEF Bit
<1> HIDE DEF count
<1> QED BY <1>1, <1>4

(* fill_window keeps what is outstanding in one piece: what it adds starts where
   the queue ended, and next_seqno moves to its end. *)
LEMMA FillFlight ==
    ASSUME OneTurn, NEW t, Good(t), t.isn = Isn, NEW a \in Nat, Flight(t, a)
    PROVE  Flight(fill_window(t), a)
<1> DEFINE plan == Plan(t)
           segs == Segments(t, plan)
           out   == t.segments_out \o segs
           queue == t.retransmission_queue \o segs
           next  == t.next_seqno + Bit(plan.syn) + plan.n + Bit(plan.fin)
           rest  == pop_output(t.stream, plan.n)
           phase == IF plan.fin THEN "FIN_SENT" ELSE IF plan.syn THEN "SYN_SENT" ELSE t.state
           clock == IF t.timer.running THEN t.timer ELSE start(t.rto)
<1>1. /\ t \in SenderType /\ GoodStream(t.stream) /\ Numbered(t)
      /\ t.retransmission_queue \in Seq(SegmentType) /\ t.next_seqno \in Nat
      /\ t.state \in {"INIT", "SYN_SENT", "FIN_SENT"}
  BY GoodStreamOf, SenderFields DEF Flight
<1>2. plan.syn \in BOOLEAN /\ plan.fin \in BOOLEAN /\ plan.n \in 0 .. t.stream.size
  BY <1>1, PlanType
<1>3. segs \in Seq(SegmentType)
  BY <1>1, SegmentsType
<1>4. fill_window(t) =
        IF segs = <<>> THEN t
        ELSE [t EXCEPT !.segments_out = out, !.retransmission_queue = queue,
                       !.next_seqno = next, !.stream = rest, !.state = phase,
                       !.timer = clock]
  BY DEF fill_window, SendPlanned, Enqueue
<1>5. CASE segs = <<>>
  BY <1>4, <1>5
<1>6. CASE segs # <<>>
  <2>1. plan.syn \/ plan.fin \/ plan.n # 0
    BY <1>6, NothingPlanned
  <2>2. /\ t.state # "FIN_SENT" /\ (plan.syn <=> t.state = "INIT")
        /\ plan.fin => t.stream.end_flag /\ plan.n = t.stream.size
    BY <1>1, <2>1, PlanNumbers, SMTT(30)
  <2> DEFINE n == plan.n
             b == Bit(plan.syn)
             f == Bit(plan.fin)
             r == t.stream.bytes_r
             size == t.stream.size
             base == t.next_seqno
  <2>3. /\ base \in Nat /\ r \in Nat /\ n \in 0 .. size /\ size \in Nat
        /\ b \in {0, 1} /\ f \in {0, 1} /\ r + size <= StreamLen
        /\ StreamLen + 2 < Mod /\ StreamLen \in Nat /\ Mod \in Nat
        /\ next = base + b + n + f
    BY <1>1, <1>2, BitType, StreamFields, Widths, TCPSenderAssumption
       DEF OneTurn, Numbered, StreamIntact
  <2>4. base + b = r + 1 /\ (plan.syn <=> base = 0)
    <3>1. CASE t.state = "INIT"
      BY <1>1, <2>2, <3>1 DEF Numbered, Bit
    <3>2. CASE t.state # "INIT"
      <4>1. base = 1 + r + 0 /\ b = 0 /\ ~plan.syn
        BY <1>1, <2>2, <3>2 DEF Numbered, Bit
      <4> QED BY <2>3, <4>1
    <3> QED BY <3>1, <3>2
  <2>5. next \in Nat /\ next < Mod
    <3> HIDE DEF next, n, b, f, r, size, base
    <3> QED BY <2>3, <2>4, SMTT(30)
  <2>6. /\ FirstOf(segs[1]) = base /\ Tiles(segs, next) /\ Loaded(segs, plan.fin)
    <3>1. StreamIntact(t.stream)
      BY <1>1 DEF Numbered
    <3> HIDE DEF plan
    <3> QED BY <1>2, <1>6, <2>4, <2>5, <3>1, SegmentsTile, SMTT(30)
  <2>7. Tiles(queue, next) /\ Unacked(queue, next, a) /\ Loaded(queue, plan.fin)
    <3>1. /\ Tiles(t.retransmission_queue, base) /\ Unacked(t.retransmission_queue, base, a)
          /\ Loaded(t.retransmission_queue, FALSE) /\ a <= base
      BY <2>2, ZenonT(60) DEF Flight
    <3> HIDE DEF next, base, segs, plan
    <3> QED BY <1>1, <1>2, <1>3, <1>6, <2>3, <2>5, <2>6, <3>1, QueueJoin, ZenonT(60)
  <2>8. /\ GoodStream(rest) /\ rest.size = size - n /\ rest.bytes_r = r + n
        /\ rest.bytes_w = t.stream.bytes_w /\ (rest.end_flag <=> t.stream.end_flag)
        /\ StreamIntact(rest)
    <3>1. StreamIntact(t.stream) /\ n \in 0 .. t.stream.size
      BY <1>1, <1>2 DEF Numbered
    <3> QED BY <1>1, <3>1, PopEffect, PopIntact
  <2> DEFINE u == [t EXCEPT !.segments_out = out, !.retransmission_queue = queue,
                            !.next_seqno = next, !.stream = rest, !.state = phase,
                            !.timer = clock]
  <2>9. fill_window(t) = u
    BY <1>4, <1>6
  <2> HIDE DEF out, queue, next, rest, clock
  <2>10. /\ u.stream = rest /\ u.retransmission_queue = queue /\ u.next_seqno = next
         /\ u.state = phase /\ u.ack = t.ack
    BY <1>1 DEF SenderType
  <2> HIDE DEF u
  <2>11. phase # "INIT" /\ (phase = "FIN_SENT" <=> plan.fin)
    BY <1>2, <2>2
  <2> HIDE DEF phase
  <2>12. Numbered(u)
    <3>1. rest.bytes_w <= StreamLen
      BY <1>1, <2>8 DEF Numbered
    <3>2. next = 1 + (r + n) + f
      <4> HIDE DEF n, b, f, r, size, base
      <4> QED BY <2>3, <2>4
    <3>3. Bit(phase # "INIT") = 1 /\ Bit(phase = "FIN_SENT") = f
      BY <2>11 DEF Bit
    <3>4. phase = "FIN_SENT" => eof(rest)
      <4>1. phase = "FIN_SENT" => rest.end_flag /\ rest.size = 0
        <5> HIDE DEF plan
        <5> QED BY <2>2, <2>3, <2>8, <2>11
      <4> QED BY <4>1, <2>8, StreamEmpty DEF eof
    <3> HIDE DEF n, f, r
    <3> QED BY <2>8, <2>10, <2>11, <3>1, <3>2, <3>3, <3>4, SMTT(30) DEF Numbered
  <2>13. a = unwrap(u.ack, Isn, 0) /\ a <= next
    <3>1. a = unwrap(t.ack, Isn, 0) /\ a <= base
      BY DEF Flight
    <3> HIDE DEF n, b, f, r, size, base
    <3> QED BY <2>3, <2>5, <2>10, <3>1
  <2>14. Loaded(queue, u.state = "FIN_SENT")
    BY <2>7, <2>10, <2>11 DEF Loaded
  <2> QED BY <2>7, <2>9, <2>10, <2>12, <2>13, <2>14 DEF Flight
<1> QED BY <1>5, <1>6

(* Flight looks at the stream, the numbers and the queue only. *)
LEMMA FlightSame ==
    ASSUME NEW t, NEW u, NEW a, Flight(t, a),
           u.stream = t.stream, u.next_seqno = t.next_seqno, u.state = t.state,
           u.ack = t.ack, u.retransmission_queue = t.retransmission_queue
    PROVE  Flight(u, a)
<1>1. Numbered(u)
  BY DEF Flight, Numbered
<1>2. /\ Tiles(u.retransmission_queue, u.next_seqno)
      /\ Unacked(u.retransmission_queue, u.next_seqno, a)
      /\ Loaded(u.retransmission_queue, u.state = "FIN_SENT")
      /\ a = unwrap(u.ack, Isn, 0) /\ a <= u.next_seqno
  BY DEF Flight
<1> QED BY <1>1, <1>2 DEF Flight

(* A queue keeps tiling and its payloads when a part at its head is removed. *)
LEMMA QueueTail ==
    ASSUME NEW q \in Seq(SegmentType), NEW n \in 0 .. Len(q)
    PROVE  /\ SubSeq(q, n + 1, Len(q)) \in Seq(SegmentType)
           /\ \A next : Tiles(q, next) => Tiles(SubSeq(q, n + 1, Len(q)), next)
           /\ \A over : Loaded(q, over) => Loaded(SubSeq(q, n + 1, Len(q)), over)
           /\ SubSeq(q, n + 1, Len(q)) = <<>> <=> n = Len(q)
           /\ SubSeq(q, n + 1, Len(q)) # <<>> =>
                 n + 1 \in 1 .. Len(q) /\ SubSeq(q, n + 1, Len(q))[1] = q[n + 1]
<1> DEFINE l == Len(q)
           rest == SubSeq(q, n + 1, Len(q))
<1>1. l \in Nat /\ n \in Nat /\ n <= l
  BY LenProperties
<1>2. /\ rest \in Seq(SegmentType) /\ Len(rest) = l - n
      /\ \A i \in 1 .. l - n : rest[i] = q[n + i]
  BY <1>1
<1> HIDE DEF l, rest
<1>3. ASSUME NEW i \in 1 .. Len(rest)
      PROVE  /\ rest[i] = q[n + i] /\ n + i \in 1 .. l /\ (n + i = l <=> i = Len(rest))
             /\ i # Len(rest) => rest[i + 1] = q[(n + i) + 1]
  <2>1. n + i \in 1 .. l /\ (n + i = l <=> i = Len(rest)) /\ n + (i + 1) = (n + i) + 1
    BY <1>1, <1>2
  <2>2. i # Len(rest) => i + 1 \in 1 .. l - n
    BY <1>1, <1>2
  <2>3. rest[i] = q[n + i]
    BY <1>2
  <2> QED BY <1>2, <2>1, <2>2, <2>3
<1>4. rest = <<>> <=> n = l
  <2>1. rest = <<>> <=> Len(rest) = 0
    BY <1>2, EmptySeq
  <2> QED BY <1>1, <1>2, <2>1
<1>5. rest # <<>> => n + 1 \in 1 .. l /\ rest[1] = q[n + 1]
  <2>1. rest # <<>> => n + 1 \in 1 .. l /\ 1 \in 1 .. l - n
    BY <1>1, <1>4
  <2> QED BY <1>2, <2>1
<1>6. ASSUME NEW next, Tiles(q, next) PROVE Tiles(rest, next)
  BY <1>3, <1>6 DEF Tiles, l
<1>7. ASSUME NEW over, Loaded(q, over) PROVE Loaded(rest, over)
  BY <1>3, <1>7 DEF Loaded, l
<1> QED BY <1>2, <1>4, <1>5, <1>6, <1>7 DEF l, rest

(* An acknowledgment of something new leaves exactly the segments that end
   after it. *)
LEMMA NewlyAckedFlight ==
    ASSUME NEW t, Good(t), t.isn = Isn, NEW a \in Nat, Flight(t, a),
           NEW x \in Nat, a < x, x <= t.next_seqno, x < Mod
    PROVE  Flight(NewlyAcked(t, wrap(x, Isn)), x)
<1> DEFINE ackno == wrap(x, Isn)
           q     == t.retransmission_queue
           n     == FullyAcked(t, unwrap(ackno, t.isn, 0))
           rest  == SubSeq(q, n + 1, Len(q))
           clock == IF rest = <<>> THEN [t.timer EXCEPT !.running = FALSE]
                    ELSE start(RtTimeout)
           u     == [t EXCEPT !.ack = ackno, !.rto = RtTimeout,
                              !.retransmission_queue = rest, !.timer = clock,
                              !.consecutive_retran = 0]
           next  == t.next_seqno
           over  == t.state = "FIN_SENT"
<1>1. t \in SenderType /\ q \in Seq(SegmentType) /\ next \in Nat /\ over \in BOOLEAN
  BY SenderFields DEF Good
<1>2. NewlyAcked(t, ackno) = u
  BY DEF NewlyAcked
<1>3. ackno \in WrappingInt32 /\ unwrap(ackno, Isn, 0) = x
  BY BelowOneTurn
<1> HIDE DEF ackno
<1>4. /\ n \in 0 .. Len(q)
      /\ \A i \in 1 .. n : EndOf(q[i]) <= x
      /\ n < Len(q) => ~(EndOf(q[n + 1]) <= x)
  <2>1. n = FullyAcked(t, x)
    BY <1>3
  <2> HIDE DEF n
  <2> QED BY <1>1, <2>1, FullyAckedPrefix, Zenon DEF EndOf, FirstOf
<1>5. Tiles(q, next) /\ Loaded(q, over) /\ Unacked(q, next, a) /\ Numbered(t)
  BY DEF Flight
<1> HIDE DEF n, over, next
<1>6. /\ rest \in Seq(SegmentType) /\ Tiles(rest, next) /\ Loaded(rest, over)
      /\ rest = <<>> <=> n = Len(q)
      /\ rest # <<>> => n + 1 \in 1 .. Len(q) /\ rest[1] = q[n + 1]
  <2>1. rest = SubSeq(q, n + 1, Len(q))
    OBVIOUS
  <2>2. /\ q \in Seq(SegmentType) /\ next \in Nat /\ over \in BOOLEAN /\ n \in 0 .. Len(q)
        /\ Tiles(q, next) /\ Loaded(q, over)
    BY <1>1, <1>4, <1>5
  <2> HIDE DEF q, rest
  <2> QED BY <2>1, <2>2, QueueTail
<1> HIDE DEF rest, clock
<1>7. /\ u.stream = t.stream /\ u.ack = ackno /\ u.next_seqno = next
      /\ u.retransmission_queue = rest /\ u.state = t.state
  BY <1>1 DEF SenderType, next
<1> HIDE DEF u, q
<1>8. Unacked(rest, next, x)
  <2>1. Len(q) \in Nat /\ n \in Nat /\ n <= Len(q)
    BY <1>1, <1>4, LenProperties
  <2>2. ASSUME NEW i \in 1 .. Len(q) PROVE FirstOf(q[i]) \in Nat /\ EndOf(q[i]) \in Nat
    <3>1. q[i] \in SegmentType
      BY <1>1
    <3>2. q[i].seqno \in WrappingInt32 /\ Isn \in WrappingInt32
      BY <3>1, TCPSenderAssumption DEF SegmentType
    <3>3. FirstOf(q[i]) \in Nat
      BY <3>2, UnwrapType DEF FirstOf
    <3>4. length_in_sequence_space(q[i]) \in Nat
      BY <3>1, SegmentLength
    <3> QED BY <3>3, <3>4 DEF EndOf
  <2>3. CASE rest = <<>>
    <3>1. n = Len(q)
      BY <1>6, <2>3
    <3>2. CASE n = 0
      <4>1. q = <<>>
        BY <1>1, <3>1, <3>2, EmptySeq, Zenon
      <4>2. a = next
        BY <1>5, <4>1 DEF Unacked
      <4> QED BY <1>1, <4>2 DEF next
    <3>3. CASE n # 0
      <4>1. n \in 1 .. Len(q) /\ n \in 1 .. n
        BY <2>1, <3>3
      <4>2. EndOf(q[n]) = next /\ EndOf(q[n]) <= x
        BY <1>4, <1>5, <3>1, <4>1 DEF Tiles
      <4>3. x = next
        BY <1>1, <4>2 DEF next
      <4> QED BY <2>3, <4>3 DEF Unacked
    <3> QED BY <3>2, <3>3
  <2>4. CASE rest # <<>>
    <3> DEFINE k == n + 1
    <3>1. k \in 1 .. Len(q) /\ rest[1] = q[k] /\ n < Len(q)
      BY <1>6, <2>1, <2>4
    <3>2. ~(EndOf(q[k]) <= x) /\ EndOf(q[k]) \in Nat /\ FirstOf(q[k]) \in Nat
      BY <1>4, <2>2, <3>1
    <3>3. FirstOf(q[k]) <= x
      <4>1. CASE n = 0
        <5>1. k = 1 /\ q # <<>>
          BY <3>1, <4>1
        <5>2. FirstOf(q[1]) <= a
          BY <1>5, <5>1 DEF Unacked
        <5> QED BY <3>2, <5>1, <5>2
      <4>2. CASE n # 0
        <5>1. n \in 1 .. n /\ n \in 1 .. Len(q) /\ n # Len(q)
          BY <2>1, <3>1, <4>2
        <5>2. EndOf(q[n]) <= x
          BY <1>4, <5>1
        <5>3. EndOf(q[n]) = FirstOf(q[k])
          BY <1>5, <5>1 DEF Tiles
        <5> QED BY <5>2, <5>3
      <4> QED BY <4>1, <4>2
    <3> HIDE DEF k
    <3>4. x < EndOf(q[k])
      BY <3>2
    <3> QED BY <2>4, <3>1, <3>3, <3>4 DEF Unacked
  <2> QED BY <2>3, <2>4
<1>9. Numbered(u)
  BY <1>5, <1>7 DEF Numbered, next
<1>10. Loaded(rest, u.state = "FIN_SENT")
  BY <1>6, <1>7 DEF over
<1>11. x = unwrap(u.ack, Isn, 0) /\ x <= u.next_seqno
  BY <1>3, <1>7, SMTT(30) DEF next
<1>12. Flight(u, x)
  BY <1>6, <1>7, <1>8, <1>9, <1>10, <1>11 DEF Flight
<1> QED BY <1>2, <1>12 DEF ackno

LEMMA SetWindowFlight ==
    ASSUME NEW t, Good(t), NEW a, Flight(t, a), NEW w
    PROVE  Flight(SetWindow(t, w), a) /\ SetWindow(t, w).next_seqno = t.next_seqno
<1> DEFINE u == SetWindow(t, w)
<1>1. t \in SenderType
  BY DEF Good
<1>2. /\ u.stream = t.stream /\ u.next_seqno = t.next_seqno /\ u.state = t.state
      /\ u.ack = t.ack /\ u.retransmission_queue = t.retransmission_queue
  BY <1>1 DEF SetWindow, SenderType
<1> HIDE DEF u
<1>3. Flight(u, a)
  BY <1>2, FlightSame
<1> QED BY <1>2, <1>3 DEF u

(* Acknowledgments of every number up to one that was never sent: the sender
   takes the new ones and no other. *)
LEMMA AckFlight ==
    ASSUME OneTurn, NEW t, Good(t), t.isn = Isn, NEW a \in Nat, Flight(t, a),
           NEW x \in 1 .. t.next_seqno + 1, NEW w \in Nat
    PROVE  Flight(ack_received(t, wrap(x, Isn), w),
                  IF a < x /\ x <= t.next_seqno THEN x ELSE a)
<1> DEFINE y == unwrap(wrap(x, Isn), Isn, 0)
           u == SetWindow(t, w)
           next == t.next_seqno
           good == a < x /\ x <= next
<1>1. t \in SenderType /\ next \in Nat /\ Mod \in Nat
  BY SenderFields, Widths DEF Good
<1>2. x \in Nat /\ 1 <= x /\ x <= next + 1
  BY <1>1
<1>3. next < Mod
  <2>1. /\ t.stream.bytes_r \in Nat /\ t.stream.size \in Nat /\ t.stream.bytes_w <= StreamLen
        /\ t.stream.bytes_w = t.stream.bytes_r + t.stream.size
    BY GoodStreamOf, StreamFields DEF Flight, Numbered, StreamIntact
  <2>2. next = Bit(t.state # "INIT") + t.stream.bytes_r + Bit(t.state = "FIN_SENT")
    BY DEF Flight, Numbered
  <2>3. Bit(t.state # "INIT") \in {0, 1} /\ Bit(t.state = "FIN_SENT") \in {0, 1}
    BY DEF Bit
  <2> HIDE DEF next
  <2> QED BY <1>1, <2>1, <2>2, <2>3, TCPSenderAssumption, SMTT(30) DEF OneTurn
<1>4. Good(u) /\ u.isn = Isn /\ Flight(u, a) /\ u.next_seqno = next
  BY SetWindowGood, SetWindowFlight, Zenon
<1>5. a = unwrap(t.ack, Isn, 0)
  BY DEF Flight
<1>6. ack_received(t, wrap(x, Isn), w) =
        IF y > next \/ y <= a THEN u ELSE NewlyAcked(u, wrap(x, Isn))
  BY <1>5, Zenon DEF ack_received
<1>7. x < Mod => y = x
  BY <1>2, BelowOneTurn
<1>8. x = Mod => y = 0
  <2>1. Isn \in WrappingInt32 /\ Mod \in Nat \ {0} /\ (Mod % Mod = 0)
    BY TCPSenderAssumption, Widths
  <2>2. Mod \in Nat /\ unwrap(wrap(Mod, Isn), Isn, 0) = Mod % Mod
    BY <2>1, UnwrapFromZero, WrapOffset
  <2> QED BY <2>1, <2>2
<1> HIDE DEF y, u, next
<1>9. x < Mod \/ x = Mod
  BY <1>1, <1>2, <1>3
<1>10. good <=> ~(y > next \/ y <= a)
  <2>1. CASE x < Mod
    BY <1>1, <1>2, <1>7, <2>1
  <2>2. CASE x = Mod
    BY <1>1, <1>2, <1>3, <1>8, <2>2
  <2> QED BY <1>9, <2>1, <2>2
<1>11. CASE good
  <2>1. x < Mod
    BY <1>1, <1>2, <1>3, <1>11
  <2>2. Flight(NewlyAcked(u, wrap(x, Isn)), x)
    BY <1>2, <1>4, <1>11, <2>1, NewlyAckedFlight
  <2>3. ack_received(t, wrap(x, Isn), w) = NewlyAcked(u, wrap(x, Isn))
    BY <1>6, <1>10, <1>11
  <2> QED BY <1>11, <2>2, <2>3 DEF next
<1>12. CASE ~good
  BY <1>4, <1>6, <1>10, <1>12 DEF next
<1> QED BY <1>11, <1>12

(* A tick, with or without a retransmission, leaves what is outstanding alone. *)
LEMMA TickFlight ==
    ASSUME NEW t, Good(t), NEW a, Flight(t, a), NEW ms \in Nat
    PROVE  Flight(sender_tick(t, ms), a)
<1> DEFINE same(u) == /\ u.stream = t.stream /\ u.next_seqno = t.next_seqno
                      /\ u.state = t.state /\ u.ack = t.ack
                      /\ u.retransmission_queue = t.retransmission_queue
<1>1. t \in SenderType /\ t.window_size # 0
  BY SenderFields DEF Good
<1>2. ASSUME NEW c PROVE same([t EXCEPT !.timer = c])
  BY <1>1 DEF SenderType
<1>3. same(retransmit(t))
  <2> DEFINE seg   == Head(t.retransmission_queue)
             count == IF t.last_retrans_seqno = seg.seqno THEN t.consecutive_retran + 1 ELSE 1
             rto   == IF t.window_probe THEN t.rto ELSE 2 * t.rto
             out   == Append(t.segments_out, seg)
             no    == seg.seqno
             clock == start(rto)
  <2>1. retransmit(t) = [[t EXCEPT !.segments_out = out]
                            EXCEPT !.consecutive_retran = count, !.last_retrans_seqno = no,
                                   !.rto = rto, !.timer = clock]
    BY <1>1, Zenon DEF retransmit
  <2> HIDE DEF count, rto, out, no, clock
  <2> QED BY <1>1, <2>1 DEF SenderType
<1>4. same(t)
  OBVIOUS
<1>5. sender_tick(t, ms) = IF ~t.timer.running THEN t
                           ELSE IF t.timer.rto > ms
                           THEN [t EXCEPT !.timer = [t.timer EXCEPT !.rto = @ - ms]]
                           ELSE retransmit(t)
  BY DEF sender_tick
<1>6. same(sender_tick(t, ms))
  <2> HIDE DEF same
  <2> QED BY <1>2, <1>3, <1>4, <1>5
<1> QED BY <1>6, FlightSame

LEMMA OutputFlight ==
    ASSUME NEW t, Good(t), NEW a, Flight(t, a), NEW out
    PROVE  Flight([t EXCEPT !.segments_out = out], a)
<1> DEFINE u == [t EXCEPT !.segments_out = out]
<1>1. /\ u.stream = t.stream /\ u.next_seqno = t.next_seqno /\ u.state = t.state
      /\ u.ack = t.ack /\ u.retransmission_queue = t.retransmission_queue
  BY DEF Good, SenderType
<1> HIDE DEF u
<1>2. Flight(u, a)
  BY <1>1, FlightSame
<1> QED BY <1>2 DEF u

(* A stream that gains bytes or its end without being read. *)
LEMMA StreamFlight ==
    ASSUME NEW t, Good(t), NEW a, Flight(t, a), NEW st, StreamIntact(st),
           st.bytes_w <= StreamLen, st.bytes_r = t.stream.bytes_r,
           t.state = "FIN_SENT" => eof(st)
    PROVE  Flight([t EXCEPT !.stream = st], a)
<1> DEFINE u == [t EXCEPT !.stream = st]
<1>1. /\ u.stream = st /\ u.next_seqno = t.next_seqno /\ u.state = t.state
      /\ u.ack = t.ack /\ u.retransmission_queue = t.retransmission_queue
  BY DEF Good, SenderType
<1> HIDE DEF u
<1>2. Numbered(u)
  BY <1>1, SMTT(30) DEF Numbered, Flight
<1>3. Flight(u, a)
  BY <1>1, <1>2 DEF Flight
<1> QED BY <1>3 DEF u

LEMMA InitFlight == OneTurn /\ Init => Flight(s, acked)
<1> SUFFICES ASSUME OneTurn, Init PROVE Flight(s, acked)
  OBVIOUS
<1>1. /\ s.stream = NewByteStream(SendCapacity) /\ s.retransmission_queue = <<>>
      /\ s.next_seqno = 0 /\ s.ack = Isn /\ s.state = "INIT" /\ acked = 0
  BY DEF Init, NewSender
<1>2. /\ NewByteStream(SendCapacity).stream = <<>> /\ NewByteStream(SendCapacity).size = 0
      /\ NewByteStream(SendCapacity).bytes_r = 0 /\ NewByteStream(SendCapacity).bytes_w = 0
      /\ NewByteStream(SendCapacity).capacity = SendCapacity
  BY DEF NewByteStream
<1>3. StreamIntact(s.stream) /\ s.stream.bytes_r = 0 /\ s.stream.bytes_w <= StreamLen
  BY <1>1, <1>2, TCPSenderAssumption DEF StreamIntact
<1>4. Numbered(s)
  BY <1>1, <1>3 DEF Numbered, Bit
<1>5. unwrap(Isn, Isn, 0) = 0
  <2>1. Isn \in WrappingInt32 /\ Isn \in Int /\ Mod \in Nat \ {0}
    BY TCPSenderAssumption, Widths DEF WrappingInt32
  <2>2. 0 % Mod = 0 /\ Isn % Mod = Isn
    BY <2>1 DEF WrappingInt32
  <2>3. wrap(0, Isn) = Isn
    BY <2>1, <2>2 DEF wrap, Plus
  <2> QED BY <2>1, <2>3, BelowOneTurn
<1>6. Len(s.retransmission_queue) = 0
  BY <1>1
<1> QED BY <1>1, <1>4, <1>5, <1>6 DEF Flight, Tiles, Unacked, Loaded

(* Every step of the application and of the owner, acknowledgments old, new and
   of nothing sent included, keeps what is outstanding. *)
LEMMA StepFlight ==
    ASSUME OneTurn, Good(s), s.isn = Isn, acked \in Nat, Flight(s, acked), [Next]_vars
    PROVE  Flight(s, acked)'
<1>1. /\ GoodStream(s.stream) /\ StreamIntact(s.stream) /\ s.stream.bytes_w <= StreamLen
      /\ s.state = "FIN_SENT" => eof(s.stream)
  BY GoodStreamOf DEF Flight, Numbered
<1>2. ASSUME NEW n \in 1 .. StreamLen, Write(n) PROVE Flight(s, acked)'
  <2> DEFINE data == BytesFrom(s.stream.bytes_w, n)
             st   == write(s.stream, data)
  <2>1. /\ s' = [s EXCEPT !.stream = st] /\ acked' = acked
        /\ ~s.stream.end_flag /\ s.stream.bytes_w + n <= StreamLen
    BY <1>2 DEF Write
  <2>2. n \in Nat /\ s.stream.bytes_w \in Nat
    BY <1>1, TCPSenderAssumption, StreamFields
  <2>3. data \in Seq(Byte) /\ Len(data) = n
    BY <2>2, BytesFromParts, Zenon
  <2>4. StreamIntact(st)
    BY <1>1, <2>2, WriteIntact, SMTT(30)
  <2> HIDE DEF data
  <2>5. /\ Accepted(s.stream, Len(data)) \in 0 .. Len(data)
        /\ st.bytes_w = s.stream.bytes_w + Accepted(s.stream, Len(data))
        /\ st.bytes_r = s.stream.bytes_r
    BY <1>1, <2>3, WriteEffect
  <2> HIDE DEF st
  <2>6. st.bytes_w <= StreamLen
    BY <2>1, <2>2, <2>3, <2>5, TCPSenderAssumption
  <2>7. s.state # "FIN_SENT"
    BY <1>1, <2>1 DEF eof
  <2> QED BY <2>1, <2>4, <2>5, <2>6, <2>7, StreamFlight
<1>3. ASSUME EndInput PROVE Flight(s, acked)'
  <2> DEFINE st == end_input(s.stream)
  <2>1. s' = [s EXCEPT !.stream = st] /\ acked' = acked
    BY <1>3 DEF EndInput
  <2>2. /\ st.end_flag /\ st.stream = s.stream.stream /\ st.size = s.stream.size
        /\ st.bytes_w = s.stream.bytes_w /\ st.bytes_r = s.stream.bytes_r
        /\ st.capacity = s.stream.capacity
    BY <1>1, EndInputEffect, SMTT(30)
  <2> HIDE DEF st
  <2>3. StreamIntact(st)
    BY <1>1, <2>2 DEF StreamIntact
  <2>4. s.state = "FIN_SENT" => eof(st)
    BY <1>1, <2>2 DEF eof
  <2> QED BY <1>1, <2>1, <2>2, <2>3, <2>4, StreamFlight
<1>4. ASSUME TakeSegments PROVE Flight(s, acked)'
  BY <1>4, OutputFlight, Zenon DEF TakeSegments
<1>5. ASSUME FillWindow PROVE Flight(s, acked)'
  BY <1>5, FillFlight DEF FillWindow
<1>6. ASSUME NEW a \in 1 .. s.next_seqno + 1, NEW w \in Windows, AckReceived(a, w)
      PROVE  Flight(s, acked)'
  <2>1. w \in Nat
    BY TCPSenderAssumption
  <2> QED BY <1>6, <2>1, AckFlight DEF AckReceived
<1>7. ASSUME NEW ms \in Ticks, Tick(ms) PROVE Flight(s, acked)'
  <2>1. ms \in Nat
    BY TCPSenderAssumption
  <2> QED BY <1>7, <2>1, TickFlight DEF Tick
<1>8. ASSUME SendEmptySegment PROVE Flight(s, acked)'
  <2> DEFINE out == Append(s.segments_out, NewSegment(next_seqno(s)))
  <2>1. s' = [s EXCEPT !.segments_out = out] /\ acked' = acked
    BY <1>8 DEF SendEmptySegment, send_empty_segment
  <2> HIDE DEF out
  <2> QED BY <2>1, OutputFlight
<1>9. CASE UNCHANGED vars
  BY <1>9 DEF vars
<1> QED BY <1>2, <1>3, <1>4, <1>5, <1>6, <1>7, <1>8, <1>9, SMTT(30) DEF Next

(* While the stream with its SYN and FIN fits in one turn of the sequence
   numbers, the sender's numbers, its queue and its stream agree. *)
THEOREM FlightInvariant == ASSUME OneTurn PROVE Spec => []FlightInv
<1>1. Init => FlightInv
  BY InitGood, InitFlight DEF Init, FlightInv, SenderInv
<1>2. FlightInv /\ [Next]_vars => FlightInv'
  BY StepGood, StepCounts, StepFlight DEF FlightInv, SenderInv
<1> QED BY <1>1, <1>2, PTL DEF Spec

(* The retransmission queue is exactly what is outstanding: neither fill_window
   nor ack_received leaves a gap or an overlap, a segment acknowledged whole, or
   an unacknowledged number out of it. *)
THEOREM SenderQueueTiles == ASSUME OneTurn PROVE Spec => []QueueTilesFlight
<1>1. FlightInv => QueueTilesFlight
  BY SMTT(30) DEF FlightInv, Flight, Tiles, Unacked, EndOf, FirstOf, QueueTilesFlight, Queue,
         First, After
<1> QED BY <1>1, FlightInvariant, PTL

(* What waits to be retransmitted is what its sequence numbers name: SYN is
   number 0, byte b number b + 1, and FIN follows the last byte. *)
THEOREM SenderSequenceSpace == ASSUME OneTurn PROVE Spec => []SequenceSpaceKept
<1>1. FlightInv => SequenceSpaceKept
  BY DEF FlightInv, Flight, Numbered, Loaded, Carries, FirstOf, SequenceSpaceKept, Queue,
         First
<1> QED BY <1>1, FlightInvariant, PTL

(* bytes_in_flight() counts the numbers sent and not acknowledged; its unsigned
   subtraction never wraps. *)
THEOREM SenderInFlight == ASSUME OneTurn PROVE Spec => []InFlightExact
<1>1. FlightInv => InFlightExact
  <2> SUFFICES ASSUME FlightInv PROVE InFlightExact
    OBVIOUS
  <2> DEFINE next == s.next_seqno
  <2>1. /\ acked = unwrap(s.ack, s.isn, 0) /\ acked <= next /\ acked \in Nat
        /\ s \in SenderType /\ next \in Nat
    BY SenderFields DEF FlightInv, SenderInv, Good, Flight
  <2>2. next < Mod
    <3>1. /\ s.stream.bytes_r \in Nat /\ s.stream.size \in Nat /\ s.stream.bytes_w <= StreamLen
          /\ s.stream.bytes_w = s.stream.bytes_r + s.stream.size
      BY GoodStreamOf, StreamFields, ZenonT(60) DEF FlightInv, SenderInv, Flight, Numbered, StreamIntact
    <3>2. next = Bit(s.state # "INIT") + s.stream.bytes_r + Bit(s.state = "FIN_SENT")
      BY DEF FlightInv, Flight, Numbered
    <3>3. Bit(s.state # "INIT") \in {0, 1} /\ Bit(s.state = "FIN_SENT") \in {0, 1}
      BY DEF Bit
    <3> HIDE DEF next
    <3> QED BY <2>1, <3>1, <3>2, <3>3, TCPSenderAssumption, Widths, SMTT(30) DEF OneTurn
  <2> HIDE DEF next
  <2>3. next - acked \in 0 .. Lim - 1 /\ Lim \in Nat \ {0}
    BY <2>1, <2>2, Widths, WidthAssumption
  <2>4. (next - acked) % Lim = next - acked
    BY <2>3
  <2> QED BY <2>1, <2>4 DEF InFlightExact, bytes_in_flight, next
<1> QED BY <1>1, FlightInvariant, PTL
=============================================================================
