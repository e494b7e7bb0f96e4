----------------------------- MODULE TCPNetwork -----------------------------
(***************************************************************************)
(* Two TCPConnections, the applications at both ends, and a network that   *)
(* delays, reorders, loses and duplicates segments.  A handler and the     *)
(* transmission of the segments it queued are one step: waiting in         *)
(* segments_out and waiting in the network cannot be told apart.           *)
(***************************************************************************)
EXTENDS TCPConnectionOps

CONSTANTS
    Opener, Listener,   \* the peer that calls connect(), the one that listens
    Isn,                \* initial sequence number of each peer
    StreamLen,          \* bytes each application writes before ending its stream
    SendCapacity, RecvCapacity,
    Ticks,              \* milliseconds that may pass between two ticks
    MaxInFlight,        \* bound: segments under way to one peer
    MaxFaults           \* bound: segments the network loses, duplicates or delays

Peer == {Opener, Listener}

ASSUME NetworkAssumption ==
    /\ Opener # Listener
    /\ Isn \in [Peer -> WrappingInt32]
    /\ StreamLen \in [Peer -> Nat]
    /\ SendCapacity \in Nat \ {0} /\ RecvCapacity \in Nat \ {0}
    /\ Ticks \subseteq Nat \ {0}
    /\ MaxInFlight \in Nat \ {0} /\ MaxFaults \in Nat

VARIABLES
    conn,     \* the TCPConnection of each peer
    net,      \* the segments under way to each peer
    faults    \* segments lost, duplicated or late so far

vars == <<conn, net, faults>>

Other(p) == IF p = Opener THEN Listener ELSE Opener

Init ==
    /\ conn = [p \in Peer |-> NewConnection(SendCapacity, RecvCapacity, Isn[p])]
    /\ net = [p \in Peer |-> {}]
    /\ faults = 0

(* Peer p's handler left its connection as c; `left' stays under way to p. *)
Finish(p, c, left) ==
    LET sent == {c.segments_out[i] : i \in 1 .. Len(c.segments_out)}
    IN  /\ Cardinality(net[Other(p)] \cup sent) <= MaxInFlight
        /\ conn' = [conn EXCEPT ![p] = [c EXCEPT !.segments_out = <<>>]]
        /\ net' = [net EXCEPT ![p] = left, ![Other(p)] = @ \cup sent]

Connect ==
    /\ conn[Opener].sender.state = "INIT"
    /\ Finish(Opener, connect(conn[Opener]), net[Opener])
    /\ UNCHANGED faults

(* The socket lets its application in once connect() or listen_and_accept()
   no longer finds the connection in a state it waits in. *)
Awaited ==
    [p \in Peer |-> {Official[s] : s \in IF p = Opener THEN {"SYN_SENT"}
                                        ELSE {"LISTEN", "SYN_RCVD", "SYN_SENT"}}]

Open(p) ==
    /\ active(conn[p]) /\ conn[p].sender.state # "INIT"
    /\ state(conn[p]) \notin Awaited[p]

Write(p, n) ==
    LET from == outbound_stream(conn[p]).bytes_w
    IN  /\ Open(p)
        /\ ~outbound_stream(conn[p]).end_flag
        /\ from + n <= StreamLen[p]
        /\ n <= remaining_capacity(outbound_stream(conn[p]))
        /\ Finish(p, connection_write(conn[p], BytesFrom(from, n)), net[p])
        /\ UNCHANGED faults

(* The socket reads end of file from its application: the callback writes the
   empty string, then ends the stream. *)
EndInput(p) ==
    /\ Open(p)
    /\ ~outbound_stream(conn[p]).end_flag
    /\ outbound_stream(conn[p]).bytes_w = StreamLen[p]
    /\ remaining_capacity(outbound_stream(conn[p])) > 0
    /\ Finish(p, end_input_stream(connection_write(conn[p], <<>>)), net[p])
    /\ UNCHANGED faults

(* The application takes n bytes off the inbound stream. *)
Read(p, n) ==
    /\ n <= inbound_stream(conn[p]).size
    /\ Finish(p, [conn[p] EXCEPT !.receiver.reassembler.output = pop_output(@, n)], net[p])
    /\ UNCHANGED faults

(* Time passes at p.  When segments are under way they are late, which is one
   of the network's faults.  Before its SYN a peer's ticks are left out: they
   only move the idle clock, which the first segment to arrive resets. *)
Tick(p, ms) ==
    LET late == Bit(\E q \in Peer : net[q] # {})
    IN  /\ active(conn[p])
        /\ conn[p].sender.state # "INIT"
        /\ faults + late <= MaxFaults
        /\ Finish(p, tick(conn[p], ms), net[p])
        /\ faults' = faults + late

(* A segment arrives; only the active connection is there to read it. *)
Deliver(p, seg) ==
    /\ active(conn[p])
    /\ \E c \in segment_received(conn[p], seg) : Finish(p, c, net[p] \ {seg})
    /\ UNCHANGED faults

Duplicate(p, seg) ==
    /\ active(conn[p])
    /\ faults < MaxFaults
    /\ \E c \in segment_received(conn[p], seg) : Finish(p, c, net[p])
    /\ faults' = faults + 1

Lose(p, seg) ==
    /\ faults < MaxFaults
    /\ net' = [net EXCEPT ![p] = @ \ {seg}]
    /\ faults' = faults + 1
    /\ UNCHANGED conn

(* A segment for a connection that is gone. *)
Discard(p, seg) ==
    /\ ~active(conn[p])
    /\ net' = [net EXCEPT ![p] = @ \ {seg}]
    /\ UNCHANGED <<conn, faults>>

(* Every step but the passing of time. *)
Event ==
    \/ Connect
    \/ \E p \in Peer :
          \/ \E n \in 1 .. StreamLen[p] : Write(p, n)
          \/ EndInput(p)
          \/ \E n \in 1 .. RecvCapacity : Read(p, n)
          \/ \E seg \in net[p] : Deliver(p, seg)
          \/ \E seg \in net[p] : Duplicate(p, seg)
          \/ \E seg \in net[p] : Lose(p, seg)
          \/ \E seg \in net[p] : Discard(p, seg)

Next == Event \/ \E p \in Peer, ms \in Ticks : Tick(p, ms)

Spec == Init /\ [][Next]_vars

-----------------------------------------------------------------------------

Errored(p) == inbound_stream(conn[p]).error

(* What p's application has ended its stream with. *)
Ended(p) == outbound_stream(conn[p]).end_flag

TypeOK ==
    /\ \A p \in Peer :
          LET c == conn[p]
          IN  /\ c.sender \in SenderType
              /\ inbound_stream(c) \in ByteStreamType(Byte)
              /\ c.receiver.isn \in {None} \cup WrappingInt32
              /\ c.isn_receiver \in {None} \cup WrappingInt32
              /\ c.linger \in BOOLEAN /\ c.close \in BOOLEAN
              /\ c.idle \in 0 .. LingerTime /\ c.segments_out = <<>>
              /\ net[p] \subseteq SegmentType
              /\ Cardinality(net[p]) <= MaxInFlight
    /\ faults \in 0 .. MaxFaults

(* The two directions of the connection. *)
Upstream == INSTANCE ReliableStream WITH
    written <- outbound_stream(conn[Opener]).bytes_w,
    ended   <- outbound_stream(conn[Opener]).end_flag,
    taken   <- inbound_stream(conn[Listener]).bytes_r,
    avail   <- inbound_stream(conn[Listener]).stream,
    closed  <- inbound_stream(conn[Listener]).end_flag,
    failed  <- inbound_stream(conn[Listener]).error

Downstream == INSTANCE ReliableStream WITH
    written <- outbound_stream(conn[Listener]).bytes_w,
    ended   <- outbound_stream(conn[Listener]).end_flag,
    taken   <- inbound_stream(conn[Opener]).bytes_r,
    avail   <- inbound_stream(conn[Opener]).stream,
    closed  <- inbound_stream(conn[Opener]).end_flag,
    failed  <- inbound_stream(conn[Opener]).error

(* Whatever the network does, each application reads what the other wrote, in
   order and once, and sees end of file only after all of it: the connections
   implement a reliable stream in each direction. *)
ImplementsStreams == Upstream!Spec /\ Downstream!Spec

(* What a sender holds for acknowledged, the peer's receiver has assembled. *)
AckedIsReceived ==
    \A p \in Peer :
        LET s  == conn[p].sender
            rc == conn[Other(p)].receiver
        IN  unwrap(s.ack, s.isn, 0) <=
                Bit(rc.isn # None) * (1 + stream_out(rc).bytes_w + Bit(stream_out(rc).end_flag))

(* The order in which a connection passes through its states. *)
SenderStage ==
    [CLOSED |-> 0, SYN_SENT |-> 1, SYN_ACKED |-> 2, FIN_SENT |-> 3, FIN_ACKED |-> 4, ERROR |-> 5]
ReceiverStage == [LISTEN |-> 0, SYN_RECV |-> 1, FIN_RECV |-> 2, ERROR |-> 3]

Advances(c, d) ==
    /\ SenderStage[SenderSummary(c.sender)] <= SenderStage[SenderSummary(d.sender)]
    /\ ReceiverStage[ReceiverSummary(c.receiver)] <= ReceiverStage[ReceiverSummary(d.receiver)]
    /\ d.linger => c.linger
    /\ active(d) => active(c)

(* What TCPState says of a connection never goes back, whatever arrives late
   or twice: neither its sender nor its receiver returns to an earlier state, a
   connection that gave up lingering or closed stays that way. *)
StatesAdvance ==
    [][\A p \in Peer : conn'[p] # conn[p] => Advances(conn[p], conn'[p])]_vars

(* A sender sends nothing beyond the right edge of its peer's window, one
   probe into a closed window excepted (tests/send_window.cc:37,
   tests/send_extra.cc:400). *)
WindowRespected ==
    \A p \in Peer :
        LET in      == inbound_stream(conn[Other(p)])
            edge    == 1 + in.bytes_r + in.capacity
            probe   == 1 + in.bytes_w + 1
        IN  active(conn[Other(p)]) =>
                conn[p].sender.next_seqno <= Max({edge, probe})

(* While both connections are up, at least one of them will linger after the
   streams finish: somebody is left to answer a retransmitted FIN. *)
SomebodyLingers ==
    (\A p \in Peer : active(conn[p])) => \E p \in Peer : conn[p].linger

(* A connection that closes at once, without lingering, leaves a peer that
   knows its whole stream was received (tcp_connection.hh:19-21). *)
NoLingerPeerKnows ==
    \A p \in Peer :
        ~active(conn[p]) /\ ~Errored(p) /\ conn[p].idle < LingerTime =>
            Errored(Other(p)) \/ bytes_in_flight(conn[Other(p)].sender) = 0

(* A connection that closes without error has delivered its whole stream to
   the peer, and the peer's whole stream to its application. *)
CleanCloseIsComplete ==
    \A p \in Peer : ~active(conn[p]) /\ ~Errored(p) =>
        LET in  == inbound_stream(conn[p])
            got == inbound_stream(conn[Other(p)])
        IN  /\ eof(in) /\ Ended(Other(p))
            /\ in.bytes_r = outbound_stream(conn[Other(p)]).bytes_w
            /\ Ended(p) /\ got.end_flag
            /\ got.bytes_w = outbound_stream(conn[p]).bytes_w
=============================================================================
