---------------------------- MODULE SegmentWire ----------------------------
(***************************************************************************)
(* TCP segments on their way from one adapter to another, as bytes.        *)
(*                                                                         *)
(* Three programs share a network: a client and a stranger that have both  *)
(* been told to connect to the server, and the server, which listens.  All *)
(* use the adapter of the same kind: TCPOverUDPSocketAdapter ("udp"),      *)
(* TCPOverIPv4OverTunFdAdapter ("tun") or TCPOverIPv4OverEthernetAdapter   *)
(* ("tap"), each inside LossyFdAdapter, which may drop what is read or     *)
(* written.  The network keeps what was written on it: a message may be    *)
(* read late, out of order, more than once, by anyone it reaches, and with *)
(* one of its bytes changed or its end cut off.                            *)
(***************************************************************************)
EXTENDS WireFormats, NetworkInterfaceOps

CONSTANTS Using,      \* per kind of adapter considered, the programs that use it
          Segments,   \* the segments a TCP connection hands to write()
          Noise,      \* the values a damaged byte may take
          Keep,       \* the lengths a message may be cut to
          MaxWrites, MaxDamage, MaxTicks

ASSUME WireAssumption ==
  /\ DOMAIN Using \subseteq {"udp", "tun", "tap"}
  /\ \A k \in DOMAIN Using : Using[k] \subseteq {"client", "server", "stranger"}
  /\ Noise \subseteq 0..255 /\ Keep \subseteq Nat
  /\ {MaxWrites, MaxDamage, MaxTicks} \subseteq Nat

VARIABLES kind,       \* the kind of adapter in use
          adapter,    \* per program: listening flag, source and destination
          nic,        \* per program: the NetworkInterface of a "tap" adapter
          wire,       \* the set of messages on the network
          writes, damage, ticks,
          last,       \* history: the last read: who, what was written, the
                      \* adapter before, and the segment the adapter returned
          callers     \* history: per program, whose segments reached its connection

vars == <<kind, adapter, nic, wire, writes, damage, ticks, last, callers>>

Programs == Using[kind]

At(ip, port) == [ip |-> ip, port |-> port]

Nowhere == At(<<0, 0>>, 0)

Home ==
  [client |-> At(<<49320, 8>>, 4660), server |-> At(<<49320, 9>>, 1440),
   stranger |-> At(<<49320, 10>>, 4660)]

Mac == [client |-> <<2, 0, 0, 0, 0, 1>>, server |-> <<2, 0, 0, 0, 0, 2>>,
        stranger |-> <<2, 0, 0, 0, 0, 3>>]

(* What the programs set up: the client and the stranger name the server   *)
(* as their destination, the server binds its port on any address and      *)
(* listens.                                                                *)
Configured(p) ==
  IF p = "server"
    THEN [listening |-> TRUE, source |-> At(<<0, 0>>, Home.server.port), destination |-> Nowhere]
    ELSE [listening |-> FALSE, source |-> Home[p], destination |-> Home.server]

(* A message: its bytes; for "udp", the addresses the kernel attaches; and *)
(* as history who wrote which segment (Nothing for ARP and dummy frames).  *)
Nothing == <<>>

Message(bytes, from, to, origin) ==
  [bytes |-> bytes, from |-> from, to |-> to, origin |-> origin]

(* The TAP adapter's constructor sends a dummy frame; whatever is in its   *)
(* uninitialized header, it has no payload.                                *)
DummyFrame == Message(Zeros(14), Nowhere, Nowhere, Nothing)

(* History: segment seg as p wrote it, and to whom.                        *)
Origin(p, seg) == [by |-> p, segment |-> seg, to |-> adapter[p].destination]

(* History: p reads message m as the bytes b.  A damaged message that came *)
(* to nothing is forgotten.                                                *)
ReadBy(p, m, b, segs) ==
  IF b # m.bytes /\ segs = <<>>
    THEN Nothing
    ELSE [by |-> p, origin |-> m.origin, intact |-> b = m.bytes, was |-> adapter[p],
          frameFor |-> IF kind = "tap" THEN GetBytes(b, 0, 6) ELSE Nothing, segs |-> segs]

Init ==
  /\ kind \in DOMAIN Using
  /\ adapter = [p \in Programs |-> Configured(p)]
  /\ nic = [p \in Programs |-> NewInterface(Mac[p], Home[p].ip)]
  /\ wire = IF kind = "tap" THEN {DummyFrame} ELSE {}
  /\ writes = 0 /\ damage = 0 /\ ticks = 0
  /\ last = Nothing
  /\ callers = [p \in Programs |-> {}]

-----------------------------------------------------------------------------
(* Writing.                                                                *)

(* Mutant: the source port is left as it was in the segment.               *)
WithPorts_unset(a, seg) == seg @@ [sport |-> 0, dport |-> a.destination.port]

WithPorts(a, seg) == seg @@ [sport |-> a.source.port, dport |-> a.destination.port]

IPv4Header(src, dst, len) ==
  [ver |-> 4, hlen |-> 5, tos |-> 0, len |-> len, id |-> 0, df |-> TRUE, mf |-> FALSE,
   offset |-> 0, ttl |-> 128, proto |-> PROTO_TCP, src |-> src, dst |-> dst]

Wrapped(h, seg) == [header |-> h, payload |-> SegmentBytes(seg, pseudo_cksum(h))]

wrap_tcp_in_ip(a, seg) ==
  Wrapped(IPv4Header(a.source.ip, a.destination.ip, 20 + 4 * seg.doff + Len(seg.payload)), seg)

(* EthernetFrame::serialize on a frame of the interface.                   *)
FrameBytes(f) ==
  EthernetHeaderBytes(f)
    \o (IF f.type = "ARP" THEN ArpBytes(f.payload) ELSE DatagramBytes(f.payload))

(* send_pending: every frame of frames_out goes to the TAP device.         *)
Pending(n) ==
  {Message(FrameBytes(f), Nowhere, Nowhere,
           IF f.type = "ARP" THEN Nothing ELSE f.payload.origin) : f \in Range(n.frames_out)}

Drained(n) == [n EXCEPT !.frames_out = <<>>]

WriteUDP(p, seg) ==
  /\ wire' = wire \cup {Message(SegmentBytes(seg, 0), Home[p], adapter[p].destination,
                                Origin(p, seg))}
  /\ nic' = nic

WriteTun(p, seg) ==
  /\ wire' = wire \cup {Message(DatagramBytes(wrap_tcp_in_ip(adapter[p], seg)),
                                Nowhere, Nowhere, Origin(p, seg))}
  /\ nic' = nic

(* The next hop a TAP adapter is constructed with.                         *)
NextHop(p) == IF p = "server" THEN Home.client.ip ELSE Home.server.ip

Sent(p, seg) ==
  send_datagram(nic[p], wrap_tcp_in_ip(adapter[p], seg) @@ [origin |-> Origin(p, seg)], NextHop(p))

WriteTap(p, seg) ==
  /\ wire' = wire \cup Pending(Sent(p, seg))
  /\ nic' = [nic EXCEPT ![p] = Drained(Sent(p, seg))]

(* A connection writes nothing while its adapter listens.  The last case   *)
(* is a write that LossyFdAdapter drops.                                   *)
Write(p, seg) ==
  /\ writes < MaxWrites /\ ~ adapter[p].listening
  /\ \/ kind = "udp" /\ WriteUDP(p, WithPorts(adapter[p], seg))
     \/ kind = "tun" /\ WriteTun(p, WithPorts(adapter[p], seg))
     \/ kind = "tap" /\ WriteTap(p, WithPorts(adapter[p], seg))
     \/ UNCHANGED <<wire, nic>>
  /\ writes' = writes + 1
  /\ UNCHANGED <<kind, adapter, damage, ticks, last, callers>>

-----------------------------------------------------------------------------
(* Reading.  The result of a read is the adapter it leaves and the         *)
(* optional segment it returns.                                            *)

Result(a, segs) == [adapter |-> a, segs |-> segs]

Opens(seg) == "syn" \in seg.flags /\ "rst" \notin seg.flags

udp_read(a, from, b) ==
  IF \/ ~ a.listening /\ from # a.destination
     \/ SegmentResult(b, 0) # "NoError"
     \/ a.listening /\ ~ Opens(SegmentOf(b))
    THEN Result(a, <<>>)
    ELSE Result(IF a.listening THEN [a EXCEPT !.listening = FALSE, !.destination = from] ELSE a,
                <<SegmentOf(b)>>)

(* Mutant: once connected, the source address of a datagram is ignored.    *)
Related_anySource(a, h) == a.listening \/ h.dst = a.source.ip

(* Is the datagram for us and from our peer?                               *)
Related(a, h) == a.listening \/ (h.dst = a.source.ip /\ h.src = a.destination.ip)

Pinned(a, h, seg) ==
  [listening |-> FALSE, source |-> At(h.dst, a.source.port), destination |-> At(h.src, seg.sport)]

Targeted(a, h, seg) ==
  CASE seg.dport # a.source.port -> Result(a, <<>>)
    [] seg.dport = a.source.port /\ a.listening ->
         IF Opens(seg) THEN Result(Pinned(a, h, seg), <<seg>>) ELSE Result(a, <<>>)
    [] OTHER -> IF seg.sport = a.destination.port THEN Result(a, <<seg>>) ELSE Result(a, <<>>)

unwrap_tcp_in_ip(a, d) ==
  IF /\ Related(a, d.header)
     /\ d.header.proto = PROTO_TCP
     /\ SegmentResult(d.payload, pseudo_cksum(d.header)) = "NoError"
    THEN Targeted(a, d.header, SegmentOf(d.payload))
    ELSE Result(a, <<>>)

tun_read(a, b) ==
  IF DatagramResult(b) = "NoError"
    THEN unwrap_tcp_in_ip(a, DatagramOf(b, IPv4HeaderOf(b)))
    ELSE Result(a, <<>>)

(* What recv_frame makes of the payload of a frame of this type.           *)
Payload(type, b) ==
  CASE type = "ARP" /\ ArpParses(b)                  -> ArpOf(b)
    [] type = "IPv4" /\ DatagramResult(b) = "NoError" -> DatagramOf(b, IPv4HeaderOf(b))
    [] OTHER                                          -> Garbled

(* EthernetFrame::parse.  Of a frame shorter than a header it leaves the   *)
(* header uninitialized; whatever that holds, so short a payload parses as *)
(* neither a datagram nor an ARP message.                                  *)
FrameOf(b) ==
  IF Len(b) < 14
    THEN Frame(NoEthernetAddress, NoEthernetAddress, "other", Garbled)
    ELSE Frame(GetBytes(b, 6, 6), GetBytes(b, 0, 6), TypeName(GetU16(b, 12)),
               Payload(TypeName(GetU16(b, 12)), Rest(b, 14)))

tap_read(a, dgrams) == IF dgrams = <<>> THEN Result(a, <<>>) ELSE unwrap_tcp_in_ip(a, dgrams[1])

(* LossyFdAdapter::read: the adapter has read, and may have been changed   *)
(* by it, when the segment is dropped.                                     *)
HandUp(p, m, b, r) ==
  /\ adapter' = [adapter EXCEPT ![p] = r.adapter]
  /\ last' = ReadBy(p, m, b, r.segs)
  /\ \/ r.segs # <<>> /\ callers' = [callers EXCEPT ![p] = @ \cup {m.origin.by}]
     \/ UNCHANGED callers

ReadUDP(p, m, b) ==
  /\ kind = "udp" /\ m.to = Home[p]
  /\ \E r \in {udp_read(adapter[p], m.from, b)} : HandUp(p, m, b, r)
  /\ UNCHANGED <<nic, wire>>

ReadTun(p, m, b) ==
  /\ kind = "tun"
  /\ \E r \in {tun_read(adapter[p], b)} : HandUp(p, m, b, r)
  /\ UNCHANGED <<nic, wire>>

ReadTap(p, m, b) ==
  /\ kind = "tap"
  /\ \E f \in {FrameOf(b)} :
       /\ \E r \in {tap_read(adapter[p], Received(nic[p], f))} : HandUp(p, m, b, r)
       /\ \E n \in {recv_frame(nic[p], f)} :
            /\ wire' = wire \cup Pending(n)
            /\ nic' = [nic EXCEPT ![p] = Drained(n)]

(* Message m arrives as the bytes b.                                       *)
Read(p, m, b) ==
  /\ m.origin # Nothing => m.origin.by # p
  /\ ReadUDP(p, m, b) \/ ReadTun(p, m, b) \/ ReadTap(p, m, b)
  /\ damage' = IF b = m.bytes THEN damage ELSE damage + 1
  /\ UNCHANGED <<kind, writes, ticks>>

(* What the network may make of a message: change one byte or, of anything *)
(* but the payload of a UDP datagram, drop the end.                        *)
Altered(b) ==
  {[b EXCEPT ![i] = v] : i \in DOMAIN b, v \in Noise}
    \cup {SubSeq(b, 1, n) : n \in IF kind = "udp" THEN {} ELSE {k \in Keep : k < Len(b)}}

(* ARP messages arrive as they were sent: they carry no checksum, and a     *)
(* changed one sends later segments to nobody.                             *)
ReadAltered(p, m) ==
  /\ damage < MaxDamage /\ m.origin # Nothing
  /\ \E b \in Altered(m.bytes) \ {m.bytes} : Read(p, m, b)

Tick(p) ==
  /\ kind = "tap" /\ ticks < MaxTicks
  /\ nic' = [nic EXCEPT ![p] = Drained(interface_tick(@, CacheLife))]
  /\ wire' = wire \cup Pending(interface_tick(nic[p], CacheLife))
  /\ ticks' = ticks + 1
  /\ UNCHANGED <<kind, adapter, writes, damage, last, callers>>

Next ==
  \/ \E p \in Programs, seg \in Segments : Write(p, seg)
  \/ \E p \in Programs, m \in wire : Read(p, m, m.bytes) \/ ReadAltered(p, m)
  \/ \E p \in Programs : Tick(p)

Spec == Init /\ [][Next]_vars

-----------------------------------------------------------------------------
(* Properties.                                                             *)

(* The wire carries bytes; adapters hold addresses and ports of programs.  *)
TypeOK ==
  /\ kind \in DOMAIN Using
  /\ \A m \in wire : \A i \in DOMAIN m.bytes : m.bytes[i] \in 0..255
  /\ \A p \in Programs : /\ adapter[p].listening \in BOOLEAN
                         /\ adapter[p].destination \in {Nowhere} \cup Range(Home)
                         /\ nic[p].frames_out = <<>>
  /\ writes \in 0..MaxWrites /\ damage \in 0..MaxDamage /\ ticks \in 0..MaxTicks

(* Whatever read() returns is a segment as some adapter wrote it, every    *)
(* field and every byte, although one byte of the message was changed on   *)
(* the way or its end cut off, and although the datagram's parse ignores   *)
(* what the header's parse found.                                          *)
NothingAltered ==
  last # Nothing /\ last.segs # <<>>
    => last.origin # Nothing /\ last.segs[1] = last.origin.segment

(* An undamaged message for this program, from its peer or, while it       *)
(* listens, with a SYN, is parsed to the segment written and returned.     *)
IntactAccepted ==
  /\ last # Nothing /\ last.intact /\ last.origin # Nothing
  /\ last.origin.to = Home[last.by]
  /\ kind = "tap" => last.frameFor = Mac[last.by]
  /\ IF last.was.listening THEN Opens(last.origin.segment)
                           ELSE last.was.destination = Home[last.origin.by]
  => last.segs = <<last.origin.segment>>

(* All segments that reach one connection come from one program, the one   *)
(* its adapter answers to; for a listener it is the one whose SYN was read *)
(* first, however the segments of others are mixed in.                     *)
OnePeer ==
  \A p \in Programs : \A q \in callers[p] : adapter[p].destination = Home[q]
=============================================================================
