---------------------------- MODULE WireFormats ----------------------------
(***************************************************************************)
(* Headers on the wire: the parser and unparser of util/parser.cc, the     *)
(* Internet checksum of util/util.cc, and the TCP, IPv4, Ethernet and ARP  *)
(* formats of tcp_helpers/.                                                *)
(*                                                                         *)
(* A byte is a number below 256 and a 16-bit field a number below 65536; a *)
(* 32-bit field is the pair of its 16-bit halves.  A parser in its error   *)
(* state returns zeros and keeps its buffer, so a parse is given by what   *)
(* it reads at fixed offsets, what is left of the buffer, and the result.  *)
(***************************************************************************)
EXTENDS Naturals, Sequences, FiniteSetsExt

U16(n) == <<n \div 256, n % 256>>

U32(n) == U16(n[1]) \o U16(n[2])

Zeros(n) == [i \in 1..n |-> 0]

(* The fields of a buffer b, by the number of bytes before them.           *)
GetU16(b, at) == 256 * b[at + 1] + b[at + 2]

GetU32(b, at) == <<GetU16(b, at), GetU16(b, at + 2)>>

GetBytes(b, at, n) == SubSeq(b, at + 1, at + n)

Rest(b, at) == SubSeq(b, at + 1, Len(b))

-----------------------------------------------------------------------------
(* InternetChecksum: a byte at an even offset counts 256-fold; the 32-bit  *)
(* sum is folded to 16 bits (twice is enough below 2^32) and complemented. *)

BytesSum(initial, b) ==
  LET sum[i \in 0..Len(b)] ==
        IF i = 0 THEN initial ELSE sum[i - 1] + b[i] * (IF i % 2 = 1 THEN 256 ELSE 1)
  IN  sum[Len(b)]

Folded(n) == IF n > 65535 THEN n \div 65536 + (n % 65536) ELSE n

Checksum(initial, b) == 65535 - Folded(Folded(BytesSum(initial, b)))

-----------------------------------------------------------------------------
(* TCP segments.                                                           *)

FlagBit == [urg |-> 32, ack |-> 16, psh |-> 8, rst |-> 4, syn |-> 2, fin |-> 1]

FlagByte(flags) == SumSet({FlagBit[f] : f \in flags})

FlagsIn(byte) == {f \in DOMAIN FlagBit : (byte \div FlagBit[f]) % 2 = 1}

TCPHeaderBytes(s, cksum) ==
  U16(s.sport) \o U16(s.dport) \o U32(s.seqno) \o U32(s.ackno)
    \o <<16 * s.doff, FlagByte(s.flags)>>
    \o U16(s.win) \o U16(cksum) \o U16(s.uptr) \o Zeros(4 * s.doff - 20)

(* Mutant: the checksum leaves out what the lower layer contributes.       *)
SegmentBytes_nopseudo(s, pseudo) ==
  TCPHeaderBytes(s, Checksum(0, TCPHeaderBytes(s, 0) \o s.payload)) \o s.payload

SegmentBytes(s, pseudo) ==
  TCPHeaderBytes(s, Checksum(pseudo, TCPHeaderBytes(s, 0) \o s.payload)) \o s.payload

(* The buffer left by TCPHeader::parse: a data offset that is too small    *)
(* makes it return early, before options would be skipped.                 *)
TCPHeaderEnd(b) == IF b[13] \div 16 < 5 THEN 20 ELSE 4 * (b[13] \div 16)

SegmentOf(b) ==
  [sport |-> GetU16(b, 0), dport |-> GetU16(b, 2), seqno |-> GetU32(b, 4),
   ackno |-> GetU32(b, 8), doff |-> b[13] \div 16, flags |-> FlagsIn(b[14]),
   win |-> GetU16(b, 14), uptr |-> GetU16(b, 18), payload |-> Rest(b, TCPHeaderEnd(b))]

(* Mutant: the checksum is not verified.                                   *)
SegmentResult_unchecked(b, pseudo) ==
  IF Len(b) < 20 \/ TCPHeaderEnd(b) > Len(b) THEN "PacketTooShort" ELSE "NoError"

(* What TCPSegment::parse returns: the verdict of the header's parse is    *)
(* ignored, only the parser's own error counts.                            *)
SegmentResult(b, pseudo) ==
  IF Checksum(pseudo, b) # 0 THEN "BadChecksum"
  ELSE IF Len(b) < 20 \/ TCPHeaderEnd(b) > Len(b) THEN "PacketTooShort"
  ELSE "NoError"

-----------------------------------------------------------------------------
(* IPv4 datagrams.                                                         *)

PROTO_TCP == 6

payload_length(h) == (h.len + 65536 - 4 * h.hlen) % 65536

pseudo_cksum(h) == h.src[1] + h.src[2] + h.dst[1] + h.dst[2] + h.proto + payload_length(h)

IPv4HeaderBytes(h, cksum) ==
  <<16 * h.ver + h.hlen, h.tos>> \o U16(h.len) \o U16(h.id)
    \o U16((IF h.df THEN 16384 ELSE 0) + (IF h.mf THEN 8192 ELSE 0) + h.offset)
    \o <<h.ttl, h.proto>> \o U16(cksum) \o U32(h.src) \o U32(h.dst) \o Zeros(4 * h.hlen - 20)

DatagramBytes(d) ==
  IPv4HeaderBytes(d.header, Checksum(0, IPv4HeaderBytes(d.header, 0))) \o d.payload

IPv4HeaderOf(b) ==
  [ver |-> b[1] \div 16, hlen |-> b[1] % 16, tos |-> b[2], len |-> GetU16(b, 2),
   id |-> GetU16(b, 4), df |-> (b[7] \div 64) % 2 = 1, mf |-> (b[7] \div 32) % 2 = 1,
   offset |-> GetU16(b, 6) % 8192, ttl |-> b[9], proto |-> b[10],
   src |-> GetU32(b, 12), dst |-> GetU32(b, 16)]

(* What IPv4Header::parse returns on at least 20 bytes, in its order.      *)
IPv4HeaderResult(h, b) ==
  IF Len(b) < 4 * h.hlen THEN "PacketTooShort"
  ELSE IF h.ver # 4 THEN "WrongIPVersion"
  ELSE IF h.hlen < 5 THEN "HeaderTooShort"
  ELSE IF Len(b) # h.len THEN "TruncatedPacket"
  ELSE IF Checksum(0, SubSeq(b, 1, 4 * h.hlen)) # 0 THEN "BadChecksum"
  ELSE "NoError"

(* Only a parse that gets past the length checks skips the options.        *)
IPv4HeaderEnd(h, result) == IF result \in {"NoError", "BadChecksum"} THEN 4 * h.hlen ELSE 20

DatagramOf(b, h) ==
  [header |-> h, payload |-> Rest(b, IPv4HeaderEnd(h, IPv4HeaderResult(h, b)))]

(* What IPv4Datagram::parse returns: of the header's verdict it keeps only *)
(* what shows in the length of the payload.                                *)
DatagramResult(b) ==
  IF Len(b) < 20 \/ Len(DatagramOf(b, IPv4HeaderOf(b)).payload) # payload_length(IPv4HeaderOf(b))
    THEN "PacketTooShort"
    ELSE "NoError"

-----------------------------------------------------------------------------
(* Ethernet frames and ARP messages.                                       *)

TypeCode == [IPv4 |-> 2048, ARP |-> 2054]

TypeName(code) ==
  IF code \in {2048, 2054} THEN CHOOSE t \in DOMAIN TypeCode : TypeCode[t] = code ELSE "other"

EthernetHeaderBytes(f) == f.dst \o f.src \o U16(TypeCode[f.type])

OpCode == [REQUEST |-> 1, REPLY |-> 2]

ArpPreamble(opcode) == U16(1) \o U16(2048) \o <<6, 4>> \o U16(OpCode[opcode])

ArpBytes(m) ==
  ArpPreamble(m.opcode) \o m.sender_eth \o U32(m.sender_ip) \o m.target_eth \o U32(m.target_ip)

(* ARPMessage::supported: Ethernet, IPv4, their address sizes, and request *)
(* or reply.                                                               *)
ArpParses(b) ==
  Len(b) >= 28 /\ \E opcode \in DOMAIN OpCode : GetBytes(b, 0, 8) = ArpPreamble(opcode)

ArpOf(b) ==
  [opcode |-> CHOOSE o \in DOMAIN OpCode : OpCode[o] = GetU16(b, 6),
   sender_eth |-> GetBytes(b, 8, 6), sender_ip |-> GetU32(b, 14),
   target_eth |-> GetBytes(b, 18, 6), target_ip |-> GetU32(b, 24)]
=============================================================================
