------------------------ MODULE NetworkInterfaceOps ------------------------
(***************************************************************************)
(* The network interface (libsponge/network_interface.{hh,cc}) and its     *)
(* asynchronous wrapper (libsponge/router.hh).                             *)
(*                                                                         *)
(* An interface is a record.  Its three maps are functions whose domain is *)
(* the set of keys present: cacheMap (what ARP has taught, with the        *)
(* remaining lifetime), arpRequests (remaining lifetime of each request)   *)
(* and datagramQueue (datagrams waiting for the address of their hop).     *)
(* A frame holds the ARP message or the datagram it carries; a payload     *)
(* that does not parse is Garbled.                                         *)
(***************************************************************************)
EXTENDS Naturals, Sequences, Functions, TLC

CONSTANTS RequestLife,  \* 5 * 1000 in the code
          CacheLife     \* 30 * 1000 in the code

ETHERNET_BROADCAST == <<255, 255, 255, 255, 255, 255>>

NoEthernetAddress == <<0, 0, 0, 0, 0, 0>>

Garbled == [garbled |-> TRUE]

NewInterface(eth, ip) ==
  [eth |-> eth, ip |-> ip, frames_out |-> <<>>, cacheMap |-> <<>>,
   arpRequests |-> <<>>, datagramQueue |-> <<>>, datagrams_out |-> <<>>]

Frame(src, dst, type, payload) ==
  [src |-> src, dst |-> dst, type |-> type, payload |-> payload]

Arp(opcode, senderEth, senderIp, targetEth, targetIp) ==
  [opcode |-> opcode, sender_eth |-> senderEth, sender_ip |-> senderIp,
   target_eth |-> targetEth, target_ip |-> targetIp]

Push(n, frames) == [n EXCEPT !.frames_out = @ \o frames]

-----------------------------------------------------------------------------
(* Sending a datagram.                                                     *)

(* Mutant: the request is repeated for every datagram that has to wait. *)
AskOnce_everyTime(n, hop) ==
  [Push(n, <<Frame(n.eth, ETHERNET_BROADCAST, "ARP",
                   Arp("REQUEST", n.eth, n.ip, NoEthernetAddress, hop))>>)
     EXCEPT !.arpRequests = (hop :> RequestLife) @@ @]

AskOnce(n, hop) ==
  IF hop \in DOMAIN n.arpRequests
    THEN n
    ELSE [Push(n, <<Frame(n.eth, ETHERNET_BROADCAST, "ARP",
                          Arp("REQUEST", n.eth, n.ip, NoEthernetAddress, hop))>>)
            EXCEPT !.arpRequests = (hop :> RequestLife) @@ @]

Waiting(n, hop) == IF hop \in DOMAIN n.datagramQueue THEN n.datagramQueue[hop] ELSE <<>>

Enqueue(n, dgram, hop) ==
  [n EXCEPT !.datagramQueue = (hop :> Append(Waiting(n, hop), dgram)) @@ @]

send_datagram(n, dgram, hop) ==
  IF hop \in DOMAIN n.cacheMap
    THEN Push(n, <<Frame(n.eth, n.cacheMap[hop].eth, "IPv4", dgram)>>)
    ELSE Enqueue(AskOnce(n, hop), dgram, hop)

-----------------------------------------------------------------------------
(* Receiving a frame.                                                      *)

Accepts(n, f) == f.dst \in {ETHERNET_BROADCAST, n.eth} /\ f.payload # Garbled

(* Mutant: the mapping is learned from the "target" fields.               *)
Learn_target(n, m) ==
  [n EXCEPT !.cacheMap = (m.target_ip :> [eth |-> m.target_eth, ms |-> CacheLife]) @@ @]

Learn(n, m) ==
  [n EXCEPT !.cacheMap = (m.sender_ip :> [eth |-> m.sender_eth, ms |-> CacheLife]) @@ @]

(* Mutant: the datagram that waited least is sent first.                   *)
Flush_lifo(n, m) ==
  IF m.sender_ip \in DOMAIN n.datagramQueue
    THEN [Push(n, [i \in DOMAIN Waiting(n, m.sender_ip) |->
                     Frame(n.eth, m.sender_eth, "IPv4",
                           Waiting(n, m.sender_ip)[Len(Waiting(n, m.sender_ip)) + 1 - i])])
            EXCEPT !.datagramQueue[m.sender_ip] = <<>>]
    ELSE n

Flush(n, m) ==
  IF m.sender_ip \in DOMAIN n.datagramQueue
    THEN [Push(n, [i \in DOMAIN Waiting(n, m.sender_ip) |->
                     Frame(n.eth, m.sender_eth, "IPv4", Waiting(n, m.sender_ip)[i])])
            EXCEPT !.datagramQueue[m.sender_ip] = <<>>]
    ELSE n

Answer(n, m) ==
  IF m.opcode = "REQUEST" /\ m.target_ip = n.ip
    THEN Push(n, <<Frame(n.eth, m.sender_eth, "ARP",
                         Arp("REPLY", n.eth, n.ip, m.sender_eth, m.sender_ip))>>)
    ELSE n

recv_frame(n, f) ==
  IF Accepts(n, f) /\ f.type = "ARP"
    THEN Answer(Flush(Learn(n, f.payload), f.payload), f.payload)
    ELSE n

(* The optional datagram recv_frame returns, as a sequence.                *)
Received(n, f) == IF Accepts(n, f) /\ f.type = "IPv4" THEN <<f.payload>> ELSE <<>>

async_recv_frame(n, f) == [recv_frame(n, f) EXCEPT !.datagrams_out = @ \o Received(n, f)]

-----------------------------------------------------------------------------
(* Time.  An entry goes when its remaining lifetime is used up.            *)

(* Mutant: an entry whose lifetime is just used up stays.                 *)
interface_tick_strict(n, ms) ==
  [n EXCEPT
     !.arpRequests = [k \in {x \in DOMAIN @ : @[x] >= ms} |-> @[k] - ms],
     !.cacheMap = [k \in {x \in DOMAIN @ : @[x].ms >= ms} |->
                     [@[k] EXCEPT !.ms = @ - ms]]]

interface_tick(n, ms) ==
  [n EXCEPT
     !.arpRequests = [k \in {x \in DOMAIN @ : @[x] > ms} |-> @[k] - ms],
     !.cacheMap = [k \in {x \in DOMAIN @ : @[x].ms > ms} |->
                     [@[k] EXCEPT !.ms = @ - ms]]]
=============================================================================
