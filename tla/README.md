# A TLA+ verification of the Sponge TCP/IP stack

Sponge is a user-space TCP/IP stack in C++ (`libsponge/`), with small
applications (`apps/`) on top. This directory models it from the applications'
stream copy down to the bytes of a frame, checks the models with TLC on small
instances, and proves some of what holds for every instance with TLAPS. `PROJECT.json` lists components, runs, mutants, the map
from definitions to source lines, findings, hazards and theorems.

## The system

| Part | State | Operations | What is hard about it |
|---|---|---|---|
| `WrappingInt32` | – | `wrap`, `unwrap` | choosing the right turn of a 32-bit counter |
| `ByteStream` | buffer, counters, end and error flags | `write`, `pop_output`, `read`, `end_input`, `set_error` | capacity, end of file |
| `StreamReassembler` | hash map of fragments, next index wanted, end position | `push_substring` | overlaps, any arrival order, capacity, end of stream |
| `TCPReceiver` | reassembler, peer's ISN | `segment_received`, `ackno`, `window_size` | number-to-index conversion, repeated SYN |
| `TCPSender` | outgoing stream, next number, retransmission queue, timer, window | `fill_window`, `ack_received`, `tick`, `send_empty_segment` | stale or impossible acknowledgments, zero and shrinking windows, backoff |
| `TCPConnection` | sender, receiver, linger flag, idle clock | `connect`, `write`, `end_input_stream`, `segment_received`, `tick`, destructor | opening, closing, lingering, abort |
| `TCPSpongeSocket`, `EventLoop` | connection, owner and TCP thread, four rules | `connect`, `listen_and_accept`, `wait_until_closed`, `wait_next_event`, callbacks | stale poll results, cancellation, the join |
| `bidirectional_stream_copy` | two byte streams, four rules | callbacks | end of file from either side, hangup |
| adapters, `LossyFdAdapter` | addresses and ports, listening flag | `read`, `write`, `tick` | loss, damage, pinning to the first SYN |
| formats, parser, checksum | – | `parse`, `serialize` | lengths, carries, what a checksum covers |
| `NetworkInterface` | ARP cache, pending requests, queued datagrams | `send_datagram`, `recv_frame`, `tick` | lost replies, two expiries |
| `Router`, `network_simulator` | route table, interfaces, hosts, cables | `add_route`, `route`, exchange, `check` | longest prefix, TTL, order |
| buffers, descriptors, other applications | – | storage and I/O | – |

An application writes into the socket; rule 2 of the socket's event loop hands
the bytes to the connection, whose sender cuts them into segments; rule 4 sends
them. At the peer rule 1 hands a segment to `segment_received`, which feeds
receiver and sender; rule 3 passes assembled bytes to the application. Every
round of the loop calls `tick`. Between rules 1 and 4 and the network an adapter
turns segments into bytes and back, over UDP, IP or Ethernet; over Ethernet a
`NetworkInterface` finds the neighbour's address first. `Router` joins several
interfaces.

What should hold: each application reads what the other wrote, in order, once,
then end of file; nothing counts as acknowledged that was not received; a
connection that closes without error has delivered both streams; the sender's
queue, timer and counters agree; what is damaged on the wire is not delivered,
and what is not damaged is; a datagram is neither doubled nor forgotten; nobody
waits for ever.

## Modules

A component that others own is a record with operators on it, in a module
without variables (`...Ops`); a state machine extends the operators it drives.
An operator that may leave one of several states (hash order, unstable sort)
returns the set of them.

| Module | Models |
|---|---|
| `WrappingIntegers` | `wrapping_integers.{hh,cc}`; `Mod` stands for 2^32, `Lim` for 2^64 |
| `SeqnoTracking` | a receiver that unwraps with its last position as checkpoint |
| `ByteStreamOps` | `byte_stream.{hh,cc}` |
| `StreamReassemblerOps`, `StreamReassembler` | `stream_reassembler.{hh,cc}`, and a reassembler under arbitrary pushes and reads |
| `ReassemblerLoops` | the loops of `push_substring`, iteration by iteration, in every order |
| `TCPSegmentOps` | header fields and `length_in_sequence_space` |
| `TCPSenderOps`, `TCPSender` | `tcp_sender.{hh,cc}`, and a sender under arbitrary calls |
| `SenderLoops` | the loops of `fill_window` and `ack_received` |
| `TCPReceiverOps`, `TCPConnectionOps` | `tcp_receiver.{hh,cc}`, `tcp_connection.{hh,cc}`, the summaries of `tcp_state.cc` |
| `ReliableStream` | abstract: one direction of a reliable connection |
| `TCPNetwork` | two connections, their applications, and a network that reorders, loses, duplicates and delays |
| `TimelyNetwork` | the same under the event loops' scheduling, for liveness |
| `NetworkInterfaceOps`, `RouterOps` | `network_interface.{hh,cc}`, `router.{hh,cc}` |
| `SimulatedNetwork` | `network_simulator.cc`: router, six hosts, cables, their steps in any order |
| `WireFormats` | `parse` and `serialize` of TCP, IPv4, ARP and Ethernet headers, `NetParser`, `InternetChecksum` |
| `SegmentWire` | the three adapters inside `LossyFdAdapter`, on a network of bytes |
| `SpongeSocket` | `bidirectional_stream_copy` in one thread, `TCPSpongeSocket` in the other, both on `EventLoop` |
| `MC...` | constants of runs |
| `ByteStreamProofs`, `WrappingIntegersProofs`, `SeqnoTrackingProofs`, `StreamReassemblerProofs`, `TCPSenderProofs`, `SpongeSocketThreadProofs`, `SpongeSocketProofs` | theorems about the module each is named after |

Conventions. A byte is its index in its logical stream, so "the right byte" is
an equation. Differences of unsigned numbers are taken `% Lim`, the window field
`% WinMod`. `consecutive_retran`, `rto` and the other fields keep the code's
names. `idle` is `time_since_last_segment_received()`, capped at the linger time,
beyond which the code tells no values apart. A handler and the transmission of
the segments it queued are one step of `TCPNetwork`: a segment that waits in
`segments_out` cannot be told from one that waits in the network. Rule 2 reads
end of file as an empty write followed by `end_input_stream`, and so does
`EndInput`. The twelve states of `tcp_state.cc` are computed from sender and
receiver as the code does. Closed forms of loops (`Merged`, `TrimToCapacity`, `Assemble`, `Plan`,
`Segments`, `FullyAcked`) are compared with the literal loops in every reachable state
(`LoopsAgree`), and so is the byte sequence that stands for a `BufferList`, for
every way to split it into buffers. Operators marked "Mutant" are deliberate mistakes: replacing the
definition that follows by one of them makes a run fail, which shows that the
properties can be violated.

The layers meet at interfaces. `SpongeSocket` does not contain the connection's
code: it sees byte streams that arrive and are acknowledged in order, an end of
each, a close some time after both are through (it lingers), retransmissions and
an abort for too many of them while a SYN, a byte or a FIN is outstanding, and a
reset by the peer, which is what `TCPNetwork` is shown to implement
(`ReliableStream`); how many segments a call queues is left open. `SegmentWire` carries a few given segments, and supports
`TCPNetwork`'s view of the network: a damaged segment is a lost one. A 32-bit
field in `WireFormats` is a pair of 16-bit halves and an address a sequence of
bytes, since the checker's integers have 32 bits with a sign. In
`SimulatedNetwork` a datagram is an identity with addresses and time to live; a
garbled frame is one whose payload does not parse.

## Runs

| Run | Result | Instance |
|---|---|---|
| `seqno_tracking` | holds | 8-value numbers, 64-value positions: seven turns, all ISNs |
| `reassembler` | holds | capacity below the stream length, all substrings, all hash orders |
| `sender` | holds | numbers of 16 values, windows from 0 up, ticks short of and past the timeout, any acknowledgment up to one beyond the last number sent |
| `network` | holds | two bytes one way, one fault anywhere, ISN two short of wrapping |
| `timely_network` | holds, no deadlock | two bytes through a buffer whose empty window is cut to zero, one fault |
| `simulated_network` | holds | any two datagrams of six kinds, at most two ticks or garbled frames |
| `segment_wire` | holds | two writes of three segments, three kinds of adapter, one message damaged, one tick |
| `socket` | holds, no deadlock | two bytes out and four in, buffers of two and three bytes, pipes of one, reset and abandonment at any time |
| `reassembler_capacity` | violated | `WithinCapacity` |
| `sender_long_stream` | violated | `InFlightExact`, stream longer than a turn |
| `network_window` | violated | `WindowRespected`, reordering only |
| `network_linger` | violated | `NoLingerPeerKnows`, one lost segment |

*seqno_tracking*: the recovered position never drifts (`TracksPosition`) and
`unwrap` returns the closest candidate (`UnwrapClosest`).

*reassembler*: the output is the logical stream and the three counters of what
was written agree (`OutputIsPrefix`); fragments are ahead, correct and disjoint
(`StoredSound`); the output ends exactly when complete (`EndsExactly`); every
substring with the next byte wanted is written by the call that brings it, all of
it or as much as there is room for (`NextByteAccepted`, stated of the results of
`push_substring`, so that a call that changes nothing is no exception); every
stream completes if its bytes keep coming and are read (`StreamCompletes`).

*sender*: the retransmission queue tiles what is in flight
(`QueueTilesFlight`), the timer runs exactly while something is outstanding
(`TimerArmed`), segments carry the bytes their numbers name
(`SequenceSpaceKept`), `bytes_in_flight()` is exact below one turn
(`InFlightExact`), and the timeout is the initial one, doubled once for each
retransmission since the last new acknowledgment that is not a window probe
(`BackoffDoubles`; the history variable `backed` counts them).

*network*: each direction implements `ReliableStream` (`ImplementsStreams`, a
refinement: written, ended, taken, available, closed and failed are read off the
two connections); acknowledged means assembled (`AckedIsReceived`); one side
lingers as long as both are up (`SomebodyLingers`); a clean close is complete
at both ends (`CleanCloseIsComplete`).

*timely_network*: both applications read everything and both connections close
(`DeliversAndCloses`), and the state a connection reports never goes back to an
earlier one, although it is computed afresh each time from counters that late
and repeated segments move (`StatesAdvance`).

*simulated_network*: a datagram is in exactly one place until a cable or its time
to live ends it (`ExactlyOnce`), arrives in the order sent (`InOrder`), leaves the
router by a longest matching route, matching being defined on bits
(`LongestPrefixWins`), and reaches the host that expects it (`Arrives`), so that
`Host::check` never throws (`ChecksPass`); the cache holds true addresses, for
thirty seconds from the last message (`MappingsTrue`); nobody asks for an address
twice in five seconds (`RequestSpacing`).

*segment_wire*: what `read` returns is what was written although a byte of the
message was changed or its end cut (`NothingAltered`); an undamaged segment is
returned to whom it was for (`IntactAccepted`), so both ends agree on every
header and checksum; a connection hears one peer, for a listener the first whose
SYN it read (`OnePeer`).

*socket*: no byte is lost, doubled or reordered between standard input and the
peer and back, and an end is passed on only after the last byte
(`StreamsIntact`); no event loop throws and nobody writes into a closed pipe
unless the connection was reset (`NoFailure`); the program ends (`ProgramEnds`).

### Bounds

`MaxInFlight` bounds the segments under way to one peer; steps that would exceed
it are left out, except in the timely run, where it is never reached.
`MaxFaults` bounds losses, duplications and late segments together: a tick while
a segment is under way makes it late. One fault is enough for each segment of a
connection, in any phase, to be lost, repeated, or overtaken by the
retransmission timer; reordering is free and unbounded. `MaxRetx` is small so
that aborts happen in `network`, and large enough in `timely_network` that the
bounded faults do not cause one. Deadlock is not checked in `network`, where the
bounds stop the system and both connections closed is a final state. Streams of
two bytes with one-byte segments give first, middle and last segments; the ISNs
make the 32-bit numbers wrap inside the connection. In `timely_network` the
window field has two values (`WinMod`) and the buffer two bytes, which is the
relation of 2^16 and a capacity of 65536.

`simulated_network`: two datagrams (`MaxSends`) suffice for one to meet the
request, the cache entry or the queue of the other; the kinds are those of the
program's scenario, with the first and last address of a route and the address
after it. One datagram arrives with its last hop and one runs out. Ticks of 2.5
and 27.5 seconds fall short of an expiry, meet either exactly (twice the first,
the first and the second) and pass it. `segment_wire`: a damaged byte takes one of three values at every
position, and a message is cut at each header's boundary and next to it; two
writes (`MaxWrites`) allow for a segment of the peer and one of a stranger in
either order, or a SYN and its answer. The three segments have options, an odd
payload, numbers with all bytes in use. `socket`: pipes shorter
than buffers make writes into the pair partial; besides, any write, also to
standard output, may take any part of what it is given, and standard output may
be not ready for any round. A buffer of three bytes inbound, with a stream of four,
is what it takes for an end that is passed on early to lose a byte. In
`simulated_network` and `segment_wire` deadlock is not checked: the bounds stop
them, and a network with nothing to carry rests.

### Fairness

`StreamReassembler`: every byte is pushed again until taken (the sender
retransmits) and the application reads. `TimelyNetwork`: `_tcp_loop` polls at
least every `TCP_TICK_MS`, handles what is ready and calls `tick` until its
connection closes, so the system keeps taking steps until both are closed. This
is weak fairness of the next-state relation, written with "not both closed" in
place of `ENABLED`; the absence of deadlock in the same run shows that the two
agree. Clocks of two open connections drift by at most `MaxDrift` ticks, and time
passes only when the applications have done what they can; both are assumptions
about speed, not about order. `SimulatedNetwork`: the simulator's loop runs the
router and every cable in each round, so the network does not rest while a frame
or datagram is under way. `SpongeSocket`: the operating system schedules both
threads, what the peer sends arrives in the end, whoever reads standard output
keeps reading, and lingering ends, as ten timeouts without a segment do pass
(strong fairness of a poll that finds something, and of the tick that closes,
since between polls they are not enabled).

## Findings

* The reassembler holds more than its capacity: the capacity loop never cuts the
  new substring and stops after one older one. With capacity 3 and nothing
  assembled, four bytes at index 1 are stored whole.
* `bytes_in_flight` and `ack_received` unwrap with checkpoint 0. By
  `UnwrapFromZero` that is the number modulo 2^32, so a connection that carries
  2^32 numbers miscounts from then on.
* A stale acknowledgment restores a stale window, and the sender exceeds the
  peer's right edge. `ImplementsStreams` shows that no data is lost by it.
* A FIN refused by a full window already clears the linger flag; the connection
  may later close at once, while its last acknowledgment is under way. Should that
  be lost nobody answers the peer, which has its data, but ends with an error.

Observations that no run states:

* `IPv4Datagram::parse` drops the verdict on its header, so a datagram with a bad
  header checksum is used. `NothingAltered` holds because the TCP checksum
  covers the addresses, protocol and length.
* Probes of a zero window count as retransmissions: a peer that does not read
  for long enough is cut off with RST.
* The RST that `~TCPConnection` queues is never sent: the socket's loop is over by
  then. An abandoned peer learns of it by its own timeouts.
* After a reset, bytes of the other thread may be left over, and their writer meets
  a closed pipe (SIGPIPE). `NoFailure` excludes it in every other case.
* A connection can be in a combination of sender, receiver and flags that none of
  the twelve names of `TCPState` covers; `StatesAdvance` is about the named ones.
* `router.hh` says of an ARP reply that its "target" fields are learned; the code,
  like `network_interface.hh`, takes the sender's.

## Proofs

`ByteStreamProofs` holds what the other proofs share: what `write`, `pop_output`,
`end_input` do to a well-formed stream, that they keep the bytes in order
(`WriteIntact`, `PopIntact`), and that a nonempty set of numbers has a least element
(`LeastNat`), which is the one form of induction used.

`WrappingIntegersProofs` and `SeqnoTrackingProofs`, for every even `Mod` and every
multiple `Lim` of it of at least two turns: `UnwrapFromZero`, `UnwrapRoundTrip`,
`UnwrapIsClosest`, and for `SeqnoTracking` `TracksPositionAlways` and
`UnwrapClosestAlways`. Positions stop
one turn short of 2^64, where the code's `uint64_t` arithmetic would overflow.
The argument: the code's signed detour leaves the difference modulo `Mod`
(`OffsetValue`, `WrapOffset`); number and checkpoint are written as turn times
`Mod` plus remainder; half a turn apart, the turns differ by at most one, which
are the branches of `unwrap`.

`TCPSenderProofs`, for every word size, ISN, capacity, stream length, set of
windows, ticks, payload size and timeout: `SenderTypeCorrect` and
`SenderTimerArmed`. Neither is inductive alone: `retransmit` keeps its types only
if the queue is not empty when the timer expires, which is `TimerArmed`, and
`pop_output` and `write` only if the stream's counters agree with its buffer. So
the invariant (`SenderInv`) joins the types, those counters (`StreamFits`) and the
timer (`Armed`). One lemma per operator shows that it keeps the invariant; the
acknowledgment loop needs that its stopping point exists (`LeastNat`).

The same module proves `SenderQueueTiles`, `SenderSequenceSpace` and `SenderInFlight`
under `OneTurn`: the stream with its SYN and FIN fits in one turn of the sequence
numbers. The assumption is the code's own limit, since it unwraps
acknowledgments with checkpoint 0, and it cannot be dropped: `sender_long_stream`
violates `InFlightExact` beyond it. The invariant (`FlightInv`) adds to `SenderInv` how
`next_seqno`, the state and the stream's counters go together (`Numbered`), that the
queue is a chain of segments up to `next_seqno` (`Tiles`) whose first contains the
first unacknowledged number (`Unacked`), and what each segment carries (`Loaded`).
`FillFlight` shows that `fill_window` appends such a chain, and `AckFlight` that
the loop of `ack_received` removes exactly the front of it.

`StreamReassemblerProofs`, for every capacity and stream length:
`ReassemblerTypeCorrect`, `ReassemblerOutputIsPrefix`, `ReassemblerStoredSound`,
`ReassemblerEndsExactly` and `ReassemblerNextByte`. The
invariant (`ReassemblerInv`) is `Counted` (output and counters agree) with `Sound` and
`Ahead` (what the map holds). `Ahead` fails in the middle of `push_substring`, so the
proof follows the call: `StoreSound` (clipping and merging, in any hash order, leave
a sound map in which only the new string may start at the next byte wanted),
`TrimSound` (the capacity loop only shortens an older one, or leaves an empty one), `AssembleWhole` (what is
contiguous is written and leaves the map) and `EndWhole`. The sum of the stored
lengths is a number because the fold of a finite map exists, by a least
counterexample over its size (`StoredBytesType`).

`SpongeSocketThreadProofs` (the invariant and the TCP thread's steps) and
`SpongeSocketProofs` (the copy's steps and the theorems), for every length of both streams and every size of buffers,
pipes and `segments_out`: `SocketTypeCorrect`, `SocketStreamsIntact` and
`SocketNoFailure`. The invariant (`SocketInv`) says of each direction that the bytes in
the four places along it are, in order, what its source has given (`Conserved`),
and that a stage that has seen end of file finds the stages before it empty
(`Outbound`, `Inbound`), unless the connection failed. Callbacks use a result of
`poll` that other steps may have outdated; the invariant says what of it stays
true: what a loop has been told to read from is still readable, as only the loop
itself takes from it. A write that takes any part of a buffer moves just that part
(`PartTaken`, `FitsEffect`), whether into the pair or to standard output. There is one lemma per rule and step (`Rule2Keeps`, `OwnerPollKeeps`, ...).

Every inductive invariant was model-checked before it was proved.

Only model-checked, though a proof is conceivable: the network and its refinement
of `ReliableStream` (its invariant would have to relate every segment in flight to
both ends), `SimulatedNetwork`, and `SegmentWire`, whose checksum properties compare
sums over all bytes of a packet. `BackoffDoubles` uses exponentiation, about which the
provers have no facts. Out of the prover's reach: liveness under fairness and
`ENABLED`, induction over data, and what recursive operators compute, so
`StreamCompletes`, `DeliversAndCloses`, `Arrives`, `ProgramEnds` and `LoopsAgree`
stay with TLC.

## Plan

Prove `MappingsTrue` and `RequestSpacing` of the interfaces, and `AckedIsReceived` if
the network invariant allows.

## Not modelled

* Printed forms (`to_string`, `summary`, `name`), hexdumps, debugging output and
  option parsing: text for people, no state.
* `tcp_benchmark`, `tcp_ip_ethernet`, `tcp_ipv4`, `tcp_native`, `tcp_udp`, `tun`,
  `udp_tcpdump`, `webget`: `main` functions around the modelled classes, in one
  order.
* Wrappers of system calls (`Socket`, `TunTapFD`, `Address`, `SystemCall`), beyond what
  their callers see: end of file, partial writes, source addresses. Signals and
  error conditions of descriptors in `EventLoop`.
* Shared storage of `Buffer`: a matter of memory, not of content.
* The doctests and tests.
* Damage to ARP messages, which carry no checksum: `SegmentWire` delivers them
  intact, `SimulatedNetwork` loses them.
* The connection's code under the socket's two threads in one model: the product
  of `TCPNetwork` and `SpongeSocket` is out of TLC's reach, and they meet at
  `ReliableStream`.
* Ticks before a peer's SYN only move the idle clock, which the first segment
  resets.
