---------------------------- MODULE SpongeSocket ----------------------------
(***************************************************************************)
(* The two threads of a program that runs bidirectional_stream_copy over a *)
(* TCPSpongeSocket: the owner's, which connects or accepts, copies between *)
(* standard input and output and the socket, and waits until it is closed; *)
(* and the TCP thread, which runs the four rules of _initialize_TCP.       *)
(* Between them is a pair of connected Unix-domain sockets.                *)
(*                                                                         *)
(*   stdin -> owner.out -> pair.down -> conn.out -> peer                   *)
(*   stdout <- owner.in <- pair.up <- conn.in <- peer                      *)
(*                                                                         *)
(* Each wait_next_event is one step that sets up the rules and polls, and  *)
(* then one step per rule that is due.  A result of poll is old when its   *)
(* callback runs: the other thread, and earlier callbacks, have gone on.   *)
(*                                                                         *)
(* The TCPConnection is seen through the calls the rules make; the rest of *)
(* it, and its peer, is what ReliableStream promises.  A byte is its index *)
(* in its stream.                                                          *)
(***************************************************************************)
EXTENDS ByteStreamOps, FiniteSetsExt

CONSTANTS OutLen, InLen,      \* bytes on standard input, and sent by the peer
          OutBuffer, InBuffer, \* capacity of the byte streams each way
          PipeRoom,           \* bytes the kernel holds per direction
          MaxSegs,            \* segments that wait in segments_out
          MayReset,           \* may the connection fail?
          MayAbandon          \* may the owner drop the socket without waiting?

ASSUME SocketAssumption ==
  /\ {OutLen, InLen} \subseteq Nat
  /\ {OutBuffer, InBuffer, PipeRoom, MaxSegs} \subseteq Nat \ {0}
  /\ {MayReset, MayAbandon} \subseteq BOOLEAN

VARIABLES conn,     \* the TCPConnection
          peer,     \* the bytes the peer got, and how many it sent
          thread,   \* the event loop of the socket, and _thread_data
          pair,     \* the socket pair: bytes and shutdowns in each direction
          owner,    \* the event loop of the stream copy, and its descriptors
          stdin,    \* bytes read from standard input
          stdout,   \* bytes written to standard output
          abort,    \* _abort
          fate      \* "running", "thrown" by an uncaught exception, or "killed"

vars == <<conn, peer, thread, pair, owner, stdin, stdout, abort, fate>>

(* The states in which connect() and listen_and_accept() keep waiting.     *)
Waiting == [connect |-> {"SYN_SENT"}, accept |-> {"LISTEN", "SYN_RCVD", "SYN_SENT"}]

Init ==
  /\ conn \in [state : {"SYN_SENT", "LISTEN"}, out : {NewByteStream(OutBuffer)},
               in : {NewByteStream(InBuffer)}, finAcked : {FALSE}, segs : {1}]
  /\ peer = [got |-> <<>>, sent |-> 0]
  /\ thread = [at |-> "poll", rules |-> 1..4, ready |-> {}, hung |-> {}, eof |-> FALSE,
               outbound_shutdown |-> FALSE, inbound_shutdown |-> FALSE]
  /\ pair = [up |-> <<>>, down |-> <<>>, upShut |-> FALSE, downShut |-> FALSE]
  /\ owner = [at |-> IF conn.state = "LISTEN" THEN "accept" ELSE "connect",
              rules |-> 1..4, ready |-> {}, hung |-> {},
              out |-> NewByteStream(OutBuffer), in |-> NewByteStream(InBuffer),
              inputEof |-> FALSE, socketEof |-> FALSE, outputClosed |-> FALSE,
              outbound_shutdown |-> FALSE, inbound_shutdown |-> FALSE]
  /\ stdin = 0 /\ stdout = <<>>
  /\ abort = FALSE /\ fate = "running"

-----------------------------------------------------------------------------
(* What the rules see of the connection.                                   *)

Active == conn.state \notin {"CLOSED", "RESET"}

(* A call of the connection may have queued a segment: whether it did is   *)
(* settled at the next poll.                                               *)
Queued(c) == [c EXCEPT !.segs = SmallerOf(@ + 1, MaxSegs)]

Written(c, data) == Queued([c EXCEPT !.out = write(@, data)])

Ended(c) == Queued([c EXCEPT !.out = end_input(@)])

Failed(c) ==
  [c EXCEPT !.state = "RESET", !.in = set_error(@), !.out = set_error(@)]

(* A SYN, a byte or a FIN is outstanding, so the retransmission timer runs. *)
Unacked(c) ==
  c.state \in {"SYN_SENT", "SYN_RCVD"} \/ c.out.stream # <<>> \/ (c.out.end_flag /\ ~ c.finAcked)

(* A segment of the peer opens the connection, brings a byte or the end of *)
(* its stream, acknowledges a byte or the end of ours, or resets; any      *)
(* other is a repetition and changes nothing.                              *)
Opened == [SYN_SENT |-> {"ESTABLISHED", "SYN_RCVD"}, LISTEN |-> {"SYN_RCVD"},
           SYN_RCVD |-> {"ESTABLISHED"}]

Open ==
  /\ conn.state \in DOMAIN Opened
  /\ \E s \in Opened[conn.state] : conn' = Queued([conn EXCEPT !.state = s])
  /\ UNCHANGED peer

Established == conn.state = "ESTABLISHED"

BringByte ==
  /\ Established /\ peer.sent < InLen /\ remaining_capacity(conn.in) > 0
  /\ conn' = Queued([conn EXCEPT !.in = write(@, <<peer.sent>>)])
  /\ peer' = [peer EXCEPT !.sent = @ + 1]

BringEnd ==
  /\ Established /\ peer.sent = InLen /\ ~ conn.in.end_flag
  /\ conn' = Queued([conn EXCEPT !.in = end_input(@)])
  /\ UNCHANGED peer

AckByte ==
  /\ Established /\ conn.out.stream # <<>>
  /\ conn' = [conn EXCEPT !.out = pop_output(@, 1)]
  /\ peer' = [peer EXCEPT !.got = Append(@, Head(conn.out.stream))]

AckEnd ==
  /\ Established /\ eof(conn.out) /\ ~ conn.finAcked
  /\ conn' = [conn EXCEPT !.finAcked = TRUE]
  /\ UNCHANGED peer

Reset ==
  /\ MayReset /\ Active /\ conn.state # "LISTEN"
  /\ conn' = Failed(conn)
  /\ UNCHANGED peer

Repeated ==
  /\ conn.state \notin DOMAIN Opened
  /\ conn.in.end_flag \/ remaining_capacity(conn.in) = 0 \/ ~ Established
  /\ ~ Unacked(conn) \/ ~ Established
  /\ UNCHANGED <<conn, peer>>

segment_received ==
  Open \/ BringByte \/ BringEnd \/ AckByte \/ AckEnd \/ Reset \/ Repeated

(* Time passes: a segment is sent again, the connection gives up, or, when *)
(* both streams are through, it lingers or closes.                         *)
tick ==
  \/ UNCHANGED conn
  \/ Unacked(conn) /\ conn' = Queued(conn)
  \/ Unacked(conn) /\ MayReset /\ conn' = Queued(Failed(conn))
  \/ eof(conn.in) /\ conn.finAcked /\ conn' = [conn EXCEPT !.state = "CLOSED"]

-----------------------------------------------------------------------------
(* The socket pair.                                                        *)

Taken(queue, limit) == SubSeq(queue, 1, SmallerOf(limit, Len(queue)))

Left(queue, n) == SubSeq(queue, n + 1, Len(queue))

(* How many bytes a write of n may take: not none, but possibly fewer than *)
(* it is given, and callers give at most 65536 (max_copy_length) of theirs. *)
Parts(n) == IF n = 0 THEN {0} ELSE 1..n

(* The room a direction has for n bytes.                                   *)
Fits(queue, n) == SmallerOf(n, PipeRoom - Len(queue))

Hangup == pair.upShut /\ pair.downShut

-----------------------------------------------------------------------------
(* EventLoop::wait_next_event on a loop l (a thread's or the owner's).     *)

(* Mutant: a ready descriptor counts for rules that did not ask.           *)
Polled_unasked(l, interested, ready, hangup) ==
  [l EXCEPT !.at = "serve", !.ready = ready, !.hung = (interested \ ready) \cap hangup]

(* The rules that are asked for and ready, and those for which poll        *)
(* reported nothing but a hangup.                                          *)
Polled(l, interested, ready, hangup) ==
  [l EXCEPT !.at = "serve", !.ready = interested \cap ready,
            !.hung = (interested \ ready) \cap hangup]

Due(l) == l.at = "serve" /\ l.ready \cup l.hung # {}

Turn(l, r) == Due(l) /\ r = Min(l.ready \cup l.hung)

Served(l, r) == [l EXCEPT !.ready = @ \ {r}, !.hung = @ \ {r}]

(* A rule for which only a hangup was reported goes.                       *)
Dropped(l, r) == [Served(l, r) EXCEPT !.rules = @ \ {r}]

-----------------------------------------------------------------------------
(* The TCP thread: _tcp_loop with the four rules of _initialize_TCP.       *)

Running == fate = "running"

Opening == owner.at \in DOMAIN Waiting

(* Reads of _thread_data have met end of file: rule 2 is cancelled.        *)
CancelRule2 == 2 \in thread.rules /\ thread.eof

ThreadSetup ==
  IF CancelRule2
    THEN [thread EXCEPT !.rules = @ \ {2}, !.outbound_shutdown = TRUE]
    ELSE thread

Interest1 == Active

Interest2 == Active /\ ~ thread.outbound_shutdown /\ remaining_capacity(conn.out) > 0

Interest3 ==
  \/ conn.in.stream # <<>>
  \/ (eof(conn.in) \/ conn.in.error) /\ ~ thread.inbound_shutdown

Interest4(c) == c.segs > 0

ThreadInterest(t, c) == {r \in t.rules : <<Interest1, Interest2, Interest3, Interest4(c)>>[r]}

(* What poll finds: the adapter can always be written, and be read when    *)
(* something arrived.                                                      *)
ThreadReady(arrived) ==
  {4} \cup (IF arrived THEN {1} ELSE {})
      \cup (IF pair.down # <<>> \/ pair.downShut THEN {2} ELSE {})
      \cup (IF Len(pair.up) < PipeRoom THEN {3} ELSE {})

ThreadHangup == IF Hangup THEN {2, 3} ELSE {}

(* connect() or listen_and_accept() are done when their condition fails;   *)
(* the loop then goes on in a thread of its own.                           *)
StartThread ==
  /\ Running /\ thread.at = "poll" /\ Opening /\ conn.state \notin Waiting[owner.at]
  /\ owner' = [owner EXCEPT !.at = "poll"]
  /\ UNCHANGED <<conn, peer, thread, pair, stdin, stdout, abort, fate>>

ThreadPoll(arrived, queued) ==
  /\ Running /\ thread.at = "poll" /\ (Opening => conn.state \in Waiting[owner.at])
  /\ conn' = [IF CancelRule2 THEN Ended(conn) ELSE conn EXCEPT !.segs = IF queued THEN @ ELSE 0]
  /\ \E want \in {ThreadInterest(ThreadSetup, conn')} :
       thread' = IF want = {} THEN [ThreadSetup EXCEPT !.at = "exit"]
                 ELSE Polled(ThreadSetup, want, ThreadReady(arrived), ThreadHangup)
  /\ UNCHANGED <<peer, pair, owner, stdin, stdout, abort, fate>>

Rule1 ==
  /\ segment_received
  /\ thread' = Served(thread, 1)
  /\ UNCHANGED <<pair, fate>>

(* read() of _thread_data finds bytes or end of file; all that is read     *)
(* must go into the connection.                                            *)
Rule2 ==
  \E data \in {Taken(pair.down, remaining_capacity(conn.out))} :
    /\ pair' = [pair EXCEPT !.down = Left(@, Len(data))]
    /\ conn' = IF data = <<>> THEN Ended(Written(conn, data)) ELSE Written(conn, data)
    /\ thread' = [Served(thread, 2) EXCEPT !.eof = (data = <<>>),
                                           !.outbound_shutdown = (data = <<>>)]
    /\ fate' = IF Accepted(conn.out, Len(data)) = Len(data) THEN fate ELSE "thrown"
    /\ UNCHANGED peer

InboundOver(c) == eof(c.in) \/ c.in.error

(* Only what was written is popped.  Writing after a shutdown is SIGPIPE.  *)
Rule3 ==
  \E n \in Parts(Fits(pair.up, Len(conn.in.stream))) :
    /\ conn' = [conn EXCEPT !.in = pop_output(@, n)]
    /\ pair' = [pair EXCEPT !.up = @ \o Taken(conn.in.stream, n),
                            !.upShut = @ \/ InboundOver(conn')]
    /\ thread' = [Served(thread, 3) EXCEPT !.inbound_shutdown = @ \/ InboundOver(conn')]
    /\ fate' = IF conn.in.stream # <<>> /\ pair.upShut THEN "killed" ELSE fate
    /\ UNCHANGED peer

(* Mutant: one segment is written, not all of them.                        *)
Sent_one(c) == [c EXCEPT !.segs = @ - 1]

Sent(c) == [c EXCEPT !.segs = 0]

(* An adapter over Ethernet may keep the datagram until ARP has answered;  *)
(* then nothing is written to the descriptor, and the loop throws if the   *)
(* rule is still interested.                                               *)
Rule4 ==
  \E serviced \in BOOLEAN :
    /\ conn' = Sent(conn)
    /\ thread' = Served(thread, 4)
    /\ fate' = IF serviced \/ ~ Interest4(conn') THEN fate ELSE "thrown"
    /\ UNCHANGED <<peer, pair>>

(* Of the rules that may see a hangup only rule 2 has a cancel callback.   *)
ThreadHungUp(r) ==
  /\ conn' = IF r = 2 THEN Ended(conn) ELSE conn
  /\ thread' = [Dropped(thread, r) EXCEPT !.outbound_shutdown = @ \/ r = 2]
  /\ UNCHANGED <<peer, pair, fate>>

ThreadServe(r) ==
  /\ Running /\ Turn(thread, r)
  /\ IF r \in thread.hung THEN ThreadHungUp(r)
     ELSE \/ r = 1 /\ Rule1
          \/ r = 2 /\ Rule2
          \/ r = 3 /\ Rule3
          \/ r = 4 /\ Rule4
  /\ UNCHANGED <<owner, stdin, stdout, abort>>

(* Mutant: _abort is not looked at.                                        *)
Aborted_never == FALSE

Aborted == abort

(* The rest of the loop's body once wait_next_event has returned.          *)
ThreadTick ==
  /\ Running /\ thread.at = "serve" /\ ~ Due(thread)
  /\ thread' = [thread EXCEPT !.at = IF Aborted THEN "exit" ELSE "poll"]
  /\ IF Active /\ ~ Aborted THEN tick ELSE UNCHANGED conn
  /\ UNCHANGED <<peer, pair, owner, stdin, stdout, abort, fate>>

(* The loop is over, which cannot happen before the thread has started:    *)
(* the thread shuts the owner's end down, both ways, and destroys the      *)
(* connection; what its destructor queues is never sent.                   *)
ThreadExit ==
  /\ Running /\ thread.at = "exit"
  /\ pair' = [pair EXCEPT !.upShut = TRUE, !.downShut = TRUE]
  /\ thread' = [thread EXCEPT !.at = "done"]
  /\ UNCHANGED <<conn, peer, owner, stdin, stdout, abort, fate>>

ThreadStep ==
  \/ StartThread
  \/ \E arrived, queued \in BOOLEAN : ThreadPoll(arrived, queued)
  \/ \E r \in 1..4 : ThreadServe(r)
  \/ ThreadTick
  \/ ThreadExit

-----------------------------------------------------------------------------
(* The owner: bidirectional_stream_copy, then wait_until_closed.           *)

(* The rules whose descriptor has met end of file or is closed.            *)
Cancelled ==
  {r \in owner.rules : <<owner.inputEof, FALSE, owner.socketEof, owner.outputClosed>>[r]}

OwnerSetup ==
  [owner EXCEPT !.rules = @ \ Cancelled,
                !.out = IF 1 \in Cancelled THEN end_input(@) ELSE @,
                !.in = IF {3, 4} \cap Cancelled # {} THEN end_input(@) ELSE @]

OwnerInterest(o) ==
  {r \in o.rules :
     <<remaining_capacity(o.out) > 0 /\ ~ o.out.error /\ ~ o.in.error,
       o.out.stream # <<>> \/ (eof(o.out) /\ ~ o.outbound_shutdown),
       remaining_capacity(o.in) > 0 /\ ~ o.in.error /\ ~ o.out.error,
       o.in.stream # <<>> \/ (eof(o.in) /\ ~ o.inbound_shutdown)>>[r]}

(* Standard input is always ready, standard output if it is not full.      *)
OwnerReady(full) ==
  {1} \cup (IF full THEN {} ELSE {4})
      \cup (IF Len(pair.down) < PipeRoom THEN {2} ELSE {})
      \cup (IF pair.up # <<>> \/ pair.upShut THEN {3} ELSE {})

(* poll() waits without a timeout; a hangup ends the wait also for rules   *)
(* that are not interested.                                                *)
OwnerPoll(full) ==
  /\ Running /\ owner.at = "poll"
  /\ \E o \in {OwnerSetup} : \E want \in {OwnerInterest(o)} :
       \/ want = {} /\ owner' = [o EXCEPT !.at = "leave"]
       \/ /\ want # {} /\ (want \cap OwnerReady(full) # {} \/ (Hangup /\ o.rules \cap {2, 3} # {}))
          /\ owner' = Polled(o, want, OwnerReady(full), IF Hangup THEN {2, 3} ELSE {})
  /\ UNCHANGED <<conn, peer, thread, pair, stdin, stdout, abort, fate>>

CopyRule1 ==
  \E n \in {SmallerOf(remaining_capacity(owner.out), OutLen - stdin)} :
    /\ stdin' = stdin + n
    /\ owner' = [Served(owner, 1) EXCEPT !.inputEof = (n = 0),
                   !.out = IF n = 0 THEN end_input(@) ELSE write(@, BytesFrom(stdin, n))]
    /\ UNCHANGED <<pair, stdout, fate>>

CopyRule2 ==
  \E n \in Parts(Fits(pair.down, Len(owner.out.stream))) : \E left \in {pop_output(owner.out, n)} :
    /\ pair' = [pair EXCEPT !.down = @ \o Taken(owner.out.stream, n), !.downShut = @ \/ eof(left)]
    /\ owner' = [Served(owner, 2) EXCEPT !.out = left, !.outbound_shutdown = @ \/ eof(left)]
    /\ fate' = IF owner.out.stream # <<>> /\ pair.downShut THEN "killed" ELSE fate
    /\ UNCHANGED <<stdin, stdout>>

CopyRule3 ==
  \E data \in {Taken(pair.up, remaining_capacity(owner.in))} :
    /\ pair' = [pair EXCEPT !.up = Left(@, Len(data))]
    /\ owner' = [Served(owner, 3) EXCEPT !.socketEof = (data = <<>>),
                   !.in = IF data = <<>> THEN end_input(@) ELSE write(@, data)]
    /\ UNCHANGED <<stdin, stdout, fate>>

(* Mutant: standard output is closed once the end of the stream is known,  *)
(* although what a partial write left is still to come.                    *)
CopyRule4_early ==
  \E n \in Parts(owner.in.size) : \E left \in {pop_output(owner.in, n)} :
    /\ stdout' = stdout \o Taken(owner.in.stream, n)
    /\ owner' = [Served(owner, 4) EXCEPT !.in = left, !.outputClosed = @ \/ left.end_flag,
                                         !.inbound_shutdown = @ \/ left.end_flag]
    /\ UNCHANGED <<pair, stdin, fate>>

(* Standard output is closed when what it took was the last of the stream. *)
CopyRule4 ==
  \E n \in Parts(owner.in.size) : \E left \in {pop_output(owner.in, n)} :
    /\ stdout' = stdout \o Taken(owner.in.stream, n)
    /\ owner' = [Served(owner, 4) EXCEPT !.in = left, !.outputClosed = @ \/ eof(left),
                                         !.inbound_shutdown = @ \/ eof(left)]
    /\ UNCHANGED <<pair, stdin, fate>>

OwnerHungUp(r) ==
  /\ owner' = [Dropped(owner, r) EXCEPT !.out = IF r = 2 THEN end_input(@) ELSE @,
                                        !.in = IF r = 3 THEN end_input(@) ELSE @]
  /\ UNCHANGED <<pair, stdin, stdout, fate>>

OwnerServe(r) ==
  /\ Running /\ Turn(owner, r)
  /\ IF r \in owner.hung THEN OwnerHungUp(r)
     ELSE \/ r = 1 /\ CopyRule1
          \/ r = 2 /\ CopyRule2
          \/ r = 3 /\ CopyRule3
          \/ r = 4 /\ CopyRule4
  /\ UNCHANGED <<conn, peer, thread, abort>>

OwnerTurn ==
  /\ Running /\ owner.at = "serve" /\ ~ Due(owner)
  /\ owner' = [owner EXCEPT !.at = "poll"]
  /\ UNCHANGED <<conn, peer, thread, pair, stdin, stdout, abort, fate>>

(* wait_until_closed: shut the socket down, both ways, and join.           *)
WaitUntilClosed ==
  /\ Running /\ owner.at = "leave"
  /\ pair' = [pair EXCEPT !.upShut = TRUE, !.downShut = TRUE]
  /\ owner' = [owner EXCEPT !.at = "join"]
  /\ UNCHANGED <<conn, peer, thread, stdin, stdout, abort, fate>>

(* An exception of the copy's reaches main(): the destructor of the socket *)
(* tells the thread to stop, and joins it.                                 *)
Abandon ==
  /\ Running /\ MayAbandon /\ owner.at \in {"poll", "serve"}
  /\ abort' = TRUE
  /\ owner' = [owner EXCEPT !.at = "join"]
  /\ UNCHANGED <<conn, peer, thread, pair, stdin, stdout, fate>>

Join ==
  /\ Running /\ owner.at = "join" /\ thread.at = "done"
  /\ owner' = [owner EXCEPT !.at = "done"]
  /\ UNCHANGED <<conn, peer, thread, pair, stdin, stdout, abort, fate>>

OwnerStep ==
  \/ \E full \in BOOLEAN : OwnerPoll(full)
  \/ \E r \in 1..4 : OwnerServe(r)
  \/ OwnerTurn \/ WaitUntilClosed \/ Join

Over == owner.at = "done" \/ ~ Running

Next == ThreadStep \/ OwnerStep \/ Abandon \/ (Over /\ UNCHANGED vars)

(* Both threads are scheduled, what the peer sends arrives, ten timeouts   *)
(* without a segment pass, so that lingering ends, and whoever reads       *)
(* standard output keeps reading.                                          *)
Fairness ==
  /\ WF_vars(ThreadStep) /\ WF_vars(OwnerStep)
  /\ SF_vars(ThreadTick /\ conn'.state = "CLOSED")
  /\ SF_vars(OwnerPoll(FALSE))
  /\ SF_vars(\E queued \in BOOLEAN : ThreadPoll(TRUE, queued))

Spec == Init /\ [][Next]_vars

FairSpec == Spec /\ Fairness

-----------------------------------------------------------------------------
(* Properties.                                                             *)

LoopType == [at : {"poll", "serve", "exit", "done", "connect", "accept", "leave", "join"},
             rules : SUBSET (1..4), ready : SUBSET (1..4), hung : SUBSET (1..4)]

IsLoop(l) ==
  [at |-> l.at, rules |-> l.rules, ready |-> l.ready, hung |-> l.hung] \in LoopType

(* Loops serve only rules they still have, queues respect their bounds.    *)
TypeOK ==
  /\ IsLoop(thread) /\ thread.ready \cup thread.hung \subseteq thread.rules
  /\ IsLoop(owner) /\ owner.ready \cup owner.hung \subseteq owner.rules
  /\ \A s \in {conn.out, conn.in, owner.out, owner.in} :
       s.size = Len(s.stream) /\ s.size <= s.capacity
  /\ Len(pair.up) <= PipeRoom /\ Len(pair.down) <= PipeRoom
  /\ stdin \in 0..OutLen /\ peer.sent \in 0..InLen /\ conn.segs \in 0..MaxSegs

(* Between standard input and the peer, and between the peer and standard  *)
(* output, no byte is lost, repeated or overtaken, whatever is written in  *)
(* parts and whichever thread is ahead.  The peer is told the end of a     *)
(* stream, and standard output is closed, only after the last byte, unless *)
(* the connection failed.                                                  *)
StreamsIntact ==
  /\ peer.got \o conn.out.stream \o pair.down \o owner.out.stream = BytesFrom(0, stdin)
  /\ stdout \o owner.in.stream \o pair.up \o conn.in.stream = BytesFrom(0, peer.sent)
  /\ conn.out.end_flag /\ ~ conn.in.error
       => stdin = OutLen /\ pair.down = <<>> /\ owner.out.stream = <<>>
  /\ owner.outputClosed /\ ~ conn.in.error => Len(stdout) = InLen

(* Neither event loop throws: no callback leaves its descriptor unserved   *)
(* and its rule interested, and the connection takes all bytes it had      *)
(* room for.  Nobody writes to a pipe that is shut down, except that after *)
(* a reset bytes may be left over, whose writer is then killed (SIGPIPE).  *)
NoFailure == fate = "running" \/ (fate = "killed" /\ conn.in.error)

(* The program comes to its end: the copy returns once both streams are    *)
(* through, wait_until_closed() or the destructor joins the thread, and    *)
(* nobody waits for ever for the other, also when the connection is reset  *)
(* or the owner abandons it at any moment.                                 *)
ProgramEnds == <>Over
=============================================================================
