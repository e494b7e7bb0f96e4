----------------------- MODULE SpongeSocketThreadProofs -----------------------
(***************************************************************************)
(* The invariant of the socket's two threads, and what the steps of the    *)
(* TCP thread do to it.                                                    *)
(*                                                                         *)
(* Both directions rest on the same argument: an end of file travels along *)
(* the stages of a direction behind the last byte, so each stage that has  *)
(* seen it finds the stages before it empty.  A result of poll is old when *)
(* it is used, so the invariant also says what of it is still true.        *)
(***************************************************************************)
EXTENDS SpongeSocket, ByteStreamProofs

Rules == 1..4

ConnType ==
  [state : {"SYN_SENT", "LISTEN", "SYN_RCVD", "ESTABLISHED", "CLOSED", "RESET"},
   out : ByteStreamType(Byte), in : ByteStreamType(Byte),
   finAcked : BOOLEAN, segs : 0..MaxSegs]

ThreadType ==
  [at : {"poll", "serve", "exit", "done"},
   rules : SUBSET Rules, ready : SUBSET Rules, hung : SUBSET Rules, eof : BOOLEAN,
   outbound_shutdown : BOOLEAN, inbound_shutdown : BOOLEAN]

PairType ==
  [up : Seq(Byte), down : Seq(Byte), upShut : BOOLEAN, downShut : BOOLEAN]

OwnerType ==
  [at : {"connect", "accept", "poll", "serve", "leave", "join", "done"},
   rules : SUBSET Rules, ready : SUBSET Rules, hung : SUBSET Rules,
   out : ByteStreamType(Byte), in : ByteStreamType(Byte),
   inputEof : BOOLEAN, socketEof : BOOLEAN, outputClosed : BOOLEAN,
   outbound_shutdown : BOOLEAN, inbound_shutdown : BOOLEAN]

Buffer(st, cap) == StreamFits(st) /\ st.capacity = cap

GoodConn(c) == c \in ConnType /\ Buffer(c.out, OutBuffer) /\ Buffer(c.in, InBuffer)

Shape ==
  /\ GoodConn(conn)
  /\ peer \in [got : Seq(Byte), sent : 0..InLen]
  /\ thread \in ThreadType /\ thread.ready \cup thread.hung \subseteq thread.rules
  /\ pair \in PairType /\ Len(pair.up) <= PipeRoom /\ Len(pair.down) <= PipeRoom
  /\ owner \in OwnerType /\ owner.ready \cup owner.hung \subseteq owner.rules
  /\ Buffer(owner.out, OutBuffer) /\ Buffer(owner.in, InBuffer)
  /\ stdin \in 0..OutLen /\ stdout \in Seq(Byte)
  /\ abort \in BOOLEAN

Full(st) == remaining_capacity(st) = 0

(* The thread ended because it was told to. *)
Stopped == abort /\ thread.at = "done"

(* How far each loop and the connection are.                               *)
Control ==
  /\ 1 \in thread.rules /\ thread.hung \subseteq {3} /\ owner.hung \subseteq {2}
  /\ thread.at = "poll" => thread.ready \cup thread.hung = {}
  /\ owner.at \in {"connect", "accept", "poll"} => owner.ready \cup owner.hung = {}
  /\ thread.at \in {"exit", "done"} => abort \/ ~ Active
  /\ abort => owner.at \in {"join", "done"}
  /\ conn.in.error <=> (conn.state = "RESET")
  /\ conn.state = "CLOSED" => conn.finAcked /\ eof(conn.in)
  /\ conn.finAcked => eof(conn.out)

(* From standard input to the peer.                                        *)
Outbound ==
  /\ ~ owner.out.error
  /\ owner.inputEof \/ 1 \notin owner.rules => stdin = OutLen
  /\ owner.out.end_flag => stdin = OutLen \/ (2 \notin owner.rules /\ Full(owner.out))
  /\ 1 \in owner.ready => ~ Full(owner.out)
  /\ 2 \in owner.hung /\ 1 \notin owner.ready => stdin = OutLen \/ Full(owner.out)
  /\ 2 \in owner.hung \/ 2 \notin owner.rules => pair.downShut
  /\ pair.downShut /\ ~ conn.in.error /\ ~ Stopped
       => stdin = OutLen /\ owner.out.stream = <<>>
  /\ 2 \in thread.ready =>
       ~ thread.outbound_shutdown /\ ~ Full(conn.out) /\ (pair.down # <<>> \/ pair.downShut)
  /\ thread.eof => conn.out.end_flag
  /\ conn.out.end_flag => thread.outbound_shutdown
  /\ conn.out.end_flag /\ ~ conn.in.error
       => stdin = OutLen /\ pair.down = <<>> /\ owner.out.stream = <<>>

(* From the peer to standard output.                                       *)
Inbound ==
  /\ ~ owner.in.error
  /\ conn.in.end_flag => peer.sent = InLen
  /\ pair.upShut /\ ~ conn.in.error /\ ~ Stopped
       => peer.sent = InLen /\ conn.in.stream = <<>>
  /\ 3 \in owner.ready =>
       ~ owner.in.end_flag /\ ~ Full(owner.in) /\ (pair.up # <<>> \/ pair.upShut)
  /\ owner.in.end_flag <=> owner.socketEof
  /\ 3 \notin owner.rules => owner.in.end_flag
  /\ 4 \notin owner.rules => owner.outputClosed
  /\ owner.outputClosed => eof(owner.in)
  /\ owner.in.end_flag /\ ~ conn.in.error
       => peer.sent = InLen /\ conn.in.stream = <<>> /\ pair.up = <<>>

(* The copy leaves when both directions are through.                       *)
Leaving ==
  owner.at = "leave" =>
    owner.in.end_flag /\ (conn.in.error \/ (stdin = OutLen /\ owner.out.stream = <<>>))

Conserved ==
  /\ peer.got \o conn.out.stream \o pair.down \o owner.out.stream = BytesFrom(0, stdin)
  /\ stdout \o owner.in.stream \o pair.up \o conn.in.stream = BytesFrom(0, peer.sent)

SocketInv ==
  Shape /\ Control /\ Outbound /\ Inbound /\ Leaving /\ Conserved /\ NoFailure

-----------------------------------------------------------------------------
(* The fields of the state, one by one. *)
LEMMA Fields ==
    ASSUME Shape
    PROVE  /\ GoodStream(conn.out) /\ conn.out.capacity = OutBuffer
           /\ GoodStream(conn.in) /\ conn.in.capacity = InBuffer
           /\ GoodStream(owner.out) /\ owner.out.capacity = OutBuffer
           /\ GoodStream(owner.in) /\ owner.in.capacity = InBuffer
           /\ conn \in ConnType /\ conn.finAcked \in BOOLEAN /\ conn.segs \in 0..MaxSegs
           /\ peer.got \in Seq(Byte) /\ peer.sent \in 0..InLen
           /\ thread \in ThreadType /\ thread.rules \subseteq Rules
           /\ thread.ready \subseteq Rules /\ thread.hung \subseteq Rules
           /\ thread.eof \in BOOLEAN /\ thread.outbound_shutdown \in BOOLEAN
           /\ thread.inbound_shutdown \in BOOLEAN
           /\ pair \in PairType /\ pair.up \in Seq(Byte) /\ pair.down \in Seq(Byte)
           /\ pair.upShut \in BOOLEAN /\ pair.downShut \in BOOLEAN
           /\ owner \in OwnerType /\ owner.rules \subseteq Rules
           /\ owner.ready \subseteq Rules /\ owner.hung \subseteq Rules
           /\ owner.inputEof \in BOOLEAN /\ owner.socketEof \in BOOLEAN
           /\ owner.outputClosed \in BOOLEAN /\ owner.outbound_shutdown \in BOOLEAN
           /\ owner.inbound_shutdown \in BOOLEAN
<1>1. conn.out \in ByteStreamType(Byte) /\ conn.in \in ByteStreamType(Byte)
  BY DEF Shape, GoodConn, ConnType
<1>2. owner.out \in ByteStreamType(Byte) /\ owner.in \in ByteStreamType(Byte)
  BY DEF Shape, OwnerType
<1>3. /\ GoodStream(conn.out) /\ conn.out.capacity = OutBuffer
      /\ GoodStream(conn.in) /\ conn.in.capacity = InBuffer
      /\ GoodStream(owner.out) /\ owner.out.capacity = OutBuffer
      /\ GoodStream(owner.in) /\ owner.in.capacity = InBuffer
  BY <1>1, <1>2 DEF Shape, GoodConn, Buffer, GoodStream
<1>4. conn \in ConnType /\ conn.finAcked \in BOOLEAN /\ conn.segs \in 0..MaxSegs
  BY DEF Shape, GoodConn, ConnType
<1>5. /\ thread \in ThreadType /\ thread.rules \subseteq Rules
      /\ thread.ready \subseteq Rules /\ thread.hung \subseteq Rules
      /\ thread.eof \in BOOLEAN /\ thread.outbound_shutdown \in BOOLEAN
      /\ thread.inbound_shutdown \in BOOLEAN
  BY DEF Shape, ThreadType
<1>6. /\ pair \in PairType /\ pair.up \in Seq(Byte) /\ pair.down \in Seq(Byte)
      /\ pair.upShut \in BOOLEAN /\ pair.downShut \in BOOLEAN
  BY DEF Shape, PairType
<1>7. /\ owner \in OwnerType /\ owner.rules \subseteq Rules
      /\ owner.ready \subseteq Rules /\ owner.hung \subseteq Rules
      /\ owner.inputEof \in BOOLEAN /\ owner.socketEof \in BOOLEAN
      /\ owner.outputClosed \in BOOLEAN /\ owner.outbound_shutdown \in BOOLEAN
      /\ owner.inbound_shutdown \in BOOLEAN
  BY DEF Shape, OwnerType
<1>8. peer.got \in Seq(Byte) /\ peer.sent \in 0..InLen
  BY DEF Shape
<1> QED BY <1>3, <1>4, <1>5, <1>6, <1>7, <1>8

(* The rule whose turn it is is the first of those that are due. *)
LEMMA TurnFirst ==
    ASSUME NEW l, l.ready \subseteq Rules, l.hung \subseteq Rules,
           NEW r, Turn(l, r)
    PROVE  /\ l.at = "serve" /\ r \in l.ready \cup l.hung
           /\ \A x \in l.ready \cup l.hung : r <= x
<1> DEFINE S == l.ready \cup l.hung
<1>1. S # {} /\ S \subseteq Nat /\ l.at = "serve" /\ r = Min(S)
  BY DEF Turn, Due, Rules
<1> HIDE DEF S
<1>2. \E x \in S : \A y \in S : x <= y
  BY <1>1, LeastNat, Zenon
<1>3. r \in S /\ \A y \in S : r <= y
  BY <1>1, <1>2, Zenon DEF Min
<1> QED BY <1>1, <1>3 DEF S

-----------------------------------------------------------------------------
(* Steps that move a loop on. *)

LEMMA OwnerMoved ==
    ASSUME owner \in OwnerType,
           NEW a \in {"poll", "leave", "join", "done"}, owner' = [owner EXCEPT !.at = a]
    PROVE  /\ owner'.at = a /\ owner'.rules = owner.rules /\ owner'.ready = owner.ready
           /\ owner'.hung = owner.hung /\ owner'.out = owner.out /\ owner'.in = owner.in
           /\ owner'.inputEof = owner.inputEof /\ owner'.socketEof = owner.socketEof
           /\ owner'.outputClosed = owner.outputClosed /\ owner' \in OwnerType
  BY DEF OwnerType

LEMMA OwnerMoveKeeps ==
    ASSUME SocketInv,
           NEW a \in {"poll", "join", "done"}, owner' = [owner EXCEPT !.at = a],
           a = "poll" => owner.ready \cup owner.hung = {},
           abort' \in BOOLEAN, abort => abort', abort' => a \in {"join", "done"},
           UNCHANGED <<conn, peer, thread, pair, stdin, stdout, fate>>
    PROVE  SocketInv'
<1>1. owner \in OwnerType
  BY DEF SocketInv, Shape
<1>2. /\ owner'.at = a /\ owner'.rules = owner.rules /\ owner'.ready = owner.ready
      /\ owner'.hung = owner.hung /\ owner'.out = owner.out /\ owner'.in = owner.in
      /\ owner'.inputEof = owner.inputEof /\ owner'.socketEof = owner.socketEof
      /\ owner'.outputClosed = owner.outputClosed /\ owner' \in OwnerType
  BY <1>1, OwnerMoved
<1>3. Shape'
  BY <1>2 DEF SocketInv, Shape, Buffer, StreamFits
<1>4. Control'
  BY <1>2 DEF SocketInv, Control, Active, eof
<1>5. Outbound'
  BY <1>2 DEF SocketInv, Outbound, Full, Stopped, remaining_capacity
<1>6. Inbound'
  BY <1>2 DEF SocketInv, Inbound, Full, Stopped, remaining_capacity, eof
<1>7. Leaving' /\ Conserved' /\ NoFailure'
  BY <1>2, Zenon DEF SocketInv, Leaving, Conserved, NoFailure
<1> QED BY <1>3, <1>4, <1>5, <1>6, <1>7 DEF SocketInv

LEMMA StartThreadKeeps == SocketInv /\ StartThread => SocketInv'
<1> SUFFICES ASSUME SocketInv, StartThread PROVE SocketInv'
  OBVIOUS
<1>1. owner.at \in {"connect", "accept"}
  BY DEF StartThread, Opening, Waiting
<1>2. abort \in BOOLEAN /\ ~ abort /\ owner.ready \cup owner.hung = {}
  BY <1>1 DEF SocketInv, Shape, Control
<1> QED BY <1>2, OwnerMoveKeeps DEF StartThread

LEMMA OwnerTurnKeeps == SocketInv /\ OwnerTurn => SocketInv'
<1> SUFFICES ASSUME SocketInv, OwnerTurn PROVE SocketInv'
  OBVIOUS
<1>1. abort \in BOOLEAN /\ ~ abort
  BY DEF SocketInv, Shape, Control, OwnerTurn
<1>2. owner.ready \cup owner.hung = {}
  BY DEF OwnerTurn, Due
<1> QED BY <1>1, <1>2, OwnerMoveKeeps DEF OwnerTurn

LEMMA AbandonKeeps == SocketInv /\ Abandon => SocketInv'
  BY OwnerMoveKeeps DEF Abandon

LEMMA JoinKeeps == SocketInv /\ Join => SocketInv'
<1> SUFFICES ASSUME SocketInv, Join PROVE SocketInv'
  OBVIOUS
<1>1. abort \in BOOLEAN
  BY DEF SocketInv, Shape
<1> QED BY <1>1, OwnerMoveKeeps DEF Join

(* Both directions of the pipe are shut down: the owner has nothing left   *)
(* to read or to write.                                                    *)
LEMMA WaitUntilClosedKeeps == SocketInv /\ WaitUntilClosed => SocketInv'
<1> SUFFICES ASSUME SocketInv, WaitUntilClosed PROVE SocketInv'
  OBVIOUS
<1>1. owner \in OwnerType /\ pair \in PairType /\ owner.at = "leave"
  BY DEF SocketInv, Shape, WaitUntilClosed
<1>2. /\ owner'.at = "join" /\ owner'.rules = owner.rules /\ owner'.ready = owner.ready
      /\ owner'.hung = owner.hung /\ owner'.out = owner.out /\ owner'.in = owner.in
      /\ owner'.inputEof = owner.inputEof /\ owner'.socketEof = owner.socketEof
      /\ owner'.outputClosed = owner.outputClosed /\ owner' \in OwnerType
  BY <1>1, OwnerMoved DEF WaitUntilClosed
<1>3. /\ pair'.upShut /\ pair'.downShut /\ pair'.up = pair.up /\ pair'.down = pair.down
      /\ pair' \in PairType
  BY <1>1, Zenon DEF WaitUntilClosed, PairType
<1>4. UNCHANGED <<conn, peer, thread, stdin, stdout, abort, fate>>
  BY DEF WaitUntilClosed
<1>5. Shape'
  BY <1>2, <1>3, <1>4 DEF SocketInv, Shape, Buffer, StreamFits
<1>6. Control'
  BY <1>2, <1>4 DEF SocketInv, Control, Active, eof
<1>7. Outbound'
  BY <1>1, <1>2, <1>3, <1>4
     DEF SocketInv, Outbound, Leaving, Full, Stopped, remaining_capacity
<1>8. Inbound'
  BY <1>1, <1>2, <1>3, <1>4
     DEF SocketInv, Inbound, Leaving, Full, Stopped, remaining_capacity, eof
<1>9. Leaving' /\ Conserved' /\ NoFailure'
  BY <1>2, <1>3, <1>4, Zenon DEF SocketInv, Leaving, Conserved, NoFailure
<1> QED BY <1>5, <1>6, <1>7, <1>8, <1>9 DEF SocketInv

-----------------------------------------------------------------------------
(* What the calls of the connection do to it. *)

LEMMA ConnFields ==
    ASSUME NEW c, GoodConn(c)
    PROVE  /\ c \in ConnType /\ c.segs \in 0..MaxSegs /\ c.finAcked \in BOOLEAN
           /\ GoodStream(c.out) /\ c.out.capacity = OutBuffer
           /\ GoodStream(c.in) /\ c.in.capacity = InBuffer
<1>1. c \in ConnType /\ c.segs \in 0..MaxSegs /\ c.finAcked \in BOOLEAN
  BY DEF GoodConn, ConnType
<1>2. c.out \in ByteStreamType(Byte) /\ c.in \in ByteStreamType(Byte)
  BY <1>1 DEF ConnType
<1> QED BY <1>1, <1>2 DEF GoodConn, Buffer, GoodStream

LEMMA ConnWithOut ==
    ASSUME NEW c, GoodConn(c), NEW out, GoodStream(out), out.capacity = OutBuffer
    PROVE  /\ GoodConn([c EXCEPT !.out = out]) /\ [c EXCEPT !.out = out].out = out
           /\ [c EXCEPT !.out = out].in = c.in /\ [c EXCEPT !.out = out].state = c.state
           /\ [c EXCEPT !.out = out].finAcked = c.finAcked
<1> DEFINE u == [c EXCEPT !.out = out]
<1>1. c \in ConnType /\ out \in ByteStreamType(Byte) /\ StreamFits(out)
  BY DEF GoodConn, GoodStream
<1>2. u \in ConnType /\ u.out = out /\ u.in = c.in /\ u.state = c.state
      /\ u.finAcked = c.finAcked
  BY <1>1 DEF ConnType
<1> HIDE DEF u
<1>3. GoodConn(u)
  BY <1>1, <1>2 DEF GoodConn, Buffer
<1> QED BY <1>2, <1>3 DEF u

LEMMA ConnWithIn ==
    ASSUME NEW c, GoodConn(c), NEW in, GoodStream(in), in.capacity = InBuffer
    PROVE  /\ GoodConn([c EXCEPT !.in = in]) /\ [c EXCEPT !.in = in].in = in
           /\ [c EXCEPT !.in = in].out = c.out /\ [c EXCEPT !.in = in].state = c.state
           /\ [c EXCEPT !.in = in].finAcked = c.finAcked
<1> DEFINE u == [c EXCEPT !.in = in]
<1>1. c \in ConnType /\ in \in ByteStreamType(Byte) /\ StreamFits(in)
  BY DEF GoodConn, GoodStream
<1>2. u \in ConnType /\ u.in = in /\ u.out = c.out /\ u.state = c.state
      /\ u.finAcked = c.finAcked
  BY <1>1 DEF ConnType
<1> HIDE DEF u
<1>3. GoodConn(u)
  BY <1>1, <1>2 DEF GoodConn, Buffer
<1> QED BY <1>2, <1>3 DEF u

LEMMA ConnWithSegs ==
    ASSUME NEW c, GoodConn(c), NEW n \in 0..MaxSegs
    PROVE  /\ GoodConn([c EXCEPT !.segs = n]) /\ [c EXCEPT !.segs = n].out = c.out
           /\ [c EXCEPT !.segs = n].in = c.in /\ [c EXCEPT !.segs = n].state = c.state
           /\ [c EXCEPT !.segs = n].finAcked = c.finAcked /\ [c EXCEPT !.segs = n].segs = n
<1> DEFINE u == [c EXCEPT !.segs = n]
<1>1. c \in ConnType
  BY DEF GoodConn
<1>2. u \in ConnType /\ u.out = c.out /\ u.in = c.in /\ u.state = c.state
      /\ u.finAcked = c.finAcked /\ u.segs = n
  BY <1>1 DEF ConnType
<1> HIDE DEF u
<1>3. GoodConn(u)
  BY <1>2 DEF GoodConn, Buffer
<1> QED BY <1>2, <1>3 DEF u

LEMMA QueuedEffect ==
    ASSUME NEW c, GoodConn(c)
    PROVE  /\ GoodConn(Queued(c)) /\ Queued(c).out = c.out /\ Queued(c).in = c.in
           /\ Queued(c).state = c.state /\ Queued(c).finAcked = c.finAcked
<1>1. SmallerOf(c.segs + 1, MaxSegs) \in 0..MaxSegs
  BY ConnFields, SocketAssumption DEF SmallerOf
<1> QED BY <1>1, ConnWithSegs DEF Queued

LEMMA EndedEffect ==
    ASSUME NEW c, GoodConn(c)
    PROVE  /\ GoodConn(Ended(c)) /\ Ended(c).out = end_input(c.out) /\ Ended(c).in = c.in
           /\ Ended(c).state = c.state /\ Ended(c).finAcked = c.finAcked
<1>1. GoodStream(end_input(c.out)) /\ end_input(c.out).capacity = OutBuffer
  BY ConnFields, EndInputEffect
<1> DEFINE u == [c EXCEPT !.out = end_input(c.out)]
<1>2. GoodConn(u) /\ u.out = end_input(c.out) /\ u.in = c.in /\ u.state = c.state
      /\ u.finAcked = c.finAcked
  BY <1>1, ConnWithOut
<1>3. Ended(c) = Queued(u)
  BY DEF Ended
<1> HIDE DEF u
<1> QED BY <1>2, <1>3, QueuedEffect

LEMMA WrittenEffect ==
    ASSUME NEW c, GoodConn(c), NEW data \in Seq(Byte)
    PROVE  /\ GoodConn(Written(c, data)) /\ Written(c, data).out = write(c.out, data)
           /\ Written(c, data).in = c.in /\ Written(c, data).state = c.state
           /\ Written(c, data).finAcked = c.finAcked
<1>0. GoodStream(c.out) /\ c.out.capacity = OutBuffer
  BY ConnFields
<1>1. GoodStream(write(c.out, data)) /\ write(c.out, data).capacity = OutBuffer
  BY <1>0, WriteEffect
<1> DEFINE u == [c EXCEPT !.out = write(c.out, data)]
<1>2. GoodConn(u) /\ u.out = write(c.out, data) /\ u.in = c.in /\ u.state = c.state
      /\ u.finAcked = c.finAcked
  BY <1>1, ConnWithOut
<1>3. Written(c, data) = Queued(u)
  BY DEF Written
<1> HIDE DEF u
<1> QED BY <1>2, <1>3, QueuedEffect

LEMMA FailedEffect ==
    ASSUME NEW c, GoodConn(c)
    PROVE  /\ GoodConn(Failed(c)) /\ Failed(c).out = set_error(c.out)
           /\ Failed(c).in = set_error(c.in) /\ Failed(c).state = "RESET"
           /\ Failed(c).finAcked = c.finAcked
<1> DEFINE u == Failed(c)
<1>1. /\ set_error(c.out) \in ByteStreamType(Byte) /\ Buffer(set_error(c.out), OutBuffer)
      /\ set_error(c.in) \in ByteStreamType(Byte) /\ Buffer(set_error(c.in), InBuffer)
      /\ c \in ConnType
  BY ConnFields, SetErrorEffect DEF GoodStream, Buffer
<1>2. u = [c EXCEPT !.state = "RESET", !.in = set_error(c.in), !.out = set_error(c.out)]
  BY DEF Failed
<1> HIDE DEF u
<1>3. u \in ConnType /\ u.out = set_error(c.out) /\ u.in = set_error(c.in)
      /\ u.state = "RESET" /\ u.finAcked = c.finAcked
  BY <1>1, <1>2, Zenon DEF ConnType
<1> QED BY <1>1, <1>3 DEF u, GoodConn

-----------------------------------------------------------------------------
(* The steps of the TCP thread. *)

LEMMA ThreadExitKeeps == SocketInv /\ ThreadExit => SocketInv'
<1> SUFFICES ASSUME SocketInv, ThreadExit PROVE SocketInv'
  OBVIOUS
<1>1. thread \in ThreadType /\ pair \in PairType /\ thread.at = "exit"
  BY DEF SocketInv, Shape, ThreadExit
<1>2. /\ thread'.at = "done" /\ thread'.rules = thread.rules
      /\ thread'.ready = thread.ready /\ thread'.hung = thread.hung
      /\ thread'.eof = thread.eof
      /\ thread'.outbound_shutdown = thread.outbound_shutdown /\ thread' \in ThreadType
  BY <1>1 DEF ThreadExit, ThreadType
<1>3. /\ pair'.upShut /\ pair'.downShut /\ pair'.up = pair.up /\ pair'.down = pair.down
      /\ pair' \in PairType
  BY <1>1, Zenon DEF ThreadExit, PairType
<1>4. UNCHANGED <<conn, peer, owner, stdin, stdout, abort, fate>>
  BY DEF ThreadExit
<1>5. ~ abort /\ ~ conn.in.error =>
        eof(conn.in) /\ conn.out.end_flag /\ conn.in.stream = <<>>
  <2>1. ~ abort /\ ~ conn.in.error => eof(conn.in) /\ conn.out.end_flag
    BY <1>1 DEF SocketInv, Control, Active, eof
  <2>2. GoodStream(conn.in)
    BY Fields DEF SocketInv
  <2>3. conn.in.size = 0 => conn.in.stream = <<>>
    BY <2>2, StreamFields
  <2> QED BY <2>1, <2>3 DEF eof
<1>6. Shape'
  BY <1>2, <1>3, <1>4 DEF SocketInv, Shape, Buffer, StreamFits
<1>7. Control'
  BY <1>1, <1>2, <1>4 DEF SocketInv, Control, Active, eof
<1>8. Outbound'
  BY <1>1, <1>2, <1>3, <1>4, <1>5
     DEF SocketInv, Outbound, Full, Stopped, remaining_capacity
<1>9. Inbound'
  BY <1>1, <1>2, <1>3, <1>4, <1>5
     DEF SocketInv, Inbound, Full, Stopped, remaining_capacity, eof
<1>10. Leaving' /\ Conserved' /\ NoFailure'
  BY <1>2, <1>3, <1>4, Zenon DEF SocketInv, Leaving, Conserved, NoFailure
<1> QED BY <1>6, <1>7, <1>8, <1>9, <1>10 DEF SocketInv

(* What remains to be done of a poll is done, or the loop goes on.         *)
ThreadGoesOn ==
  /\ thread' \in ThreadType /\ 1 \in thread'.rules
  /\ thread'.ready \cup thread'.hung \subseteq thread'.rules
  /\ thread'.ready \subseteq thread.ready /\ thread'.hung \subseteq thread.hung
  /\ thread'.eof = thread.eof /\ thread'.outbound_shutdown = thread.outbound_shutdown
  /\ thread'.at \in {"serve", "poll", "exit"}
  /\ thread'.at = "poll" => thread'.ready \cup thread'.hung = {}
  /\ thread'.at = "exit" => abort

(* A step of the thread that gives the connection other segments, another  *)
(* state or an error, but neither takes nor adds a byte.                   *)
LEMMA ConnMoveKeeps ==
    ASSUME SocketInv, thread.at = "serve", ThreadGoesOn, GoodConn(conn'),
           conn'.out.stream = conn.out.stream, conn'.out.end_flag = conn.out.end_flag,
           conn'.out.size = conn.out.size,
           conn'.in.stream = conn.in.stream, conn'.in.end_flag = conn.in.end_flag,
           conn'.in.size = conn.in.size,
           conn'.finAcked => eof(conn.out),
           conn'.in.error <=> (conn'.state = "RESET"), conn.in.error => conn'.in.error,
           conn'.state = "CLOSED" => conn'.finAcked /\ eof(conn.in),
           UNCHANGED <<peer, pair, owner, stdin, stdout, abort, fate>>
    PROVE  SocketInv'
<1>1. conn'.out.capacity = conn.out.capacity
  BY DEF SocketInv, Shape, GoodConn, Buffer
<1>2. Shape'
  BY DEF ThreadGoesOn, SocketInv, Shape
<1>3. Control'
  BY DEF ThreadGoesOn, SocketInv, Control, eof
<1>4. Outbound'
  BY <1>1 DEF ThreadGoesOn, SocketInv, Outbound, Full, Stopped, remaining_capacity
<1>5. Inbound'
  BY DEF ThreadGoesOn, SocketInv, Inbound, Full, Stopped, remaining_capacity, eof
<1>6. Leaving' /\ Conserved' /\ NoFailure'
  BY Zenon DEF SocketInv, Leaving, Conserved, NoFailure
<1> QED BY <1>2, <1>3, <1>4, <1>5, <1>6 DEF SocketInv

LEMMA ThreadTickKeeps == SocketInv /\ ThreadTick => SocketInv'
<1> SUFFICES ASSUME SocketInv, ThreadTick PROVE SocketInv'
  OBVIOUS
<1>1. /\ thread.at = "serve"
      /\ UNCHANGED <<peer, pair, owner, stdin, stdout, abort, fate>>
      /\ UNCHANGED conn \/ (Active /\ tick)
  BY DEF ThreadTick, Aborted
<1>2. GoodConn(conn)
  BY DEF SocketInv, Shape
<1>3. /\ conn.in.error <=> (conn.state = "RESET")
      /\ conn.state = "CLOSED" => conn.finAcked /\ eof(conn.in)
      /\ conn.finAcked => eof(conn.out)
  BY DEF SocketInv, Control
<1>4. ThreadGoesOn
  <2>1. thread \in ThreadType /\ abort \in BOOLEAN /\ 1 \in thread.rules
    BY DEF SocketInv, Shape, Control
  <2>2. /\ thread.ready \cup thread.hung = {}
        /\ thread' = [thread EXCEPT !.at = IF abort THEN "exit" ELSE "poll"]
    BY DEF ThreadTick, Due, Aborted
  <2> QED BY <2>1, <2>2 DEF ThreadGoesOn, ThreadType
<1>5. CASE conn' = conn
  BY <1>1, <1>2, <1>3, <1>5, <1>4, ConnMoveKeeps
<1>6. CASE Active /\ eof(conn.in) /\ conn.finAcked /\ conn' = [conn EXCEPT !.state = "CLOSED"]
  <2>1. conn \in ConnType
    BY <1>2, ConnFields
  <2>2. /\ conn' \in ConnType /\ conn'.out = conn.out /\ conn'.in = conn.in
        /\ conn'.finAcked = conn.finAcked /\ conn'.state = "CLOSED"
    BY <1>6, <2>1, Zenon DEF ConnType
  <2>3. GoodConn(conn')
    BY <1>2, <2>2 DEF GoodConn
  <2>4. conn'.in.error <=> (conn'.state = "RESET")
    BY <1>3, <1>6, <2>2 DEF Active
  <2> QED BY <1>1, <1>3, <1>6, <2>2, <2>3, <2>4, <1>4, ConnMoveKeeps
<1>7. CASE conn' = Queued(conn)
  <2>1. /\ GoodConn(conn') /\ conn'.out = conn.out /\ conn'.in = conn.in
        /\ conn'.finAcked = conn.finAcked /\ conn'.state = conn.state
    BY <1>2, <1>7, QueuedEffect
  <2> QED BY <1>1, <1>3, <2>1, <1>4, ConnMoveKeeps
<1>8. CASE conn' = Queued(Failed(conn))
  <2>1. /\ GoodConn(Failed(conn)) /\ Failed(conn).out = set_error(conn.out)
        /\ Failed(conn).in = set_error(conn.in) /\ Failed(conn).state = "RESET"
        /\ Failed(conn).finAcked = conn.finAcked
    BY <1>2, FailedEffect
  <2>2. /\ GoodConn(conn') /\ conn'.out = set_error(conn.out)
        /\ conn'.in = set_error(conn.in)
        /\ conn'.finAcked = conn.finAcked /\ conn'.state = "RESET"
    BY <1>8, <2>1, QueuedEffect
  <2>3. GoodStream(conn.out) /\ GoodStream(conn.in)
    BY <1>2, ConnFields
  <2>4. /\ conn'.out.stream = conn.out.stream /\ conn'.out.end_flag = conn.out.end_flag
        /\ conn'.out.size = conn.out.size
        /\ conn'.in.stream = conn.in.stream /\ conn'.in.end_flag = conn.in.end_flag
        /\ conn'.in.size = conn.in.size /\ conn'.in.error
    BY <2>2, <2>3, SetErrorEffect
  <2>5. conn'.in.error <=> (conn'.state = "RESET")
    BY <2>2, <2>4
  <2> QED BY <1>1, <1>3, <2>2, <2>4, <2>5, <1>4, ConnMoveKeeps
<1> QED BY <1>1, <1>5, <1>6, <1>7, <1>8 DEF tick

(* A poll keeps the bytes and the ends of the streams; the cancellation of *)
(* rule 2 ends a stream that has already ended.                            *)
LEMMA ThreadPollConn ==
    ASSUME SocketInv, NEW arrived \in BOOLEAN, NEW queued \in BOOLEAN,
           ThreadPoll(arrived, queued)
    PROVE  /\ GoodConn(conn') /\ conn'.in = conn.in /\ conn'.state = conn.state
           /\ conn'.finAcked = conn.finAcked
           /\ conn'.out.stream = conn.out.stream /\ conn'.out.end_flag = conn.out.end_flag
           /\ conn'.out.size = conn.out.size /\ conn'.out.capacity = conn.out.capacity
<1> DEFINE c == IF CancelRule2 THEN Ended(conn) ELSE conn
<1>1. GoodConn(conn) /\ GoodStream(conn.out) /\ conn.out.capacity = OutBuffer
  BY ConnFields DEF SocketInv, Shape
<1>2. CancelRule2 => conn.out.end_flag = TRUE
  BY <1>1, StreamFields DEF CancelRule2, SocketInv, Outbound
<1>3. /\ GoodConn(c) /\ c.in = conn.in /\ c.state = conn.state
      /\ c.finAcked = conn.finAcked
      /\ c.out.stream = conn.out.stream /\ c.out.end_flag = conn.out.end_flag
      /\ c.out.size = conn.out.size /\ c.out.capacity = conn.out.capacity
  <2>1. CASE CancelRule2
    <3>1. /\ GoodConn(Ended(conn)) /\ Ended(conn).out = end_input(conn.out)
          /\ Ended(conn).in = conn.in /\ Ended(conn).state = conn.state
          /\ Ended(conn).finAcked = conn.finAcked
      BY <1>1, EndedEffect
    <3>2. /\ end_input(conn.out).stream = conn.out.stream
          /\ end_input(conn.out).end_flag = TRUE
          /\ end_input(conn.out).size = conn.out.size
          /\ end_input(conn.out).capacity = conn.out.capacity
      BY <1>1, EndInputEffect DEF end_input, GoodStream, ByteStreamType
    <3> QED BY <1>2, <2>1, <3>1, <3>2, Zenon
  <2>2. CASE ~ CancelRule2
    BY <1>1, <2>2
  <2> QED BY <2>1, <2>2
<1>4. conn' = [c EXCEPT !.segs = IF queued THEN c.segs ELSE 0]
  BY DEF ThreadPoll
<1> HIDE DEF c
<1>5. (IF queued THEN c.segs ELSE 0) \in 0..MaxSegs
  BY <1>3, ConnFields, SocketAssumption
<1>6. /\ GoodConn(conn') /\ conn'.in = c.in /\ conn'.state = c.state
      /\ conn'.finAcked = c.finAcked /\ conn'.out = c.out
  BY <1>3, <1>4, <1>5, ConnWithSegs
<1> QED BY <1>3, <1>6

LEMMA ThreadSetupEffect ==
    ASSUME SocketInv
    PROVE  /\ ThreadSetup \in ThreadType /\ ThreadSetup.eof = thread.eof
           /\ ThreadSetup.outbound_shutdown = thread.outbound_shutdown
           /\ ThreadSetup.rules \subseteq thread.rules /\ 1 \in ThreadSetup.rules
           /\ ThreadSetup.ready = thread.ready /\ ThreadSetup.hung = thread.hung
<1>1. thread \in ThreadType /\ 1 \in thread.rules
  BY DEF SocketInv, Shape, Control
<1>2. CancelRule2 => thread.outbound_shutdown = TRUE
  BY <1>1 DEF CancelRule2, SocketInv, Outbound, ThreadType
<1>3. CASE CancelRule2
  <2> DEFINE rest == thread.rules \ {2}
  <2>1. ThreadSetup = [thread EXCEPT !.rules = rest, !.outbound_shutdown = TRUE]
    BY <1>3 DEF ThreadSetup
  <2>2. rest \in SUBSET Rules /\ rest \subseteq thread.rules /\ 1 \in rest
    BY <1>1 DEF ThreadType
  <2> HIDE DEF rest
  <2> QED BY <1>1, <1>2, <1>3, <2>1, <2>2, Zenon DEF ThreadType
<1>4. CASE ~ CancelRule2
  BY <1>1, <1>4 DEF ThreadSetup
<1> QED BY <1>3, <1>4

LEMMA ThreadPollKeeps ==
    ASSUME SocketInv, NEW arrived \in BOOLEAN, NEW queued \in BOOLEAN,
           ThreadPoll(arrived, queued)
    PROVE  SocketInv'
<1> DEFINE t    == ThreadSetup
           want == ThreadInterest(t, conn')
<1>1. /\ GoodConn(conn') /\ conn'.in = conn.in /\ conn'.state = conn.state
      /\ conn'.finAcked = conn.finAcked
      /\ conn'.out.stream = conn.out.stream /\ conn'.out.end_flag = conn.out.end_flag
      /\ conn'.out.size = conn.out.size /\ conn'.out.capacity = conn.out.capacity
  BY ThreadPollConn
<1>2. /\ t \in ThreadType /\ t.eof = thread.eof
      /\ t.outbound_shutdown = thread.outbound_shutdown
      /\ t.rules \subseteq Rules /\ 1 \in t.rules
      /\ t.ready = {} /\ t.hung = {}
  BY ThreadSetupEffect, Fields DEF SocketInv, Control, ThreadPoll
<1>3. /\ thread' = IF want = {} THEN [t EXCEPT !.at = "exit"]
                   ELSE Polled(t, want, ThreadReady(arrived), ThreadHangup)
      /\ thread.at = "poll"
      /\ UNCHANGED <<peer, pair, owner, stdin, stdout, abort, fate>>
  BY DEF ThreadPoll
<1> HIDE DEF t
<1>4. /\ want \subseteq t.rules
      /\ Active => 1 \in want
      /\ 2 \in want => Interest2
  BY <1>2 DEF ThreadInterest, Interest1, Rules
<1>5. /\ 2 \in ThreadReady(arrived) <=> (pair.down # <<>> \/ pair.downShut)
      /\ ThreadHangup \subseteq {2, 3}
      /\ ThreadHangup # {} => 2 \in ThreadReady(arrived)
  BY DEF ThreadReady, ThreadHangup, Hangup
<1> HIDE DEF want
<1>6. /\ thread' \in ThreadType /\ thread'.rules = t.rules /\ thread'.eof = thread.eof
      /\ thread'.outbound_shutdown = thread.outbound_shutdown
      /\ thread'.ready \cup thread'.hung \subseteq thread'.rules
      /\ thread'.hung \subseteq {3}
      /\ thread'.at \in {"exit", "serve"} /\ (thread'.at = "exit" => ~ Active)
      /\ 2 \in thread'.ready =>
           ~ thread.outbound_shutdown /\ ~ Full(conn.out) /\ (pair.down # <<>> \/ pair.downShut)
  <2>1. CASE want = {}
    BY <1>2, <1>3, <1>4, <2>1 DEF ThreadType
  <2>2. CASE want # {}
    <3> DEFINE due == want \cap ThreadReady(arrived)
               cut == (want \ ThreadReady(arrived)) \cap ThreadHangup
    <3>1. thread' = [t EXCEPT !.at = "serve", !.ready = due, !.hung = cut]
      BY <1>3, <2>2 DEF Polled
    <3>2. /\ due \in SUBSET Rules /\ cut \in SUBSET Rules /\ due \cup cut \subseteq t.rules
          /\ cut \subseteq {3}
      <4>1. ASSUME NEW x \in cut PROVE x = 3
        BY <1>5, Zenon
      <4> QED BY <1>2, <1>4, <4>1
    <3>3. 2 \in due =>
            ~ thread.outbound_shutdown /\ ~ Full(conn.out) /\ (pair.down # <<>> \/ pair.downShut)
      BY <1>4, <1>5 DEF Interest2, Full
    <3> HIDE DEF due, cut
    <3>4. /\ thread' \in ThreadType /\ thread'.rules = t.rules /\ thread'.eof = t.eof
          /\ thread'.outbound_shutdown = t.outbound_shutdown
          /\ thread'.ready = due /\ thread'.hung = cut /\ thread'.at = "serve"
      BY <1>2, <3>1, <3>2, Zenon DEF ThreadType
    <3> QED BY <1>2, <3>2, <3>3, <3>4
  <2> QED BY <2>1, <2>2
<1>7. Shape'
  BY <1>1, <1>3, <1>6, SMTT(30) DEF SocketInv, Shape
<1>8. Control'
  BY <1>1, <1>2, <1>3, <1>6, SMTT(30) DEF SocketInv, Control, Active, eof
<1>9. Outbound'
  BY <1>1, <1>3, <1>6 DEF SocketInv, Outbound, Full, Stopped, remaining_capacity
<1>10. Inbound'
  BY <1>1, <1>3, <1>6 DEF SocketInv, Inbound, Full, Stopped, remaining_capacity, eof
<1>11. Leaving' /\ Conserved' /\ NoFailure'
  BY <1>1, <1>3, Zenon DEF SocketInv, Leaving, Conserved, NoFailure
<1> QED BY <1>7, <1>8, <1>9, <1>10, <1>11 DEF SocketInv

-----------------------------------------------------------------------------
(* The rules of the TCP thread. *)

LEMMA ThreadServed ==
    ASSUME SocketInv, NEW r, Turn(thread, r)
    PROVE  /\ thread.at = "serve" /\ r \in Rules /\ r \in thread.ready \cup thread.hung
           /\ Served(thread, r) \in ThreadType /\ Served(thread, r).at = "serve"
           /\ Served(thread, r).rules = thread.rules
           /\ Served(thread, r).ready = thread.ready \ {r}
           /\ Served(thread, r).hung = thread.hung \ {r}
           /\ Served(thread, r).eof = thread.eof
           /\ Served(thread, r).outbound_shutdown = thread.outbound_shutdown
           /\ Served(thread, r).inbound_shutdown = thread.inbound_shutdown
<1>1. /\ thread \in ThreadType
      /\ thread.ready \subseteq Rules /\ thread.hung \subseteq Rules
  BY Fields DEF SocketInv
<1>2. thread.at = "serve" /\ r \in thread.ready \cup thread.hung
  BY <1>1, TurnFirst
<1> DEFINE due == thread.ready \ {r}
           cut == thread.hung \ {r}
<1>3. due \in SUBSET Rules /\ cut \in SUBSET Rules
  BY <1>1
<1>4. Served(thread, r) = [thread EXCEPT !.ready = due, !.hung = cut]
  BY DEF Served
<1> HIDE DEF due, cut
<1>5. /\ Served(thread, r) \in ThreadType /\ Served(thread, r).at = "serve"
      /\ Served(thread, r).rules = thread.rules
      /\ Served(thread, r).ready = due /\ Served(thread, r).hung = cut
      /\ Served(thread, r).eof = thread.eof
      /\ Served(thread, r).outbound_shutdown = thread.outbound_shutdown
      /\ Served(thread, r).inbound_shutdown = thread.inbound_shutdown
  BY <1>1, <1>2, <1>3, <1>4, Zenon DEF ThreadType
<1> QED BY <1>1, <1>2, <1>5 DEF due, cut

LEMMA ServedGoesOn ==
    ASSUME SocketInv, NEW r, Turn(thread, r), thread' = Served(thread, r)
    PROVE  ThreadGoesOn
<1>1. thread.ready \cup thread.hung \subseteq thread.rules /\ 1 \in thread.rules
  BY DEF SocketInv, Shape, Control
<1> QED BY <1>1, ThreadServed DEF ThreadGoesOn

(* Rule 1: the segments that bring no byte. *)
LEMMA QuietSegmentKeeps ==
    ASSUME SocketInv, Turn(thread, 1), Rule1, Open \/ AckEnd \/ Reset \/ Repeated,
           UNCHANGED <<owner, stdin, stdout, abort>>
    PROVE  SocketInv'
<1>1. /\ thread.at = "serve" /\ ThreadGoesOn
      /\ UNCHANGED <<peer, pair, owner, stdin, stdout, abort, fate>>
  BY ThreadServed, ServedGoesOn DEF Rule1, Open, AckEnd, Reset, Repeated
<1>2. GoodConn(conn) /\ conn \in ConnType
  BY ConnFields DEF SocketInv, Shape
<1>3. /\ conn.in.error <=> (conn.state = "RESET")
      /\ conn.state = "CLOSED" => conn.finAcked /\ eof(conn.in)
      /\ conn.finAcked => eof(conn.out)
  BY DEF SocketInv, Control
<1>4. CASE Open
  <2>1. PICK st \in {"SYN_RCVD", "ESTABLISHED"} : conn' = Queued([conn EXCEPT !.state = st])
    BY <1>4 DEF Open, Opened
  <2>2. conn.state \in {"SYN_SENT", "LISTEN", "SYN_RCVD"}
    BY <1>4 DEF Open, Opened
  <2> DEFINE c == [conn EXCEPT !.state = st]
  <2>3. /\ c \in ConnType /\ c.out = conn.out /\ c.in = conn.in
        /\ c.finAcked = conn.finAcked /\ c.state = st
    BY <1>2 DEF ConnType
  <2> HIDE DEF c
  <2>4. GoodConn(c)
    BY <1>2, <2>3 DEF GoodConn
  <2>5. /\ GoodConn(conn') /\ conn'.out = conn.out /\ conn'.in = conn.in
        /\ conn'.finAcked = conn.finAcked /\ conn'.state = st
    BY <2>1, <2>3, <2>4, QueuedEffect, Zenon DEF c
  <2>6. conn'.in.error <=> (conn'.state = "RESET")
    BY <1>3, <2>2, <2>5
  <2> QED BY <1>1, <1>3, <2>5, <2>6, ConnMoveKeeps
<1>5. CASE AckEnd
  <2>1. conn' = [conn EXCEPT !.finAcked = TRUE] /\ eof(conn.out) /\ conn.state = "ESTABLISHED"
    BY <1>5 DEF AckEnd, Established
  <2>2. /\ conn' \in ConnType /\ conn'.out = conn.out /\ conn'.in = conn.in
        /\ conn'.state = conn.state
    BY <1>2, <2>1, Zenon DEF ConnType
  <2>3. GoodConn(conn')
    BY <1>2, <2>2 DEF GoodConn
  <2> QED BY <1>1, <1>3, <2>1, <2>2, <2>3, ConnMoveKeeps
<1>6. CASE Reset
  <2>1. /\ GoodConn(conn') /\ conn'.out = set_error(conn.out)
        /\ conn'.in = set_error(conn.in) /\ conn'.state = "RESET"
        /\ conn'.finAcked = conn.finAcked
    BY <1>2, <1>6, FailedEffect DEF Reset
  <2>2. GoodStream(conn.out) /\ GoodStream(conn.in)
    BY <1>2, ConnFields
  <2>3. /\ conn'.out.stream = conn.out.stream /\ conn'.out.end_flag = conn.out.end_flag
        /\ conn'.out.size = conn.out.size
        /\ conn'.in.stream = conn.in.stream /\ conn'.in.end_flag = conn.in.end_flag
        /\ conn'.in.size = conn.in.size /\ conn'.in.error
    BY <2>1, <2>2, SetErrorEffect
  <2>4. conn'.in.error <=> (conn'.state = "RESET")
    BY <2>1, <2>3
  <2> QED BY <1>1, <1>3, <2>1, <2>3, <2>4, ConnMoveKeeps, SMTT(30)
<1>7. CASE Repeated
  <2>1. conn' = conn
    BY <1>7 DEF Repeated
  <2> QED BY <1>1, <1>2, <1>3, <2>1, ConnMoveKeeps
<1> QED BY <1>4, <1>5, <1>6, <1>7

LEMMA Rule4Keeps ==
    ASSUME SocketInv, Turn(thread, 4), Rule4, UNCHANGED <<owner, stdin, stdout, abort>>
    PROVE  SocketInv'
<1>1. thread.at = "serve" /\ ThreadGoesOn
  BY ThreadServed, ServedGoesOn DEF Rule4
<1>2. GoodConn(conn) /\ 0 \in 0..MaxSegs
  BY SocketAssumption DEF SocketInv, Shape
<1>3. /\ GoodConn(conn') /\ conn'.out = conn.out /\ conn'.in = conn.in
      /\ conn'.finAcked = conn.finAcked /\ conn'.state = conn.state /\ conn'.segs = 0
  BY <1>2, ConnWithSegs DEF Rule4, Sent
<1>4. UNCHANGED <<peer, pair, owner, stdin, stdout, abort, fate>>
  BY <1>3 DEF Rule4, Interest4
<1>5. /\ conn.in.error <=> (conn.state = "RESET")
      /\ conn.state = "CLOSED" => conn.finAcked /\ eof(conn.in)
      /\ conn.finAcked => eof(conn.out)
  BY DEF SocketInv, Control
<1> QED BY <1>1, <1>3, <1>4, <1>5, ConnMoveKeeps

(* Rules 1 and 2 never hang up alone, and rule 4 is not on the pipe. *)
LEMMA ThreadHungUpKeeps ==
    ASSUME SocketInv, NEW r, Turn(thread, r), r \in thread.hung, ThreadHungUp(r),
           UNCHANGED <<owner, stdin, stdout, abort>>
    PROVE  SocketInv'
<1>1. r = 3
  BY DEF SocketInv, Control
<1> DEFINE t == Served(thread, 3)
           rest == t.rules \ {3}
<1>2. /\ thread.at = "serve" /\ t \in ThreadType /\ t.at = "serve" /\ t.rules = thread.rules
      /\ t.ready = thread.ready \ {3} /\ t.hung = thread.hung \ {3}
      /\ t.eof = thread.eof /\ t.outbound_shutdown = thread.outbound_shutdown
  BY <1>1, ThreadServed, SMTT(20)
<1>3. /\ thread.ready \cup thread.hung \subseteq thread.rules /\ 1 \in thread.rules
      /\ thread.rules \subseteq Rules /\ thread.outbound_shutdown \in BOOLEAN
  BY Fields DEF SocketInv, Shape, Control
<1>4. rest \in SUBSET Rules /\ 1 \in rest
  BY <1>2, <1>3
<1> DEFINE d == [t EXCEPT !.rules = rest]
<1>5. thread' = [d EXCEPT !.outbound_shutdown = d.outbound_shutdown \/ 3 = 2]
  BY <1>1 DEF ThreadHungUp, Dropped
<1> HIDE DEF t, rest
<1>6. /\ thread' \in ThreadType /\ thread'.rules = rest /\ thread'.at = "serve"
      /\ thread'.ready = t.ready /\ thread'.hung = t.hung
      /\ thread'.eof = t.eof /\ thread'.outbound_shutdown = t.outbound_shutdown
  <2>1. /\ d \in ThreadType /\ d.rules = rest /\ d.at = "serve" /\ d.ready = t.ready
        /\ d.hung = t.hung /\ d.eof = t.eof /\ d.outbound_shutdown = t.outbound_shutdown
    BY <1>2, <1>4 DEF ThreadType
  <2> HIDE DEF d
  <2>2. (d.outbound_shutdown \/ 3 = 2) = d.outbound_shutdown
    BY <2>1 DEF ThreadType
  <2> QED BY <1>5, <2>1, <2>2 DEF ThreadType
<1>7. ThreadGoesOn
  BY <1>2, <1>3, <1>4, <1>6 DEF ThreadGoesOn, rest
<1>8. UNCHANGED <<conn, peer, pair, owner, stdin, stdout, abort, fate>>
  BY <1>1 DEF ThreadHungUp
<1>9. /\ GoodConn(conn)
      /\ conn.in.error <=> (conn.state = "RESET")
      /\ conn.state = "CLOSED" => conn.finAcked /\ eof(conn.in)
      /\ conn.finAcked => eof(conn.out)
  BY DEF SocketInv, Shape, Control
<1> QED BY <1>2, <1>7, <1>8, <1>9, ConnMoveKeeps, SMTT(30)

(* Rule 1: a byte of the peer, behind those that came before.              *)
LEMMA BringByteKeeps ==
    ASSUME SocketInv, Turn(thread, 1), Rule1, BringByte,
           UNCHANGED <<owner, stdin, stdout, abort>>
    PROVE  SocketInv'
<1>1. /\ thread.at = "serve" /\ ThreadGoesOn
      /\ UNCHANGED <<pair, owner, stdin, stdout, abort, fate>>
  BY ThreadServed, ServedGoesOn, SMTT(20) DEF Rule1
<1>2. /\ GoodConn(conn) /\ GoodStream(conn.in) /\ conn.in.capacity = InBuffer
      /\ peer.got \in Seq(Byte) /\ peer.sent \in 0..InLen /\ InLen \in Nat
      /\ stdout \in Seq(Byte) /\ owner.in.stream \in Seq(Byte) /\ pair.up \in Seq(Byte)
      /\ conn.in.stream \in Seq(Byte)
  BY Fields, StreamFields, SocketAssumption, SMTT(20) DEF SocketInv, Shape
<1>3. peer.sent < InLen /\ remaining_capacity(conn.in) > 0 /\ conn.state = "ESTABLISHED"
  BY SMTT(30) DEF BringByte, Established
<1>4. ~ conn.in.end_flag /\ ~ conn.in.error
  <2>1. peer.sent # InLen
    BY <1>2, <1>3
  <2> QED BY <1>3, <2>1 DEF SocketInv, Inbound, Control
<1> DEFINE data == <<peer.sent>>
           in   == write(conn.in, data)
<1>5. data \in Seq(Byte) /\ Len(data) = 1 /\ data = BytesFrom(peer.sent, 1)
  BY <1>2, BytesFromParts DEF Byte, BytesFrom
<1>6. /\ GoodStream(in) /\ in.capacity = InBuffer
      /\ in.end_flag = conn.in.end_flag /\ in.error = conn.in.error
      /\ in.stream = conn.in.stream \o data
  <2>1. Len(data) <= remaining_capacity(conn.in)
    BY <1>2, <1>3, <1>5, StreamFields DEF remaining_capacity
  <2> HIDE DEF data
  <2>2. data \in Seq(Byte)
    BY <1>5
  <2>3. in.stream = conn.in.stream \o data
    BY <1>2, <1>4, <2>1, <2>2, WriteAll, Zenon
  <2> QED BY <1>2, <2>2, <2>3, WriteEffect, Zenon
<1> DEFINE c == [conn EXCEPT !.in = in]
<1>7. conn' = Queued(c) /\ peer' = [peer EXCEPT !.sent = peer.sent + 1]
  BY DEF BringByte
<1> HIDE DEF data, in
<1>8. /\ GoodConn(c) /\ c.in = in /\ c.out = conn.out /\ c.state = conn.state
      /\ c.finAcked = conn.finAcked
  BY <1>2, <1>6, ConnWithIn
<1> HIDE DEF c
<1>9. /\ GoodConn(conn') /\ conn'.in = in /\ conn'.out = conn.out
      /\ conn'.state = conn.state /\ conn'.finAcked = conn.finAcked
  BY <1>7, <1>8, QueuedEffect
<1>10. /\ peer' \in [got : Seq(Byte), sent : 0..InLen]
       /\ peer'.got = peer.got /\ peer'.sent = peer.sent + 1
  <2>1. peer \in [got : Seq(Byte), sent : 0..InLen] /\ peer.sent + 1 \in 0..InLen
    BY <1>2, <1>3, SMTT(30) DEF SocketInv, Shape
  <2> QED BY <1>7, <2>1
<1>11. ~ pair.upShut /\ ~ owner.in.end_flag
  BY <1>1, <1>2, <1>3, <1>4, SMTT(30) DEF SocketInv, Inbound, Stopped
<1>12. Shape'
  BY <1>1, <1>9, <1>10, SMTT(20) DEF ThreadGoesOn, SocketInv, Shape
<1>13. Control'
  BY <1>1, <1>3, <1>4, <1>6, <1>9, SMTT(20) DEF ThreadGoesOn, SocketInv, Control, eof
<1>14. Outbound'
  BY <1>1, <1>4, <1>6, <1>9, SMTT(30), SMTT(30)
     DEF ThreadGoesOn, SocketInv, Outbound, Full, Stopped, remaining_capacity
<1>15. Inbound'
  BY <1>1, <1>4, <1>6, <1>9, <1>11, SMTT(30), SMTT(30)
     DEF ThreadGoesOn, SocketInv, Inbound, Full, remaining_capacity, eof
<1>16. Leaving' /\ NoFailure'
  BY <1>1, <1>4, <1>6, <1>9, <1>11 DEF SocketInv, Leaving, NoFailure
<1>17. Conserved'
  <2> DEFINE old == stdout \o owner.in.stream \o pair.up
  <2>1. old \in Seq(Byte) /\ old \o conn.in.stream = BytesFrom(0, peer.sent)
    BY <1>2 DEF SocketInv, Conserved
  <2>2. UNCHANGED <<old, stdin, peer.got, conn.out.stream, pair.down, owner.out.stream>>
    BY <1>1, <1>9, <1>10
  <2> HIDE DEF old
  <2>3. peer.sent \in Nat /\ 1 \in Nat /\ conn.in.stream \in Seq(Byte)
    BY <1>2
  <2>4. old \o (conn.in.stream \o BytesFrom(peer.sent, 1)) = BytesFrom(0, peer.sent + 1)
    BY <2>1, <2>3, NextAdded, Zenon
  <2>5. (old \o conn.in.stream)' = BytesFrom(0, peer.sent)'
    BY <1>5, <1>6, <1>9, <1>10, <2>2, <2>4, Zenon
  <2> QED BY <2>2, <2>5, Zenon DEF SocketInv, Conserved, old
<1> QED BY <1>12, <1>13, <1>14, <1>15, <1>16, <1>17, SMTT(30) DEF SocketInv

LEMMA BringEndKeeps ==
    ASSUME SocketInv, Turn(thread, 1), Rule1, BringEnd,
           UNCHANGED <<owner, stdin, stdout, abort>>
    PROVE  SocketInv'
<1>1. /\ thread.at = "serve" /\ ThreadGoesOn
      /\ UNCHANGED <<peer, pair, owner, stdin, stdout, abort, fate>>
  BY ThreadServed, ServedGoesOn, SMTT(30) DEF Rule1, BringEnd
<1>2. GoodConn(conn) /\ GoodStream(conn.in) /\ conn.in.capacity = InBuffer
  BY Fields DEF SocketInv, Shape
<1>3. peer.sent = InLen /\ conn.state = "ESTABLISHED"
  BY DEF BringEnd, Established
<1> DEFINE in == end_input(conn.in)
           c  == [conn EXCEPT !.in = in]
<1>4. /\ GoodStream(in) /\ in.capacity = InBuffer /\ in.end_flag
      /\ in.error = conn.in.error /\ in.stream = conn.in.stream
  BY <1>2, EndInputEffect
<1>5. conn' = Queued(c)
  BY DEF BringEnd
<1> HIDE DEF in
<1>6. /\ GoodConn(c) /\ c.in = in /\ c.out = conn.out /\ c.state = conn.state
      /\ c.finAcked = conn.finAcked
  BY <1>2, <1>4, ConnWithIn
<1> HIDE DEF c
<1>7. /\ GoodConn(conn') /\ conn'.in = in /\ conn'.out = conn.out
      /\ conn'.state = conn.state /\ conn'.finAcked = conn.finAcked
  BY <1>5, <1>6, QueuedEffect, SMTT(30)
<1>8. Shape'
  BY <1>1, <1>7, SMTT(30) DEF ThreadGoesOn, SocketInv, Shape
<1>9. Control'
  BY <1>1, <1>3, <1>4, <1>7, SMTT(20) DEF ThreadGoesOn, SocketInv, Control, eof
<1>10. Outbound'
  BY <1>1, <1>4, <1>7, SMTT(30), SMTT(30)
     DEF ThreadGoesOn, SocketInv, Outbound, Full, Stopped, remaining_capacity
<1>11. Inbound'
  BY <1>1, <1>3, <1>4, <1>7
     DEF ThreadGoesOn, SocketInv, Inbound, Full, Stopped, remaining_capacity, eof
<1>12. Leaving' /\ Conserved' /\ NoFailure'
  BY <1>1, <1>4, <1>7, Zenon DEF SocketInv, Leaving, Conserved, NoFailure
<1> QED BY <1>8, <1>9, <1>10, <1>11, <1>12 DEF SocketInv

(* Rule 1: the peer has the first byte of the window. *)
LEMMA AckByteKeeps ==
    ASSUME SocketInv, Turn(thread, 1), Rule1, AckByte,
           UNCHANGED <<owner, stdin, stdout, abort>>
    PROVE  SocketInv'
<1>1. /\ thread.at = "serve" /\ ThreadGoesOn
      /\ UNCHANGED <<pair, owner, stdin, stdout, abort, fate>>
  BY ThreadServed, ServedGoesOn DEF Rule1
<1>2. /\ GoodConn(conn) /\ GoodStream(conn.out) /\ conn.out.capacity = OutBuffer
      /\ peer.got \in Seq(Byte) /\ conn.out.stream \in Seq(Byte)
      /\ peer \in [got : Seq(Byte), sent : 0..InLen]
  BY Fields, StreamFields DEF SocketInv, Shape
<1>3. conn.out.stream # <<>> /\ conn.state = "ESTABLISHED"
  BY SMTT(30) DEF AckByte, Established
<1> DEFINE out == pop_output(conn.out, 1)
           got == Append(peer.got, Head(conn.out.stream))
<1>4. /\ GoodStream(out) /\ out.capacity = OutBuffer /\ out.end_flag = conn.out.end_flag
      /\ out.stream = SubSeq(conn.out.stream, 2, Len(conn.out.stream))
      /\ out.size < conn.out.size
  <2>1. 1 \in 0 .. conn.out.size /\ conn.out.size \in Nat
    BY <1>2, <1>3, StreamEmpty, StreamFields, SMTT(30)
  <2>2. /\ GoodStream(out) /\ out.capacity = conn.out.capacity
        /\ out.end_flag = conn.out.end_flag /\ out.size = conn.out.size - 1
        /\ out.stream = SubSeq(conn.out.stream, 1 + 1, Len(conn.out.stream))
    BY <1>2, <2>1, PopEffect
  <2> QED BY <1>2, <2>1, <2>2
<1>5. got \in Seq(Byte) /\ got \o out.stream = peer.got \o conn.out.stream
  <2>1. /\ got \in Seq(Byte)
        /\ got \o SubSeq(conn.out.stream, 2, Len(conn.out.stream))
             = peer.got \o conn.out.stream
    BY <1>2, <1>3, HeadPassedOn, Zenon
  <2> QED BY <1>4, <2>1, Zenon
<1>6. conn' = [conn EXCEPT !.out = out] /\ peer' = [peer EXCEPT !.got = got]
  BY DEF AckByte
<1> HIDE DEF out, got
<1>7. /\ GoodConn(conn') /\ conn'.out = out /\ conn'.in = conn.in
      /\ conn'.state = conn.state /\ conn'.finAcked = conn.finAcked
  BY <1>2, <1>4, <1>6, ConnWithOut
<1>8. /\ peer' \in [got : Seq(Byte), sent : 0..InLen]
      /\ peer'.got = got /\ peer'.sent = peer.sent
  BY <1>2, <1>5, <1>6, Zenon
<1>9. ~ conn.finAcked /\ (Full(conn'.out) => FALSE)
  <2>1. conn.out.size # 0
    BY <1>2, <1>3, StreamEmpty
  <2>2. conn.out.size <= OutBuffer /\ conn.out.size \in Nat /\ out.size \in Nat
    BY <1>2, <1>4, StreamFields, SMTT(30)
  <2> QED BY <1>4, <1>7, <2>1, <2>2, SocketAssumption, SMTT(30), SMTT(30)
          DEF SocketInv, Control, eof, Full, remaining_capacity
<1>10. Shape'
  BY <1>1, <1>7, <1>8, SMTT(30) DEF ThreadGoesOn, SocketInv, Shape
<1>11. Control'
  BY <1>1, <1>3, <1>7, <1>9, SMTT(20) DEF ThreadGoesOn, SocketInv, Control, eof
<1>12. Outbound'
  BY <1>1, <1>4, <1>7, <1>9, SMTT(20) DEF ThreadGoesOn, SocketInv, Outbound, Stopped, Full
<1>13. Inbound'
  BY <1>1, <1>7, <1>8
     DEF ThreadGoesOn, SocketInv, Inbound, Full, Stopped, remaining_capacity, eof
<1>14. Leaving' /\ NoFailure'
  BY <1>1, <1>7 DEF SocketInv, Leaving, NoFailure
<1>15. Conserved'
  BY <1>1, <1>5, <1>7, <1>8, Zenon DEF SocketInv, Conserved
<1> QED BY <1>10, <1>11, <1>12, <1>13, <1>14, <1>15 DEF SocketInv

(* What is read from a pipe, and what is left in it. *)
LEMMA TakenEffect ==
    ASSUME NEW q \in Seq(Byte), NEW limit \in Nat
    PROVE  /\ Taken(q, limit) \in Seq(Byte)
           /\ Len(Taken(q, limit)) \in 0 .. Len(q) /\ Len(Taken(q, limit)) <= limit
           /\ Left(q, Len(Taken(q, limit))) \in Seq(Byte)
           /\ Len(Left(q, Len(Taken(q, limit)))) = Len(q) - Len(Taken(q, limit))
           /\ Taken(q, limit) = <<>> => limit = 0 \/ q = <<>>
           /\ q = <<>> => Taken(q, limit) = <<>> /\ Left(q, Len(Taken(q, limit))) = <<>>
<1> DEFINE n == SmallerOf(limit, Len(q))
<1>1. Len(q) \in Nat
  OBVIOUS
<1>2. n \in 0 .. Len(q) /\ n <= limit
  BY <1>1 DEF SmallerOf
<1>3. n = 0 => limit = 0 \/ Len(q) = 0
  BY <1>1 DEF SmallerOf
<1>4. Taken(q, limit) = SubSeq(q, 1, n) /\ Left(q, n) = SubSeq(q, n + 1, Len(q))
  BY DEF Taken, Left
<1> HIDE DEF n
<1>5. /\ Taken(q, limit) \in Seq(Byte) /\ Len(Taken(q, limit)) = n
      /\ Left(q, n) \in Seq(Byte) /\ Len(Left(q, n)) = Len(q) - n
  BY <1>2, <1>4, TakenAndLeft
<1>6. \A x \in Seq(Byte) : (x = <<>>) <=> (Len(x) = 0)
  OBVIOUS
<1>7. Taken(q, limit) = <<>> => limit = 0 \/ q = <<>>
  BY <1>3, <1>5, <1>6
<1>8. q = <<>> => Taken(q, limit) = <<>> /\ Left(q, n) = <<>>
  <2> SUFFICES ASSUME q = <<>> PROVE Taken(q, limit) = <<>> /\ Left(q, n) = <<>>
    OBVIOUS
  <2>1. Len(q) = 0
    BY <1>6
  <2>2. Len(Taken(q, limit)) = 0 /\ Len(Left(q, n)) = 0
    BY <1>2, <1>5, <2>1
  <2> QED BY <1>5, <1>6, <2>2
<1> QED BY <1>2, <1>5, <1>7, <1>8

(* What is read from a stage and put behind the one before stays in order. *)
LEMMA TakenPassedOn ==
    ASSUME NEW q \in Seq(Byte), NEW limit \in Nat, NEW a \in Seq(Byte), NEW p \in Seq(Byte)
    PROVE  (a \o (p \o Taken(q, limit))) \o Left(q, Len(Taken(q, limit))) = (a \o p) \o q
<1> DEFINE n == SmallerOf(limit, Len(q))
           t == Taken(q, limit)
           u == Left(q, n)
<1>1. n \in 0 .. Len(q)
  BY DEF SmallerOf
<1>2. t = SubSeq(q, 1, n) /\ u = SubSeq(q, n + 1, Len(q))
  BY DEF Taken, Left
<1> HIDE DEF n, t, u
<1>3. t \o u = q /\ Len(t) = n
  BY <1>1, <1>2, TakenAndLeft, Zenon
<1>4. t \in Seq(Byte) /\ u \in Seq(Byte)
  BY <1>1, <1>2, TakenAndLeft
<1>5. a \o p \in Seq(Byte)
  OBVIOUS
<1>6. (a \o p) \o t = a \o (p \o t)
  BY <1>4, Joined, ZenonT(60)
<1>7. ((a \o p) \o t) \o u = (a \o p) \o (t \o u)
  BY <1>4, <1>5, Joined, Zenon
<1> QED BY <1>3, <1>6, <1>7 DEF t, u

(* Rule 2 finds bytes, or the end of what the owner sends; the connection  *)
(* has room for what it reads and has not been ended before.               *)
LEMMA Rule2Keeps ==
    ASSUME SocketInv, Turn(thread, 2), 2 \notin thread.hung, Rule2,
           UNCHANGED <<owner, stdin, stdout, abort>>
    PROVE  SocketInv'
<1> DEFINE room == remaining_capacity(conn.out)
           data == Taken(pair.down, room)
           rest == Left(pair.down, Len(data))
<1>1. /\ GoodConn(conn) /\ GoodStream(conn.out) /\ conn.out.capacity = OutBuffer
      /\ peer.got \in Seq(Byte) /\ conn.out.stream \in Seq(Byte)
      /\ pair \in PairType /\ pair.down \in Seq(Byte)
  BY Fields, StreamFields, SMTT(30) DEF SocketInv, Shape
<1>2. /\ 2 \in thread.ready /\ thread.at = "serve"
      /\ ~ conn.out.end_flag /\ ~ Full(conn.out) /\ (pair.down # <<>> \/ pair.downShut)
  BY ThreadServed DEF SocketInv, Outbound
<1>3. room \in Nat /\ room # 0
  BY <1>1, <1>2, StreamEmpty, StreamFields DEF Full
<1>4. /\ data \in Seq(Byte) /\ Len(data) \in 0..Len(pair.down) /\ Len(data) <= room
      /\ rest \in Seq(Byte) /\ Len(rest) = Len(pair.down) - Len(data)
      /\ (peer.got \o (conn.out.stream \o data)) \o rest
           = (peer.got \o conn.out.stream) \o pair.down
      /\ (data = <<>>) <=> (pair.down = <<>>)
      /\ pair.down = <<>> => rest = <<>>
  <2> HIDE DEF room
  <2>1. (peer.got \o (conn.out.stream \o data)) \o rest
           = (peer.got \o conn.out.stream) \o pair.down
    BY <1>1, <1>3, TakenPassedOn, ZenonT(60)
  <2> QED BY <1>1, <1>3, <2>1, TakenEffect, Zenon
<1>5. /\ pair' = [pair EXCEPT !.down = rest]
      /\ conn' = IF data = <<>> THEN Ended(Written(conn, data)) ELSE Written(conn, data)
      /\ thread' = [Served(thread, 2) EXCEPT !.eof = (data = <<>>),
                                             !.outbound_shutdown = (data = <<>>)]
      /\ fate' = IF Accepted(conn.out, Len(data)) = Len(data) THEN fate ELSE "thrown"
      /\ UNCHANGED <<peer, owner, stdin, stdout, abort>>
  BY DEF Rule2
<1> HIDE DEF data, rest
<1> DEFINE end == (data = <<>>)
           out == write(conn.out, data)
<1>6. /\ GoodStream(out) /\ out.capacity = OutBuffer /\ ~ out.end_flag
      /\ out.stream = conn.out.stream \o data
      /\ Accepted(conn.out, Len(data)) = Len(data)
  <2>1. /\ Accepted(conn.out, Len(data)) = Len(data)
        /\ out.stream = conn.out.stream \o data
    BY <1>1, <1>2, <1>4, WriteAll, Zenon DEF room
  <2>2. GoodStream(out) /\ out.capacity = conn.out.capacity
        /\ out.end_flag = conn.out.end_flag
    BY <1>1, <1>4, WriteEffect, Zenon
  <2> QED BY <1>1, <1>2, <2>1, <2>2
<1>7. /\ GoodConn(conn') /\ conn'.in = conn.in /\ conn'.state = conn.state
      /\ conn'.finAcked = conn.finAcked /\ (conn'.out.end_flag <=> end)
      /\ conn'.out.stream = conn.out.stream \o data
  <2>1. /\ GoodConn(Written(conn, data)) /\ Written(conn, data).out = out
        /\ Written(conn, data).in = conn.in /\ Written(conn, data).state = conn.state
        /\ Written(conn, data).finAcked = conn.finAcked
    BY <1>1, <1>4, WrittenEffect, Zenon
  <2>2. CASE ~ end
    BY <1>5, <1>6, <2>1, <2>2, SMTT(30)
  <2>3. CASE end
    <3>1. conn' = Ended(Written(conn, data))
      BY <1>5, <2>3
    <3>2. /\ GoodConn(conn') /\ conn'.in = conn.in /\ conn'.state = conn.state
          /\ conn'.finAcked = conn.finAcked /\ conn'.out = end_input(out)
      BY <2>1, <3>1, EndedEffect, SMTT(30)
    <3>3. end_input(out).end_flag /\ end_input(out).stream = out.stream
      BY <1>6, EndInputEffect, SMTT(30)
    <3> QED BY <1>6, <2>3, <3>2, <3>3
  <2> QED BY <2>2, <2>3, SMTT(30)
<1>8. /\ thread' \in ThreadType /\ thread'.at = "serve" /\ thread'.rules = thread.rules
      /\ thread'.ready = thread.ready \ {2} /\ thread'.hung = thread.hung \ {2}
      /\ thread'.eof = end /\ thread'.outbound_shutdown = end
  <2> DEFINE t == Served(thread, 2)
  <2>1. /\ t \in ThreadType /\ t.at = "serve" /\ t.rules = thread.rules
        /\ t.ready = thread.ready \ {2} /\ t.hung = thread.hung \ {2}
    BY ThreadServed
  <2>2. thread' = [t EXCEPT !.eof = end, !.outbound_shutdown = end] /\ end \in BOOLEAN
    BY <1>5
  <2> HIDE DEF t, end
  <2>3. /\ thread' \in ThreadType /\ thread'.at = t.at /\ thread'.rules = t.rules
        /\ thread'.ready = t.ready /\ thread'.hung = t.hung
        /\ thread'.eof = end /\ thread'.outbound_shutdown = end
    BY <2>1, <2>2, Zenon DEF ThreadType
  <2> QED BY <2>1, <2>3
<1>9. /\ pair' \in PairType /\ pair'.down = rest /\ pair'.up = pair.up
      /\ pair'.upShut = pair.upShut /\ pair'.downShut = pair.downShut
  <2>1. pair \in PairType /\ rest \in Seq(Byte) /\ pair' = [pair EXCEPT !.down = rest]
    BY <1>1, <1>4, <1>5, SMTT(30)
  <2> QED BY <2>1, Zenon DEF PairType
<1>10. end => /\ pair.downShut /\ pair'.down = <<>>
              /\ conn.in.error \/ (stdin = OutLen /\ owner.out.stream = <<>>)
  BY <1>2, <1>4, <1>9, SMTT(30) DEF SocketInv, Outbound, Stopped
<1> HIDE DEF end, out
<1>11. Shape'
  <2>1. Len(pair'.down) <= PipeRoom
    <3>1. Len(pair.down) <= PipeRoom /\ Len(pair.down) \in Nat
      BY <1>1 DEF SocketInv, Shape
    <3> QED BY <1>4, <1>9, <3>1, SocketAssumption, SMTT(20)
  <2>2. thread'.ready \cup thread'.hung \subseteq thread'.rules
    BY <1>8, SMTT(20) DEF SocketInv, Shape
  <2> QED BY <1>5, <1>7, <1>8, <1>9, <2>1, <2>2, SMTT(20) DEF SocketInv, Shape
<1>12. Control'
  <2>1. ~ conn.finAcked
    BY <1>2, SMTT(20) DEF SocketInv, Control, eof
  <2> QED BY <1>5, <1>7, <1>8, <2>1, SMTT(20) DEF SocketInv, Control, eof
<1>13. Outbound'
  BY <1>2, <1>5, <1>7, <1>8, <1>9, <1>10, SMTT(20) DEF SocketInv, Outbound, Full, Stopped
<1>14. Inbound'
  BY <1>2, <1>5, <1>7, <1>8, <1>9, SMTT(20) DEF SocketInv, Inbound, Full, Stopped
<1>15. Leaving' /\ NoFailure'
  BY <1>5, <1>6, <1>7 DEF SocketInv, Leaving, NoFailure
<1>16. Conserved'
  BY <1>4, <1>5, <1>7, <1>9, Zenon DEF SocketInv, Conserved
<1> QED BY <1>11, <1>12, <1>13, <1>14, <1>15, <1>16, SMTT(20) DEF SocketInv

(* What a write takes of a buffer is what is popped from it. *)
LEMMA PartTaken ==
    ASSUME NEW st, GoodStream(st), NEW n \in 0 .. st.size
    PROVE  /\ Taken(st.stream, n) \in Seq(Byte) /\ Len(Taken(st.stream, n)) = n
           /\ pop_output(st, n).stream = Left(st.stream, Len(Taken(st.stream, n)))
<1>1. st.size \in Nat /\ st.size = Len(st.stream) /\ st.stream \in Seq(Byte)
  BY StreamFields
<1>2. SmallerOf(n, Len(st.stream)) = n
  BY <1>1 DEF SmallerOf
<1>3. Taken(st.stream, n) = SubSeq(st.stream, 1, n)
  BY <1>2 DEF Taken
<1>4. Taken(st.stream, n) \in Seq(Byte) /\ Len(Taken(st.stream, n)) = n
  BY <1>1, <1>3, TakenAndLeft
<1>5. pop_output(st, n).stream = Left(st.stream, n)
  BY PopEffect DEF Left
<1> QED BY <1>4, <1>5

(* A write of the first n bytes of st to a pipe that holds q. *)
WrittenPart(q, st, n) ==
    LET taken == Taken(st.stream, n)
    IN  /\ n \in 0 .. st.size /\ taken \in Seq(Byte)
        /\ q \o taken \in Seq(Byte) /\ Len(q \o taken) <= PipeRoom
        /\ q \o taken = <<>> <=> (q = <<>> /\ taken = <<>>)
        /\ st.stream = <<>> => n = 0 /\ taken = <<>>
        /\ pop_output(st, n).stream = Left(st.stream, Len(taken))

(* What is written to a pipe, all of it or a part, fits in it. *)
LEMMA FitsEffect ==
    ASSUME NEW q \in Seq(Byte), NEW st, NEW n, GoodStream(st), Len(q) <= PipeRoom,
           n \in Parts(Fits(q, Len(st.stream)))
    PROVE  WrittenPart(q, st, n)
<1> DEFINE taken == Taken(st.stream, n)
<1>1. /\ Len(q) \in Nat /\ st.size \in Nat /\ st.size = Len(st.stream)
      /\ st.stream \in Seq(Byte) /\ PipeRoom \in Nat
  BY StreamFields, SocketAssumption
<1>2. n \in 0 .. st.size /\ Len(q) + n <= PipeRoom
  BY <1>1 DEF Parts, Fits, SmallerOf
<1>3. /\ taken \in Seq(Byte) /\ Len(taken) = n
      /\ pop_output(st, n).stream = Left(st.stream, Len(taken))
  BY <1>2, PartTaken
<1> HIDE DEF taken
<1>4. q \o taken \in Seq(Byte) /\ Len(q \o taken) = Len(q) + n
  BY <1>3, SMTT(30)
<1>5. /\ (q \o taken = <<>>) <=> (Len(q \o taken) = 0)
      /\ (q = <<>>) <=> (Len(q) = 0)
      /\ (taken = <<>>) <=> (n = 0)
  <2>1. \A x \in Seq(Byte) : (x = <<>>) <=> (Len(x) = 0)
    OBVIOUS
  <2> QED BY <1>3, <1>4, <2>1
<1>6. q \o taken = <<>> <=> (q = <<>> /\ taken = <<>>)
  BY <1>1, <1>2, <1>4, <1>5
<1>7. st.stream = <<>> => n = 0 /\ taken = <<>>
  BY <1>2, <1>5, StreamEmpty
<1> QED BY <1>1, <1>2, <1>3, <1>4, <1>6, <1>7, SMTT(30) DEF taken, WrittenPart

(* Rule 3 shuts the pipe down behind the last byte, or after a reset.      *)
LEMMA Rule3Keeps ==
    ASSUME SocketInv, Turn(thread, 3), Rule3, UNCHANGED <<owner, stdin, stdout, abort>>
    PROVE  SocketInv'
<1>0. PICK n \in Parts(Fits(pair.up, Len(conn.in.stream))) :
        /\ conn' = [conn EXCEPT !.in = pop_output(@, n)]
        /\ pair' = [pair EXCEPT !.up = @ \o Taken(conn.in.stream, n),
                                !.upShut = @ \/ InboundOver(conn')]
        /\ thread' = [Served(thread, 3) EXCEPT !.inbound_shutdown = @ \/ InboundOver(conn')]
        /\ fate' = IF conn.in.stream # <<>> /\ pair.upShut THEN "killed" ELSE fate
        /\ UNCHANGED peer
  BY ZenonT(60) DEF Rule3
<1> DEFINE taken == Taken(conn.in.stream, n)
           in    == pop_output(conn.in, n)
           over  == InboundOver(conn')
<1>1. /\ GoodConn(conn) /\ GoodStream(conn.in) /\ conn.in.capacity = InBuffer
      /\ conn.in.stream \in Seq(Byte) /\ pair \in PairType /\ pair.up \in Seq(Byte)
      /\ Len(pair.up) <= PipeRoom /\ stdout \in Seq(Byte)
      /\ owner.in.stream \in Seq(Byte) /\ pair.upShut \in BOOLEAN
  BY Fields, StreamFields DEF SocketInv, Shape
<1>2. /\ n \in 0 .. conn.in.size /\ taken \in Seq(Byte)
      /\ pair.up \o taken \in Seq(Byte) /\ Len(pair.up \o taken) <= PipeRoom
      /\ pair.up \o taken = <<>> <=> (pair.up = <<>> /\ taken = <<>>)
      /\ conn.in.stream = <<>> => n = 0 /\ taken = <<>>
      /\ in.stream = Left(conn.in.stream, Len(taken))
  <2> DEFINE q  == pair.up
             st == conn.in
  <2>1. /\ q \in Seq(Byte) /\ GoodStream(st) /\ Len(q) <= PipeRoom
        /\ n \in Parts(Fits(q, Len(st.stream)))
    BY <1>1
  <2> HIDE DEF q, st
  <2>2. WrittenPart(q, st, n)
    BY <2>1, FitsEffect
  <2> QED BY <2>2, Zenon DEF WrittenPart, q, st
<1>3. /\ conn' = [conn EXCEPT !.in = in]
      /\ pair' = [pair EXCEPT !.up = pair.up \o taken, !.upShut = pair.upShut \/ over]
      /\ thread' = [Served(thread, 3) EXCEPT
                      !.inbound_shutdown = Served(thread, 3).inbound_shutdown \/ over]
      /\ fate' = IF conn.in.stream # <<>> /\ pair.upShut THEN "killed" ELSE fate
      /\ UNCHANGED <<peer, owner, stdin, stdout, abort>>
  BY <1>0
<1>4. ((stdout \o owner.in.stream) \o (pair.up \o taken)) \o in.stream
        = ((stdout \o owner.in.stream) \o pair.up) \o conn.in.stream
  <2> DEFINE a == stdout \o owner.in.stream
  <2>1. a \in Seq(Byte) /\ n \in Nat /\ pair.up \in Seq(Byte) /\ conn.in.stream \in Seq(Byte)
    BY <1>1, <1>2, StreamFields
  <2> HIDE DEF a
  <2>2. (a \o (pair.up \o taken)) \o Left(conn.in.stream, Len(taken))
          = (a \o pair.up) \o conn.in.stream
    BY <2>1, TakenPassedOn, Zenon
  <2> QED BY <1>2, <2>2, Zenon DEF a
<1> HIDE DEF taken
<1>5. /\ GoodStream(in) /\ in.capacity = InBuffer /\ in.end_flag = conn.in.end_flag
      /\ in.error = conn.in.error /\ in.size = conn.in.size - n
  BY <1>1, <1>2, PopEffect, SMTT(30)
<1>6. (in.stream = <<>>) <=> (in.size = 0)
  BY <1>5, StreamEmpty, SMTT(30)
<1>7. conn.in.stream = <<>> => in.stream = <<>> /\ in.size = 0 /\ taken = <<>>
  BY <1>1, <1>2, <1>5, <1>6, StreamEmpty
<1> HIDE DEF in
<1>8. /\ GoodConn(conn') /\ conn'.in = in /\ conn'.out = conn.out
      /\ conn'.state = conn.state /\ conn'.finAcked = conn.finAcked
  BY <1>1, <1>3, <1>5, ConnWithIn
<1>9. over <=> ((in.end_flag /\ in.size = 0) \/ in.error)
  BY <1>8 DEF InboundOver, eof
<1> HIDE DEF over
<1>10. /\ pair' \in PairType /\ pair'.up = pair.up \o taken /\ pair'.down = pair.down
       /\ (pair'.upShut <=> pair.upShut \/ over) /\ pair'.downShut = pair.downShut
  <2>1. (pair.upShut \/ over) \in BOOLEAN
    OBVIOUS
  <2> QED BY <1>1, <1>2, <1>3, <2>1, Zenon DEF PairType
<1>11. /\ thread.at = "serve" /\ thread' \in ThreadType /\ thread'.at = "serve"
       /\ thread'.rules = thread.rules
       /\ thread'.ready = thread.ready \ {3} /\ thread'.hung = thread.hung \ {3}
       /\ thread'.eof = thread.eof /\ thread'.outbound_shutdown = thread.outbound_shutdown
  <2> DEFINE t == Served(thread, 3)
             b == t.inbound_shutdown \/ over
  <2>1. /\ t \in ThreadType /\ t.at = "serve" /\ t.rules = thread.rules
        /\ t.ready = thread.ready \ {3} /\ t.hung = thread.hung \ {3}
        /\ t.eof = thread.eof /\ t.outbound_shutdown = thread.outbound_shutdown
        /\ thread.at = "serve"
    BY ThreadServed
  <2>2. thread' = [t EXCEPT !.inbound_shutdown = b] /\ b \in BOOLEAN
    BY <1>3
  <2> HIDE DEF t, b
  <2>3. /\ thread' \in ThreadType /\ thread'.at = t.at /\ thread'.rules = t.rules
        /\ thread'.ready = t.ready /\ thread'.hung = t.hung
        /\ thread'.eof = t.eof /\ thread'.outbound_shutdown = t.outbound_shutdown
    BY <2>1, <2>2 DEF ThreadType
  <2> QED BY <2>1, <2>3, SMTT(30)
<1>12. Shape'
  <2>1. thread'.ready \cup thread'.hung \subseteq thread'.rules
    BY <1>11 DEF SocketInv, Shape
  <2> QED BY <1>2, <1>3, <1>8, <1>10, <1>11, <2>1, SMTT(30) DEF SocketInv, Shape
<1>13. Control'
  <2>1. eof(conn.in) => eof(in)
    BY <1>1, <1>5, <1>7, StreamEmpty, SMTT(30) DEF eof
  <2> QED BY <1>3, <1>5, <1>8, <1>11, <2>1, SMTT(20) DEF SocketInv, Control, eof
<1>14. Outbound'
  BY <1>3, <1>5, <1>8, <1>10, <1>11, SMTT(30) DEF SocketInv, Outbound, Full, Stopped
<1>15. Inbound'
  <2>1. pair'.upShut /\ ~ in.error => peer.sent = InLen /\ in.stream = <<>>
    BY <1>2, <1>5, <1>6, <1>7, <1>9, <1>10, <1>11, SMTT(20) DEF SocketInv, Inbound, Stopped
  <2>2. owner.in.end_flag /\ ~ in.error
           => peer.sent = InLen /\ in.stream = <<>> /\ pair'.up = <<>>
    BY <1>2, <1>5, <1>6, <1>7, <1>9, <1>10, <1>11, SMTT(20) DEF SocketInv, Inbound, Stopped
  <2>3. pair.up # <<>> \/ pair.upShut => pair'.up # <<>> \/ pair'.upShut
    BY <1>2, <1>5, <1>6, <1>7, <1>9, <1>10, <1>11, SMTT(20) DEF SocketInv, Inbound, Stopped
  <2>4. in.end_flag => peer.sent = InLen
    BY <1>2, <1>5, <1>6, <1>7, <1>9, <1>10, <1>11, SMTT(20) DEF SocketInv, Inbound, Stopped
  <2> QED BY <1>3, <1>5, <1>8, <1>11, <2>1, <2>2, <2>3, <2>4, SMTT(20), SMTT(30)
           DEF SocketInv, Inbound, Stopped, Full, eof
<1>16. Leaving'
  BY <1>3, <1>5, <1>8 DEF SocketInv, Leaving
<1>17. Conserved'
  BY <1>3, <1>4, <1>8, <1>10, ZenonT(60) DEF SocketInv, Conserved
<1>18. NoFailure'
  BY <1>3, <1>5, <1>8, <1>11 DEF SocketInv, Inbound, Stopped, NoFailure
<1> QED BY <1>12, <1>13, <1>14, <1>15, <1>16, <1>17, <1>18, SMTT(20) DEF SocketInv
=============================================================================
