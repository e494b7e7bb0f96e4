------------------------- MODULE SpongeSocketProofs -------------------------
(***************************************************************************)
(* The socket's two threads lose no byte and neither fails, for every      *)
(* length of the two streams and every size of buffers and pipes: the      *)
(* steps of bidirectional_stream_copy, and the theorems.                   *)
(***************************************************************************)
EXTENDS SpongeSocketThreadProofs

(* The rules of the stream copy. *)

LEMMA OwnerServed ==
    ASSUME SocketInv, NEW r, Turn(owner, r)
    PROVE  /\ owner.at = "serve" /\ ~ abort /\ r \in owner.ready \cup owner.hung
           /\ \A x \in owner.ready \cup owner.hung : r <= x
           /\ Served(owner, r) \in OwnerType /\ Served(owner, r).at = "serve"
           /\ Served(owner, r).rules = owner.rules
           /\ Served(owner, r).ready = owner.ready \ {r}
           /\ Served(owner, r).hung = owner.hung \ {r}
           /\ Served(owner, r).out = owner.out /\ Served(owner, r).in = owner.in
           /\ Served(owner, r).inputEof = owner.inputEof
           /\ Served(owner, r).socketEof = owner.socketEof
           /\ Served(owner, r).outputClosed = owner.outputClosed
           /\ (owner.ready \ {r}) \cup (owner.hung \ {r}) \subseteq owner.rules
<1>1. /\ owner \in OwnerType
      /\ owner.ready \subseteq Rules /\ owner.hung \subseteq Rules
  BY Fields DEF SocketInv
<1>2. /\ owner.at = "serve" /\ r \in owner.ready \cup owner.hung
      /\ \A x \in owner.ready \cup owner.hung : r <= x
  BY <1>1, TurnFirst
<1>3. ~ abort /\ owner.ready \cup owner.hung \subseteq owner.rules
  BY <1>2 DEF SocketInv, Control, Shape
<1> DEFINE due == owner.ready \ {r}
           cut == owner.hung \ {r}
<1>4. due \in SUBSET Rules /\ cut \in SUBSET Rules /\ due \cup cut \subseteq owner.rules
  BY <1>1, <1>3
<1>5. Served(owner, r) = [owner EXCEPT !.ready = due, !.hung = cut]
  BY DEF Served
<1> HIDE DEF due, cut
<1>6. /\ Served(owner, r) \in OwnerType /\ Served(owner, r).at = "serve"
      /\ Served(owner, r).rules = owner.rules
      /\ Served(owner, r).ready = due /\ Served(owner, r).hung = cut
      /\ Served(owner, r).out = owner.out /\ Served(owner, r).in = owner.in
      /\ Served(owner, r).inputEof = owner.inputEof
      /\ Served(owner, r).socketEof = owner.socketEof
      /\ Served(owner, r).outputClosed = owner.outputClosed
  BY <1>1, <1>2, <1>4, <1>5, Zenon DEF OwnerType
<1> QED BY <1>2, <1>3, <1>4, <1>6 DEF due, cut

(* Rule 1 reads as much as there is and as fits: it finds the end of the   *)
(* input only after the last byte.                                         *)
LEMMA CopyRule1Keeps ==
    ASSUME SocketInv, Turn(owner, 1), CopyRule1, UNCHANGED <<conn, peer, thread, abort>>
    PROVE  SocketInv'
<1> DEFINE room == remaining_capacity(owner.out)
           n    == SmallerOf(room, OutLen - stdin)
           end  == (n = 0)
           data == BytesFrom(stdin, n)
           out  == IF end THEN end_input(owner.out) ELSE write(owner.out, data)
           o    == Served(owner, 1)
<1>1. /\ GoodStream(owner.out) /\ owner.out.capacity = OutBuffer
      /\ owner.out.stream \in Seq(Byte) /\ stdin \in 0..OutLen /\ OutLen \in Nat
      /\ peer.got \in Seq(Byte) /\ conn.out.stream \in Seq(Byte) /\ pair.down \in Seq(Byte)
      /\ owner.out.size \in Nat /\ OutBuffer \in Nat
      /\ room = OutBuffer - owner.out.size /\ room \in Nat
  <2>1. /\ GoodStream(owner.out) /\ owner.out.capacity = OutBuffer /\ GoodStream(conn.out)
        /\ peer.got \in Seq(Byte) /\ pair.down \in Seq(Byte)
        /\ stdin \in 0..OutLen /\ OutLen \in Nat /\ OutBuffer \in Nat
    BY Fields, SocketAssumption DEF SocketInv, Shape
  <2> QED BY <2>1, StreamFields, StreamEmpty
<1>2. /\ owner.at = "serve" /\ ~ abort /\ 1 \in owner.ready
      /\ o \in OwnerType /\ o.at = "serve" /\ o.rules = owner.rules
      /\ o.ready = owner.ready \ {1} /\ o.hung = owner.hung \ {1} /\ o.out = owner.out
      /\ o.in = owner.in /\ o.socketEof = owner.socketEof
      /\ o.outputClosed = owner.outputClosed /\ o.ready \cup o.hung \subseteq o.rules
  BY OwnerServed DEF SocketInv, Control
<1>3. room # 0 /\ 1 \in owner.rules
  BY <1>2 DEF SocketInv, Outbound, Full, Shape
<1>4. /\ n \in Nat /\ n <= room /\ stdin + n \in 0..OutLen /\ (end <=> stdin = OutLen)
      /\ stdin + n = OutLen \/ n = room
  <2>1. room \in Nat /\ room # 0 /\ stdin \in 0..OutLen /\ OutLen \in Nat
    BY <1>1, <1>3
  <2> HIDE DEF room
  <2> QED BY <2>1 DEF SmallerOf
<1>5. ~ end => ~ owner.out.end_flag
  BY <1>3, <1>4 DEF SocketInv, Outbound, Full
<1>6. /\ stdin' = stdin + n
      /\ owner' = [o EXCEPT !.inputEof = end, !.out = out]
      /\ UNCHANGED <<conn, peer, thread, abort, pair, stdout, fate>>
  <2>1. owner' = [o EXCEPT !.inputEof = end,
                           !.out = IF end THEN end_input(o.out) ELSE write(o.out, data)]
    BY DEF CopyRule1
  <2> QED BY <1>2, <2>1, Zenon DEF CopyRule1
<1> HIDE DEF room, n, o, data
<1>7. /\ GoodStream(out) /\ out.capacity = OutBuffer /\ out.error = owner.out.error
      /\ out.end_flag => stdin' = OutLen
      /\ stdin' = OutLen \/ Full(out)
      /\ end => out.stream = owner.out.stream
      /\ ~ end => out.stream = owner.out.stream \o data
  <2>1. CASE end
    <3>1. out = end_input(owner.out)
      BY <2>1
    <3>2. /\ GoodStream(out) /\ out.capacity = owner.out.capacity
          /\ out.error = owner.out.error /\ out.stream = owner.out.stream
      BY <1>1, <3>1, EndInputEffect
    <3>3. stdin' = OutLen
      BY <1>1, <1>4, <1>6, <2>1
    <3> QED BY <1>1, <2>1, <3>2, <3>3
  <2>2. CASE ~ end
    <3>1. out = write(owner.out, data) /\ stdin \in Nat
      BY <1>1, <2>2
    <3>2. data \in Seq(Byte) /\ Len(data) = n
      BY <1>4, <3>1, BytesFromParts DEF data
    <3>3. ~ owner.out.end_flag /\ Len(data) <= remaining_capacity(owner.out)
      BY <1>4, <1>5, <2>2, <3>2 DEF room
    <3>4. out.stream = owner.out.stream \o data /\ out.size = owner.out.size + n
      BY <1>1, <3>1, <3>2, <3>3, WriteAll, Zenon
    <3>5. /\ GoodStream(out) /\ out.capacity = owner.out.capacity
          /\ out.error = owner.out.error /\ out.end_flag = owner.out.end_flag
      <4> HIDE DEF out
      <4> QED BY <1>1, <3>1, <3>2, WriteEffect, Zenon
    <3>6. n = room => Full(out)
      BY <1>1, <3>4, <3>5 DEF Full, remaining_capacity
    <3>7. stdin' = OutLen \/ Full(out)
      BY <1>4, <1>6, <3>6
    <3> HIDE DEF out
    <3> QED BY <1>1, <2>2, <3>3, <3>4, <3>5, <3>7, SMTT(30)
  <2> QED BY <2>1, <2>2, Zenon
<1> HIDE DEF out
<1>8. /\ owner' \in OwnerType /\ owner'.at = "serve" /\ owner'.rules = owner.rules
      /\ owner'.ready = owner.ready \ {1} /\ owner'.hung = owner.hung \ {1}
      /\ owner'.out = out /\ owner'.in = owner.in /\ (owner'.inputEof <=> end)
      /\ owner'.socketEof = owner.socketEof /\ owner'.outputClosed = owner.outputClosed
  <2>1. end \in BOOLEAN /\ out \in ByteStreamType(Byte)
    BY <1>7 DEF GoodStream
  <2> HIDE DEF end
  <2>2. /\ owner' \in OwnerType /\ owner'.at = o.at /\ owner'.rules = o.rules
        /\ owner'.ready = o.ready /\ owner'.hung = o.hung
        /\ owner'.out = out /\ owner'.in = o.in /\ owner'.inputEof = end
        /\ owner'.socketEof = o.socketEof /\ owner'.outputClosed = o.outputClosed
    BY <1>2, <1>6, <2>1, Zenon DEF OwnerType
  <2> QED BY <1>2, <2>2
<1>9. end => stdin' = OutLen /\ stdin = OutLen
  BY <1>1, <1>4, <1>6
<1>10. Shape'
  <2>1. Buffer(owner'.out, OutBuffer) /\ stdin' \in 0..OutLen
    BY <1>4, <1>6, <1>7, <1>8 DEF Buffer, GoodStream
  <2>2. owner'.ready \cup owner'.hung \subseteq owner'.rules
    BY <1>2, <1>8
  <2> QED BY <1>6, <1>8, <2>1, <2>2 DEF SocketInv, Shape
<1>11. Control'
  BY <1>2, <1>6, <1>8 DEF SocketInv, Control, Active, eof
<1>12. Outbound'
  <2>1. stdin = OutLen => end
    BY <1>4
  <2> HIDE DEF end
  <2>2. pair.downShut /\ ~ conn.in.error => stdin = OutLen /\ owner.out.stream = <<>>
    BY <1>2 DEF SocketInv, Outbound, Stopped
  <2> QED BY <1>3, <1>6, <1>7, <1>8, <1>9, <2>1, <2>2, SMTT(30) DEF SocketInv, Outbound, Stopped
<1>13. Inbound'
  BY <1>6, <1>8 DEF SocketInv, Inbound, Full, Stopped, remaining_capacity, eof
<1>14. Leaving' /\ NoFailure'
  BY <1>6, <1>8 DEF SocketInv, Leaving, NoFailure
<1>15. Conserved'
  <2> DEFINE old == peer.got \o conn.out.stream \o pair.down
  <2>1. old \in Seq(Byte)
    BY <1>1
  <2>2. old \o owner.out.stream = BytesFrom(0, stdin)
    BY DEF SocketInv, Conserved
  <2>3. UNCHANGED <<old, stdout, owner.in.stream, pair.up, conn.in.stream, peer.sent>>
    BY <1>6, <1>8
  <2> HIDE DEF old
  <2>4. (old \o owner.out.stream)' = BytesFrom(0, stdin)'
    <3>1. CASE end
      <4>1. stdin' = stdin
        BY <1>1, <1>6, <3>1
      <4> QED BY <1>7, <1>8, <2>2, <2>3, <3>1, <4>1, Zenon
    <3>2. CASE ~ end
      <4>1. stdin \in Nat /\ owner.out.stream \in Seq(Byte) /\ n \in Nat
        BY <1>1, <1>4
      <4>2. old \o (owner.out.stream \o BytesFrom(stdin, n)) = BytesFrom(0, stdin + n)
        BY <2>1, <2>2, <4>1, NextAdded, Zenon
      <4> QED BY <1>6, <1>7, <1>8, <2>3, <3>2, <4>2, Zenon DEF data
    <3> QED BY <3>1, <3>2
  <2> QED BY <2>3, <2>4, Zenon DEF SocketInv, Conserved, old
<1> QED BY <1>10, <1>11, <1>12, <1>13, <1>14, <1>15 DEF SocketInv

(* Rule 2 shuts the pipe down behind the last byte of the input.           *)
LEMMA CopyRule2Keeps ==
    ASSUME SocketInv, Turn(owner, 2), 2 \notin owner.hung, CopyRule2,
           UNCHANGED <<conn, peer, thread, abort>>
    PROVE  SocketInv'
<1> DEFINE o == Served(owner, 2)
<1>0. PICK n \in Parts(Fits(pair.down, Len(owner.out.stream))) :
        LET left == pop_output(owner.out, n)
        IN  /\ pair' = [pair EXCEPT !.down = @ \o Taken(owner.out.stream, n),
                                    !.downShut = @ \/ eof(left)]
            /\ owner' = [o EXCEPT !.out = left, !.outbound_shutdown = @ \/ eof(left)]
            /\ fate' = IF owner.out.stream # <<>> /\ pair.downShut THEN "killed" ELSE fate
            /\ UNCHANGED <<stdin, stdout>>
  BY Zenon DEF CopyRule2
<1> DEFINE taken == Taken(owner.out.stream, n)
           left  == pop_output(owner.out, n)
           end   == eof(left)
<1>1. /\ GoodStream(owner.out) /\ owner.out.capacity = OutBuffer
      /\ owner.out.stream \in Seq(Byte) /\ pair \in PairType /\ pair.down \in Seq(Byte)
      /\ Len(pair.down) <= PipeRoom /\ peer.got \in Seq(Byte)
      /\ conn.out.stream \in Seq(Byte) /\ pair.downShut \in BOOLEAN
      /\ owner.outbound_shutdown \in BOOLEAN
  BY Fields, StreamFields, Zenon DEF SocketInv, Shape
<1>2. /\ n \in 0 .. owner.out.size /\ taken \in Seq(Byte)
      /\ pair.down \o taken \in Seq(Byte) /\ Len(pair.down \o taken) <= PipeRoom
      /\ pair.down \o taken = <<>> <=> (pair.down = <<>> /\ taken = <<>>)
      /\ owner.out.stream = <<>> => n = 0 /\ taken = <<>>
      /\ left.stream = Left(owner.out.stream, Len(taken))
  <2> DEFINE q  == pair.down
             st == owner.out
  <2>1. /\ q \in Seq(Byte) /\ GoodStream(st) /\ Len(q) <= PipeRoom
        /\ n \in Parts(Fits(q, Len(st.stream)))
    BY <1>1
  <2> HIDE DEF q, st
  <2>2. WrittenPart(q, st, n)
    BY <2>1, FitsEffect
  <2> QED BY <2>2, Zenon DEF WrittenPart, q, st
<1>3. /\ pair' = [pair EXCEPT !.down = pair.down \o taken, !.downShut = pair.downShut \/ end]
      /\ owner' = [o EXCEPT !.out = left, !.outbound_shutdown = o.outbound_shutdown \/ end]
      /\ fate' = IF owner.out.stream # <<>> /\ pair.downShut THEN "killed" ELSE fate
      /\ UNCHANGED <<conn, peer, thread, abort, stdin, stdout>>
  BY <1>0, SMTT(30)
<1>4. ((peer.got \o conn.out.stream) \o (pair.down \o taken)) \o left.stream
        = ((peer.got \o conn.out.stream) \o pair.down) \o owner.out.stream
  <2> DEFINE a == peer.got \o conn.out.stream
  <2>1. /\ a \in Seq(Byte) /\ n \in Nat
        /\ pair.down \in Seq(Byte) /\ owner.out.stream \in Seq(Byte)
    BY <1>1, <1>2, StreamFields
  <2> HIDE DEF a
  <2>2. (a \o (pair.down \o taken)) \o Left(owner.out.stream, Len(taken))
          = (a \o pair.down) \o owner.out.stream
    BY <2>1, TakenPassedOn, ZenonT(60)
  <2> QED BY <1>2, <2>2 DEF a
<1> HIDE DEF taken
<1>5. /\ GoodStream(left) /\ left.capacity = OutBuffer
      /\ left.end_flag = owner.out.end_flag /\ left.error = owner.out.error
      /\ left.size = owner.out.size - n
  BY <1>1, <1>2, PopEffect
<1>6. /\ (left.stream = <<>>) <=> (left.size = 0)
      /\ Full(left) => Full(owner.out)
      /\ owner.out.stream = <<>> => left.stream = <<>> /\ taken = <<>>
  <2>1. left.stream = <<>> <=> left.size = 0
    BY <1>5, StreamEmpty
  <2> HIDE DEF left
  <2>2. Full(left) => Full(owner.out)
    <3>1. owner.out.size \in Nat /\ owner.out.size <= OutBuffer /\ OutBuffer \in Nat
      BY <1>1, StreamFields, SocketAssumption
    <3> QED BY <1>1, <1>2, <1>5, <3>1 DEF Full, remaining_capacity
  <2>3. owner.out.stream = <<>> => left.size = 0
    BY <1>1, <1>2, <1>5, StreamEmpty
  <2> QED BY <1>2, <2>1, <2>2, <2>3
<1> HIDE DEF left
<1>7. end <=> (left.end_flag /\ left.size = 0)
  BY DEF eof
<1> HIDE DEF end
<1>8. /\ pair' \in PairType /\ pair'.down = pair.down \o taken /\ pair'.up = pair.up
      /\ (pair'.downShut <=> pair.downShut \/ end) /\ pair'.upShut = pair.upShut
  <2>1. (pair.downShut \/ end) \in BOOLEAN
    OBVIOUS
  <2> QED BY <1>1, <1>2, <1>3, <2>1, Zenon DEF PairType
<1>9. /\ owner.at = "serve" /\ ~ abort /\ 2 \in owner.ready
      /\ o \in OwnerType /\ o.at = "serve" /\ o.rules = owner.rules
      /\ o.ready = owner.ready \ {2} /\ o.hung = owner.hung \ {2}
      /\ o.in = owner.in /\ o.inputEof = owner.inputEof /\ o.socketEof = owner.socketEof
      /\ o.outputClosed = owner.outputClosed /\ o.ready \cup o.hung \subseteq o.rules
  BY OwnerServed
<1>10. /\ owner' \in OwnerType /\ owner'.at = "serve" /\ owner'.rules = owner.rules
       /\ owner'.ready = owner.ready \ {2} /\ owner'.hung = owner.hung \ {2}
       /\ owner'.out = left /\ owner'.in = owner.in /\ owner'.inputEof = owner.inputEof
       /\ owner'.socketEof = owner.socketEof /\ owner'.outputClosed = owner.outputClosed
  <2> DEFINE b == o.outbound_shutdown \/ end
  <2>1. b \in BOOLEAN /\ left \in ByteStreamType(Byte)
    BY <1>5 DEF GoodStream
  <2> HIDE DEF o, b
  <2>2. /\ owner' \in OwnerType /\ owner'.at = o.at /\ owner'.rules = o.rules
        /\ owner'.ready = o.ready /\ owner'.hung = o.hung
        /\ owner'.out = left /\ owner'.in = o.in /\ owner'.inputEof = o.inputEof
        /\ owner'.socketEof = o.socketEof /\ owner'.outputClosed = o.outputClosed
    BY <1>3, <1>9, <2>1, Zenon DEF OwnerType, b
  <2> QED BY <1>9, <2>2
<1>11. 2 \in owner.rules /\ (left.end_flag => stdin = OutLen)
  BY <1>5, <1>9, Zenon DEF SocketInv, Shape, Outbound
<1>12. Shape'
  <2>1. Buffer(owner'.out, OutBuffer) /\ owner'.ready \cup owner'.hung \subseteq owner'.rules
    BY <1>5, <1>9, <1>10 DEF Buffer, GoodStream
  <2> QED BY <1>2, <1>3, <1>8, <1>10, <2>1, SMTT(30) DEF SocketInv, Shape
<1>13. Control'
  BY <1>3, <1>9, <1>10, SMTT(30) DEF SocketInv, Control, Active, eof
<1>14. Outbound'
  <2>1. /\ pair'.downShut /\ ~ conn.in.error => stdin = OutLen /\ left.stream = <<>>
        /\ conn.out.end_flag /\ ~ conn.in.error
             => stdin = OutLen /\ pair'.down = <<>> /\ left.stream = <<>>
        /\ pair.down # <<>> \/ pair.downShut => pair'.down # <<>> \/ pair'.downShut
    BY <1>2, <1>6, <1>7, <1>8, <1>9, <1>11, Zenon DEF SocketInv, Outbound, Stopped
  <2>2. 2 \notin owner'.hung /\ 2 \in owner'.rules
    BY <1>10, <1>11
  <2>3. 1 \in owner'.ready => ~ Full(left)
    BY <1>6, <1>10, SMTT(30) DEF SocketInv, Outbound
  <2> QED BY <1>3, <1>5, <1>10, <1>11, <2>1, <2>2, <2>3, SMTT(20) DEF SocketInv, Outbound, Stopped, Full
<1>15. Inbound'
  BY <1>3, <1>8, <1>10 DEF SocketInv, Inbound, Full, Stopped, eof
<1>16. Leaving'
  BY <1>10 DEF Leaving
<1>17. Conserved'
  BY <1>3, <1>4, <1>8, <1>10, Zenon DEF SocketInv, Conserved
<1>18. NoFailure'
  BY <1>3, <1>9 DEF SocketInv, Outbound, Stopped, NoFailure
<1> QED BY <1>12, <1>13, <1>14, <1>15, <1>16, <1>17, <1>18 DEF SocketInv

(* Rule 3 finds the end of the peer's stream behind its last byte.         *)
LEMMA CopyRule3Keeps ==
    ASSUME SocketInv, Turn(owner, 3), CopyRule3, UNCHANGED <<conn, peer, thread, abort>>
    PROVE  SocketInv'
<1> DEFINE room == remaining_capacity(owner.in)
           data == Taken(pair.up, room)
           rest == Left(pair.up, Len(data))
           end  == (data = <<>>)
           in   == IF end THEN end_input(owner.in) ELSE write(owner.in, data)
           o    == Served(owner, 3)
<1>1. /\ GoodStream(owner.in) /\ owner.in.capacity = InBuffer
      /\ owner.in.stream \in Seq(Byte) /\ stdout \in Seq(Byte)
      /\ pair \in PairType /\ pair.up \in Seq(Byte)
  BY Fields, StreamFields DEF SocketInv, Shape
<1>2. /\ owner.at = "serve" /\ ~ abort /\ 3 \in owner.ready
      /\ o \in OwnerType /\ o.at = "serve" /\ o.rules = owner.rules
      /\ o.ready = owner.ready \ {3} /\ o.hung = owner.hung \ {3} /\ o.out = owner.out
      /\ o.in = owner.in /\ o.inputEof = owner.inputEof
      /\ o.outputClosed = owner.outputClosed /\ o.ready \cup o.hung \subseteq o.rules
  BY OwnerServed DEF SocketInv, Control
<1>3. /\ ~ owner.in.end_flag /\ ~ Full(owner.in) /\ (pair.up # <<>> \/ pair.upShut)
      /\ ~ owner.outputClosed /\ 3 \in owner.rules /\ 4 \in owner.rules
  BY <1>2, Zenon DEF SocketInv, Inbound, Shape, eof
<1>4. room \in Nat /\ room # 0
  BY <1>1, <1>3, StreamEmpty, StreamFields DEF Full
<1>5. /\ data \in Seq(Byte) /\ Len(data) \in 0..Len(pair.up) /\ Len(data) <= room
      /\ rest \in Seq(Byte) /\ Len(rest) = Len(pair.up) - Len(data)
      /\ (stdout \o (owner.in.stream \o data)) \o rest
           = (stdout \o owner.in.stream) \o pair.up
      /\ (data = <<>>) <=> (pair.up = <<>>)
      /\ pair.up = <<>> => rest = <<>>
  <2> HIDE DEF room
  <2>1. (stdout \o (owner.in.stream \o data)) \o rest
           = (stdout \o owner.in.stream) \o pair.up
    BY <1>1, <1>4, TakenPassedOn, Zenon
  <2> QED BY <1>1, <1>4, <2>1, TakenEffect, Zenon
<1>6. /\ pair' = [pair EXCEPT !.up = rest]
      /\ owner' = [o EXCEPT !.socketEof = end, !.in = in]
      /\ UNCHANGED <<conn, peer, thread, abort, stdin, stdout, fate>>
  <2>1. owner' = [o EXCEPT !.socketEof = end,
                           !.in = IF end THEN end_input(o.in) ELSE write(o.in, data)]
    BY DEF CopyRule3
  <2> QED BY <1>2, <2>1, Zenon DEF CopyRule3
<1> HIDE DEF data, rest, o
<1>7. /\ GoodStream(in) /\ in.capacity = InBuffer /\ in.error = owner.in.error
      /\ in.end_flag <=> end
      /\ in.stream = owner.in.stream \o data
  <2>1. CASE end
    <3>1. in = end_input(owner.in)
      BY <2>1
    <3>2. /\ GoodStream(in) /\ in.capacity = owner.in.capacity /\ in.end_flag
          /\ in.error = owner.in.error /\ in.stream = owner.in.stream
      BY <1>1, <3>1, EndInputEffect
    <3>3. owner.in.stream \o data = owner.in.stream
      BY <1>1, <2>1
    <3> QED BY <1>1, <2>1, <3>2, <3>3
  <2>2. CASE ~ end
    <3>1. in = write(owner.in, data)
      BY <2>2
    <3> HIDE DEF in
    <3>2. in.stream = owner.in.stream \o data
      <4>1. data \in Seq(Byte) /\ Len(data) <= remaining_capacity(owner.in)
        BY <1>5
      <4> QED BY <1>1, <1>3, <3>1, <4>1, WriteAll, ZenonT(60)
    <3>3. /\ GoodStream(in) /\ in.capacity = owner.in.capacity
          /\ in.error = owner.in.error /\ in.end_flag = owner.in.end_flag
      BY <1>1, <1>5, <3>1, WriteEffect, Zenon
    <3> QED BY <1>1, <1>3, <2>2, <3>2, <3>3
  <2> QED BY <2>1, <2>2
<1> HIDE DEF in
<1>8. /\ owner' \in OwnerType /\ owner'.at = "serve" /\ owner'.rules = owner.rules
      /\ owner'.ready = owner.ready \ {3} /\ owner'.hung = owner.hung \ {3}
      /\ owner'.in = in /\ owner'.out = owner.out /\ owner'.inputEof = owner.inputEof
      /\ (owner'.socketEof <=> end) /\ owner'.outputClosed = owner.outputClosed
  <2>1. end \in BOOLEAN /\ in \in ByteStreamType(Byte)
    BY <1>7 DEF GoodStream
  <2> HIDE DEF end
  <2>2. /\ owner' \in OwnerType /\ owner'.at = o.at /\ owner'.rules = o.rules
        /\ owner'.ready = o.ready /\ owner'.hung = o.hung
        /\ owner'.in = in /\ owner'.out = o.out /\ owner'.inputEof = o.inputEof
        /\ owner'.socketEof = end /\ owner'.outputClosed = o.outputClosed
    BY <1>2, <1>6, <2>1, Zenon DEF OwnerType
  <2> QED BY <1>2, <2>2
<1>9. /\ pair' \in PairType /\ pair'.up = rest /\ pair'.down = pair.down
      /\ pair'.upShut = pair.upShut /\ pair'.downShut = pair.downShut
  BY <1>1, <1>5, <1>6, ZenonT(60) DEF PairType
<1>10. end => /\ pair'.up = <<>>
              /\ conn.in.error \/ (peer.sent = InLen /\ conn.in.stream = <<>>)
  BY <1>2, <1>3, <1>5, <1>9 DEF SocketInv, Inbound, Stopped
<1> HIDE DEF end
<1>11. Shape'
  <2>1. Len(pair'.up) <= PipeRoom
    <3>1. Len(pair.up) <= PipeRoom /\ Len(pair.up) \in Nat
      BY <1>1 DEF SocketInv, Shape
    <3> QED BY <1>5, <1>9, <3>1, SocketAssumption
  <2>2. owner'.ready \cup owner'.hung \subseteq owner'.rules /\ Buffer(owner'.in, InBuffer)
    BY <1>2, <1>7, <1>8 DEF Buffer, GoodStream
  <2> QED BY <1>6, <1>8, <1>9, <2>1, <2>2, SMTT(30) DEF SocketInv, Shape
<1>12. Control'
  BY <1>2, <1>6, <1>8 DEF SocketInv, Control, Active, eof
<1>13. Outbound'
  BY <1>6, <1>8, <1>9, SMTT(30) DEF SocketInv, Outbound, Full, Stopped
<1>14. Inbound'
  BY <1>2, <1>3, <1>6, <1>7, <1>8, <1>9, <1>10, SMTT(30) DEF SocketInv, Inbound, Full, Stopped
<1>15. Leaving' /\ NoFailure'
  BY <1>6, <1>8 DEF SocketInv, Leaving, NoFailure
<1>16. Conserved'
  BY <1>5, <1>6, <1>7, <1>8, <1>9, Zenon DEF SocketInv, Conserved
<1> QED BY <1>11, <1>12, <1>13, <1>14, <1>15, <1>16, SMTT(20) DEF SocketInv

(* Rule 4 closes the output only when all of the input is written.         *)
LEMMA CopyRule4Keeps ==
    ASSUME SocketInv, Turn(owner, 4), CopyRule4, UNCHANGED <<conn, peer, thread, abort>>
    PROVE  SocketInv'
<1> DEFINE o == Served(owner, 4)
<1>0. PICK n \in Parts(owner.in.size) :
        LET left == pop_output(owner.in, n)
        IN  /\ stdout' = stdout \o Taken(owner.in.stream, n)
            /\ owner' = [o EXCEPT !.in = left, !.outputClosed = @ \/ eof(left),
                                  !.inbound_shutdown = @ \/ eof(left)]
            /\ UNCHANGED <<pair, stdin, fate>>
  BY Zenon DEF CopyRule4
<1> DEFINE taken == Taken(owner.in.stream, n)
           left  == pop_output(owner.in, n)
           end   == eof(left)
<1>1. /\ GoodStream(owner.in) /\ owner.in.capacity = InBuffer
      /\ owner.in.stream \in Seq(Byte) /\ stdout \in Seq(Byte)
      /\ owner.outputClosed \in BOOLEAN /\ owner.inbound_shutdown \in BOOLEAN
      /\ owner.in.size \in Nat
  BY Fields, StreamFields, SMTT(30) DEF SocketInv, Shape
<1>2. /\ owner.at = "serve" /\ ~ abort /\ 4 \in owner.ready
      /\ o \in OwnerType /\ o.at = "serve" /\ o.rules = owner.rules
      /\ o.ready = owner.ready \ {4} /\ o.hung = owner.hung \ {4} /\ o.out = owner.out
      /\ o.inputEof = owner.inputEof /\ o.socketEof = owner.socketEof
      /\ o.outputClosed = owner.outputClosed /\ o.ready \cup o.hung \subseteq o.rules
  BY OwnerServed DEF SocketInv, Control
<1>3. /\ stdout' = stdout \o taken
      /\ owner' = [o EXCEPT !.in = left, !.outputClosed = o.outputClosed \/ end,
                            !.inbound_shutdown = o.inbound_shutdown \/ end]
      /\ UNCHANGED <<conn, peer, thread, abort, pair, stdin, fate>>
  BY <1>0
<1>4. n \in 0 .. owner.in.size
  BY <1>0, <1>1 DEF Parts
<1>5. /\ GoodStream(left) /\ left.capacity = owner.in.capacity
      /\ left.end_flag = owner.in.end_flag /\ left.error = owner.in.error
      /\ left.size = owner.in.size - n
      /\ taken \in Seq(Byte) /\ left.stream = Left(owner.in.stream, Len(taken))
  BY <1>1, <1>4, PopEffect, PartTaken, Zenon
<1>6. stdout \o taken \in Seq(Byte)
      /\ (stdout \o taken) \o left.stream = stdout \o owner.in.stream
  <2>1. (<<>> \o (stdout \o taken)) \o Left(owner.in.stream, Len(taken))
          = (<<>> \o stdout) \o owner.in.stream
    <3>1. <<>> \in Seq(Byte) /\ n \in Nat
      BY <1>1, <1>4
    <3> QED BY <1>1, <3>1, TakenPassedOn, ZenonT(60)
  <2> HIDE DEF taken, left
  <2>2. stdout \o taken \in Seq(Byte)
    BY <1>1, <1>5
  <2>3. \A x \in Seq(Byte) : <<>> \o x = x
    OBVIOUS
  <2> QED BY <1>1, <1>5, <2>1, <2>2, <2>3, Zenon
<1> HIDE DEF taken, left
<1>7. /\ Full(left) => Full(owner.in)
      /\ end <=> left.end_flag /\ left.size = 0
      /\ eof(owner.in) => eof(left)
  <2>1. owner.in.capacity \in Nat /\ owner.in.size <= owner.in.capacity
    BY <1>1, StreamFields
  <2>2. Full(left) => Full(owner.in)
    BY <1>1, <1>4, <1>5, <2>1, SMTT(30) DEF Full, remaining_capacity
  <2>3. left.size = 0 \/ owner.in.size # 0
    BY <1>1, <1>4, <1>5
  <2> QED BY <1>5, <2>2, <2>3, SMTT(30) DEF eof
<1> HIDE DEF end, o
<1>8. /\ owner' \in OwnerType /\ owner'.at = "serve" /\ owner'.rules = owner.rules
      /\ owner'.ready = owner.ready \ {4} /\ owner'.hung = owner.hung \ {4}
      /\ owner'.in = left /\ owner'.out = owner.out /\ owner'.inputEof = owner.inputEof
      /\ owner'.socketEof = owner.socketEof
      /\ owner'.outputClosed <=> (owner.outputClosed \/ end)
  <2> DEFINE b == o.outputClosed \/ end
             c == o.inbound_shutdown \/ end
  <2>1. b \in BOOLEAN /\ c \in BOOLEAN /\ left \in ByteStreamType(Byte)
    BY <1>5 DEF GoodStream
  <2>2. b <=> (owner.outputClosed \/ end)
    BY <1>2
  <2> HIDE DEF b, c
  <2>3. /\ owner' \in OwnerType /\ owner'.at = o.at /\ owner'.rules = o.rules
        /\ owner'.ready = o.ready /\ owner'.hung = o.hung
        /\ owner'.in = left /\ owner'.out = o.out /\ owner'.inputEof = o.inputEof
        /\ owner'.socketEof = o.socketEof /\ owner'.outputClosed = b
    BY <1>2, <1>3, <2>1, Zenon DEF OwnerType, b, c
  <2> QED BY <1>2, <2>2, <2>3
<1>9. Shape'
  <2>1. stdout' \in Seq(Byte)
    BY <1>3, <1>6, SMTT(30)
  <2>2. owner'.ready \cup owner'.hung \subseteq owner'.rules /\ Buffer(owner'.in, InBuffer)
    BY <1>1, <1>2, <1>5, <1>8, SMTT(30) DEF Buffer, GoodStream
  <2> QED BY <1>3, <1>8, <2>1, <2>2, SMTT(30) DEF SocketInv, Shape
<1>10. Control'
  BY <1>2, <1>3, <1>8, SMTT(30) DEF SocketInv, Control, Active, eof
<1>11. Outbound'
  BY <1>3, <1>8 DEF SocketInv, Outbound, Full, Stopped
<1>12. Inbound'
  <2>1. owner'.outputClosed => eof(owner'.in)
    <3>1. owner.outputClosed => eof(owner.in)
      BY DEF SocketInv, Inbound
    <3> QED BY <1>7, <1>8, <3>1 DEF eof
  <2>2. 4 \in owner.rules
    BY <1>2 DEF SocketInv, Shape
  <2> QED BY <1>3, <1>5, <1>7, <1>8, <2>1, <2>2, SMTT(30) DEF SocketInv, Inbound, Stopped
<1>13. Leaving' /\ NoFailure'
  BY <1>3, <1>8 DEF SocketInv, Leaving, NoFailure
<1>14. Conserved'
  <2>1. stdout' \o left.stream = stdout \o owner.in.stream
    BY <1>3, <1>6
  <2> QED BY <1>3, <1>8, <2>1, Zenon DEF SocketInv, Conserved
<1> QED BY <1>9, <1>10, <1>11, <1>12, <1>13, <1>14 DEF SocketInv

(* Only rule 2 can see a hangup alone; its cancel callback ends the output *)
(* buffer, which by then is complete or full.                              *)
LEMMA OwnerHungUpKeeps ==
    ASSUME SocketInv, NEW r, Turn(owner, r), r \in owner.hung, OwnerHungUp(r),
           UNCHANGED <<conn, peer, thread, abort>>
    PROVE  SocketInv'
<1>1. r = 2
  BY DEF SocketInv, Control
<1> DEFINE o    == Served(owner, 2)
           rest == o.rules \ {2}
           d    == [o EXCEPT !.rules = rest]
           out  == end_input(owner.out)
<1>2. /\ owner.at = "serve" /\ ~ abort /\ \A x \in owner.ready \cup owner.hung : 2 <= x
      /\ o \in OwnerType /\ o.at = "serve" /\ o.rules = owner.rules
      /\ o.ready = owner.ready \ {2} /\ o.hung = owner.hung \ {2}
      /\ o.out = owner.out /\ o.in = owner.in
      /\ o.inputEof = owner.inputEof /\ o.socketEof = owner.socketEof
      /\ o.outputClosed = owner.outputClosed
  BY <1>1, OwnerServed
<1>3. /\ owner.ready \cup owner.hung \subseteq owner.rules /\ owner.rules \subseteq Rules
      /\ GoodStream(owner.out) /\ owner.out.capacity = OutBuffer
      /\ 1 \notin owner.ready
  <2>1. /\ owner.rules \subseteq Rules
        /\ GoodStream(owner.out) /\ owner.out.capacity = OutBuffer
    BY Fields DEF SocketInv
  <2>2. owner.ready \cup owner.hung \subseteq owner.rules
    BY DEF SocketInv, Shape
  <2>3. 1 \notin owner.ready
    BY <1>2
  <2> QED BY <2>1, <2>2, <2>3, SMTT(30)
<1>4. owner' = [d EXCEPT !.out = end_input(d.out), !.in = d.in]
  BY <1>1 DEF OwnerHungUp, Dropped
<1>5. UNCHANGED <<conn, peer, thread, abort, pair, stdin, stdout, fate>>
  BY DEF OwnerHungUp
<1>6. rest \in SUBSET Rules /\ rest = owner.rules \ {2}
  BY <1>2, <1>3
<1>7. /\ GoodStream(out) /\ out.capacity = OutBuffer /\ out.end_flag
      /\ out.stream = owner.out.stream /\ out.error = owner.out.error
      /\ Full(out) <=> Full(owner.out)
  BY <1>3, EndInputEffect DEF Full, remaining_capacity
<1> HIDE DEF o, rest
<1>8. /\ d \in OwnerType /\ d.rules = rest /\ d.at = o.at
      /\ d.ready = o.ready /\ d.hung = o.hung /\ d.out = o.out /\ d.in = o.in
      /\ d.inputEof = o.inputEof /\ d.socketEof = o.socketEof
      /\ d.outputClosed = o.outputClosed
  BY <1>2, <1>6 DEF OwnerType
<1> HIDE DEF d
<1>9. owner' = [d EXCEPT !.out = out, !.in = d.in]
  BY <1>2, <1>4, <1>8
<1> HIDE DEF out
<1>10. /\ owner' \in OwnerType /\ owner'.at = "serve" /\ owner'.rules = owner.rules \ {2}
       /\ owner'.ready = owner.ready \ {2} /\ owner'.hung = owner.hung \ {2}
       /\ owner'.out = out /\ owner'.in = owner.in /\ owner'.inputEof = owner.inputEof
       /\ owner'.socketEof = owner.socketEof /\ owner'.outputClosed = owner.outputClosed
  <2>1. out \in ByteStreamType(Byte)
    BY <1>7 DEF GoodStream
  <2>2. /\ owner' \in OwnerType /\ owner'.at = d.at /\ owner'.rules = d.rules
        /\ owner'.ready = d.ready /\ owner'.hung = d.hung
        /\ owner'.out = out /\ owner'.in = d.in /\ owner'.inputEof = d.inputEof
        /\ owner'.socketEof = d.socketEof /\ owner'.outputClosed = d.outputClosed
    BY <1>8, <1>9, <2>1, Zenon DEF OwnerType
  <2> QED BY <1>2, <1>6, <1>8, <2>2
<1>11. Shape'
  <2>1. Buffer(owner'.out, OutBuffer) /\ owner'.ready \cup owner'.hung \subseteq owner'.rules
    BY <1>3, <1>7, <1>10 DEF Buffer, GoodStream
  <2> QED BY <1>5, <1>10, <2>1, SMTT(30) DEF SocketInv, Shape
<1>12. Control'
  BY <1>2, <1>5, <1>10, SMTT(30) DEF SocketInv, Control, Active, eof
<1>13. Outbound'
  <2>1. pair.downShut /\ (stdin = OutLen \/ Full(owner.out))
    BY <1>1, <1>3 DEF SocketInv, Outbound
  <2>2. 2 \notin owner'.rules /\ 1 \notin owner'.ready /\ 2 \notin owner'.hung
    BY <1>3, <1>10
  <2>3. 1 \notin owner'.rules => 1 \notin owner.rules
    BY <1>10
  <2> QED BY <1>5, <1>7, <1>10, <2>1, <2>2, <2>3 DEF SocketInv, Outbound, Stopped
<1>14. Inbound'
  BY <1>5, <1>10 DEF SocketInv, Inbound, Full, Stopped
<1>15. Leaving' /\ NoFailure'
  BY <1>5, <1>10 DEF SocketInv, Leaving, NoFailure
<1>16. Conserved'
  BY <1>5, <1>7, <1>10, Zenon DEF SocketInv, Conserved
<1> QED BY <1>11, <1>12, <1>13, <1>14, <1>15, <1>16, SMTT(30) DEF SocketInv

(* Rules are cancelled once their descriptor is through; what the cancel   *)
(* callbacks end has ended by then.                                        *)
LEMMA OwnerSetupEffect ==
    ASSUME SocketInv
    PROVE  /\ OwnerSetup \in OwnerType /\ OwnerSetup.rules \subseteq owner.rules
           /\ 1 \notin OwnerSetup.rules => stdin = OutLen
           /\ 2 \in OwnerSetup.rules <=> 2 \in owner.rules
           /\ 3 \in OwnerSetup.rules => ~ owner.socketEof
           /\ 3 \notin OwnerSetup.rules => owner.in.end_flag
           /\ 4 \notin OwnerSetup.rules => owner.outputClosed
           /\ OwnerSetup.ready = owner.ready /\ OwnerSetup.hung = owner.hung
           /\ OwnerSetup.inputEof = owner.inputEof
           /\ OwnerSetup.socketEof = owner.socketEof
           /\ OwnerSetup.outputClosed = owner.outputClosed
           /\ GoodStream(OwnerSetup.out) /\ OwnerSetup.out.capacity = OutBuffer
           /\ OwnerSetup.out.stream = owner.out.stream
           /\ ~ OwnerSetup.out.error
           /\ OwnerSetup.out.end_flag => owner.out.end_flag \/ stdin = OutLen
           /\ Full(OwnerSetup.out) <=> Full(owner.out)
           /\ GoodStream(OwnerSetup.in) /\ OwnerSetup.in.capacity = InBuffer
           /\ OwnerSetup.in.stream = owner.in.stream
           /\ ~ OwnerSetup.in.error
           /\ OwnerSetup.in.end_flag <=> owner.in.end_flag
           /\ eof(owner.in) => eof(OwnerSetup.in)
<1> DEFINE rest == owner.rules \ Cancelled
           out  == IF 1 \in Cancelled THEN end_input(owner.out) ELSE owner.out
           in   == IF {3, 4} \cap Cancelled # {} THEN end_input(owner.in) ELSE owner.in
<1>1. /\ owner \in OwnerType /\ owner.rules \subseteq Rules
      /\ GoodStream(owner.out) /\ owner.out.capacity = OutBuffer /\ ~ owner.out.error
      /\ GoodStream(owner.in) /\ owner.in.capacity = InBuffer /\ ~ owner.in.error
  <2>1. ~ owner.out.error /\ ~ owner.in.error
    BY DEF SocketInv, Outbound, Inbound
  <2> QED BY <2>1, Fields DEF SocketInv
<1>2. /\ 1 \in Cancelled <=> 1 \in owner.rules /\ owner.inputEof
      /\ 2 \notin Cancelled
      /\ 3 \in Cancelled <=> 3 \in owner.rules /\ owner.socketEof
      /\ 4 \in Cancelled <=> 4 \in owner.rules /\ owner.outputClosed
  BY Zenon DEF Cancelled
<1>3. OwnerSetup = [owner EXCEPT !.rules = rest, !.out = out, !.in = in]
  BY SMTT(30) DEF OwnerSetup
<1>4. /\ rest \in SUBSET Rules /\ rest \subseteq owner.rules
      /\ 1 \notin rest => stdin = OutLen
      /\ 2 \in rest <=> 2 \in owner.rules
      /\ 3 \in rest => ~ owner.socketEof
      /\ 3 \notin rest => owner.in.end_flag
      /\ 4 \notin rest => owner.outputClosed
  BY <1>1, <1>2 DEF SocketInv, Outbound, Inbound
<1>5. /\ GoodStream(out) /\ out.capacity = OutBuffer /\ out.stream = owner.out.stream
      /\ ~ out.error
      /\ out.end_flag => owner.out.end_flag \/ stdin = OutLen
      /\ Full(out) <=> Full(owner.out)
  <2>1. CASE 1 \in Cancelled
    <3>1. out = end_input(owner.out) /\ stdin = OutLen
      BY <1>2, <2>1 DEF SocketInv, Outbound
    <3> HIDE DEF out
    <3> QED BY <1>1, <3>1, EndInputEffect DEF Full, remaining_capacity
  <2>2. CASE 1 \notin Cancelled
    BY <1>1, <2>2
  <2> QED BY <2>1, <2>2
<1>6. /\ GoodStream(in) /\ in.capacity = InBuffer /\ in.stream = owner.in.stream
      /\ ~ in.error
      /\ in.end_flag <=> owner.in.end_flag
      /\ in.size = owner.in.size
  <2>1. CASE {3, 4} \cap Cancelled # {}
    <3>1. in = end_input(owner.in) /\ owner.in.end_flag
      BY <1>2, <2>1 DEF SocketInv, Inbound, eof
    <3> HIDE DEF in
    <3> QED BY <1>1, <3>1, EndInputEffect
  <2>2. CASE {3, 4} \cap Cancelled = {}
    BY <1>1, <2>2
  <2> QED BY <2>1, <2>2
<1> HIDE DEF rest, out, in
<1>7. /\ OwnerSetup \in OwnerType /\ OwnerSetup.rules = rest
      /\ OwnerSetup.ready = owner.ready /\ OwnerSetup.hung = owner.hung
      /\ OwnerSetup.inputEof = owner.inputEof
      /\ OwnerSetup.socketEof = owner.socketEof
      /\ OwnerSetup.outputClosed = owner.outputClosed
      /\ OwnerSetup.out = out /\ OwnerSetup.in = in
  <2>1. out \in ByteStreamType(Byte) /\ in \in ByteStreamType(Byte)
    BY <1>5, <1>6 DEF GoodStream
  <2> QED BY <1>1, <1>3, <1>4, <2>1, Zenon DEF OwnerType
<1>8. eof(owner.in) => eof(in)
  BY <1>6 DEF eof
<1> QED BY <1>4, <1>5, <1>6, <1>7, <1>8, SMTT(20)

(* The rules that want to run, of a loop whose streams have no error.      *)
LEMMA OwnerWants ==
    ASSUME NEW o, o.rules \subseteq Rules, ~ o.out.error, ~ o.in.error,
           GoodStream(o.out), GoodStream(o.in)
    PROVE  /\ OwnerInterest(o) \subseteq o.rules
           /\ 1 \in OwnerInterest(o) <=> 1 \in o.rules /\ ~ Full(o.out)
           /\ 2 \in o.rules /\ o.out.stream # <<>> => 2 \in OwnerInterest(o)
           /\ 3 \in OwnerInterest(o) <=> 3 \in o.rules /\ ~ Full(o.in)
           /\ 4 \in o.rules /\ o.in.stream # <<>> => 4 \in OwnerInterest(o)
<1>1. /\ Full(o.out) <=> ~ (remaining_capacity(o.out) > 0)
      /\ Full(o.in) <=> ~ (remaining_capacity(o.in) > 0)
  <2>1. remaining_capacity(o.out) \in Nat /\ remaining_capacity(o.in) \in Nat
    BY StreamEmpty, StreamFields
  <2> QED BY <2>1 DEF Full
<1> QED BY <1>1, Zenon DEF OwnerInterest

(* A full buffer holds something. *)
LEMMA FullHolds ==
    ASSUME NEW st, GoodStream(st), st.capacity \in {OutBuffer, InBuffer}, Full(st)
    PROVE  st.stream # <<>>
BY StreamEmpty, StreamFields, SocketAssumption DEF Full

LEMMA OwnerPollKeeps ==
    ASSUME SocketInv, NEW full \in BOOLEAN, OwnerPoll(full)
    PROVE  SocketInv'
<1> DEFINE o     == OwnerSetup
           want  == OwnerInterest(o)
           hup   == IF Hangup THEN {2, 3} ELSE {}
           ready == OwnerReady(full)
<1>1. /\ owner.at = "poll" /\ ~ abort /\ owner.ready = {} /\ owner.hung = {}
  BY DEF SocketInv, Control, OwnerPoll
<1>2. /\ owner' = IF want = {} THEN [o EXCEPT !.at = "leave"] ELSE Polled(o, want, ready, hup)
      /\ UNCHANGED <<conn, peer, thread, pair, stdin, stdout, abort, fate>>
  BY DEF OwnerPoll
<1>3. /\ o \in OwnerType /\ o.rules \subseteq owner.rules
      /\ 1 \notin o.rules => stdin = OutLen
      /\ 2 \in o.rules <=> 2 \in owner.rules
      /\ 3 \in o.rules => ~ owner.socketEof
      /\ 3 \notin o.rules => owner.in.end_flag
      /\ 4 \notin o.rules => owner.outputClosed
      /\ o.ready = {} /\ o.hung = {} /\ o.inputEof = owner.inputEof
      /\ o.socketEof = owner.socketEof /\ o.outputClosed = owner.outputClosed
  BY <1>1, OwnerSetupEffect
<1>4. /\ GoodStream(o.out) /\ o.out.capacity = OutBuffer /\ o.out.stream = owner.out.stream
      /\ ~ o.out.error
      /\ o.out.end_flag => owner.out.end_flag \/ stdin = OutLen
      /\ Full(o.out) <=> Full(owner.out)
  BY OwnerSetupEffect
<1>5. /\ GoodStream(o.in) /\ o.in.capacity = InBuffer /\ o.in.stream = owner.in.stream
      /\ ~ o.in.error
      /\ o.in.end_flag <=> owner.in.end_flag
      /\ eof(owner.in) => eof(o.in)
  BY OwnerSetupEffect
<1> HIDE DEF o
<1>6. /\ want \subseteq o.rules /\ o.rules \in SUBSET Rules
      /\ 1 \in want <=> 1 \in o.rules /\ ~ Full(o.out)
      /\ 2 \in o.rules /\ o.out.stream # <<>> => 2 \in want
      /\ 3 \in want <=> 3 \in o.rules /\ ~ Full(o.in)
      /\ 4 \in o.rules /\ o.in.stream # <<>> => 4 \in want
  <2>1. o.rules \in SUBSET Rules
    BY <1>3 DEF OwnerType
  <2> QED BY <1>4, <1>5, <2>1, OwnerWants
<1>7. /\ 1 \in ready
      /\ 3 \in ready <=> (pair.up # <<>> \/ pair.upShut)
      /\ hup \subseteq {2, 3}
      /\ hup # {} => 3 \in ready /\ pair.downShut
  BY DEF OwnerReady, Hangup
<1> HIDE DEF want, hup, ready
<1>8. /\ owner' \in OwnerType /\ owner'.rules = o.rules /\ owner'.out = o.out
      /\ owner'.in = o.in /\ owner'.inputEof = owner.inputEof
      /\ owner'.socketEof = owner.socketEof /\ owner'.outputClosed = owner.outputClosed
      /\ owner'.at = IF want = {} THEN "leave" ELSE "serve"
      /\ owner'.ready = want \cap ready
      /\ owner'.hung = (want \ ready) \cap hup
  <2> DEFINE due == want \cap ready
             cut == (want \ ready) \cap hup
  <2>1. due \in SUBSET Rules /\ cut \in SUBSET Rules
    BY <1>6
  <2>2. want = {} => due = {} /\ cut = {}
    OBVIOUS
  <2>3. want # {} => owner' = [o EXCEPT !.at = "serve", !.ready = due, !.hung = cut]
    BY <1>2 DEF Polled
  <2> HIDE DEF due, cut
  <2>4. /\ owner' \in OwnerType /\ owner'.rules = o.rules /\ owner'.out = o.out
        /\ owner'.in = o.in /\ owner'.inputEof = o.inputEof
        /\ owner'.socketEof = o.socketEof /\ owner'.outputClosed = o.outputClosed
        /\ owner'.at = IF want = {} THEN "leave" ELSE "serve"
        /\ owner'.ready = due /\ owner'.hung = cut
    <3>1. CASE want = {}
      BY <1>2, <1>3, <2>2, <3>1 DEF OwnerType
    <3>2. CASE want # {}
      BY <1>3, <2>1, <2>3, <3>2, ZenonT(60) DEF OwnerType
    <3> QED BY <3>1, <3>2
  <2> QED BY <1>3, <2>4 DEF due, cut
<1>9. owner'.hung \subseteq {2} /\ owner'.ready \cup owner'.hung \subseteq owner'.rules
  <2>1. ASSUME NEW x \in owner'.hung PROVE x = 2
    BY <1>7, <1>8, Zenon
  <2> QED BY <1>6, <1>8, <2>1
<1>10. Shape'
  <2>1. Buffer(owner'.out, OutBuffer) /\ Buffer(owner'.in, InBuffer)
    BY <1>4, <1>5, <1>8 DEF Buffer, GoodStream
  <2> QED BY <1>2, <1>8, <1>9, <2>1, SMTT(30) DEF SocketInv, Shape
<1>11. Control'
  BY <1>1, <1>2, <1>8, <1>9, SMTT(30) DEF SocketInv, Control, Active, eof
<1>12. Outbound'
  <2>1. 1 \in owner'.ready => ~ Full(o.out)
    BY <1>6, <1>8
  <2>2. 1 \notin owner'.ready => stdin = OutLen \/ Full(o.out)
    BY <1>3, <1>6, <1>7, <1>8, SMTT(30)
  <2>3. 2 \in owner'.hung \/ 2 \notin owner'.rules => pair.downShut
    BY <1>3, <1>7, <1>8, SMTT(30) DEF SocketInv, Outbound
  <2>4. owner'.inputEof \/ 1 \notin owner'.rules => stdin = OutLen
    BY <1>3, <1>8 DEF SocketInv, Outbound
  <2> QED BY <1>2, <1>3, <1>4, <1>8, <2>1, <2>2, <2>3, <2>4, SMTT(30) DEF SocketInv, Outbound, Stopped
<1>13. Inbound'
  <2>1. 3 \in owner'.ready =>
          ~ owner.socketEof /\ ~ Full(o.in) /\ (pair.up # <<>> \/ pair.upShut)
    BY <1>3, <1>6, <1>7, <1>8
  <2> QED BY <1>2, <1>3, <1>5, <1>8, <2>1, SMTT(30) DEF SocketInv, Inbound, Stopped
<1>14. Leaving'
  <2> SUFFICES ASSUME want = {}
               PROVE  /\ o.in.end_flag
                      /\ conn.in.error \/ (stdin = OutLen /\ o.out.stream = <<>>)
    BY <1>2, <1>8 DEF Leaving
  <2>1. o.in.end_flag
    <3>1. CASE 3 \notin o.rules
      BY <1>3, <1>5, <3>1, SMTT(30)
    <3>2. CASE Full(o.in)
      <4>1. 4 \notin o.rules
        BY <1>5, <1>6, <3>2, FullHolds, SMTT(30)
      <4> QED BY <1>3, <1>5, <4>1 DEF SocketInv, Inbound, eof
    <3> QED BY <1>6, <3>1, <3>2
  <2>2. CASE 2 \notin o.rules
    BY <1>1, <1>3, <1>4, <2>1, <2>2, SMTT(20) DEF SocketInv, Outbound, Stopped
  <2>3. CASE 2 \in o.rules
    <3>1. o.out.stream = <<>>
      BY <1>6, <2>3
    <3>2. ~ Full(o.out)
      BY <1>4, <3>1, FullHolds
    <3> QED BY <1>3, <1>6, <2>1, <3>1, <3>2
  <2> QED BY <2>2, <2>3
<1>15. Conserved' /\ NoFailure'
  BY <1>2, <1>4, <1>5, <1>8, Zenon DEF SocketInv, Conserved, NoFailure
<1> QED BY <1>10, <1>11, <1>12, <1>13, <1>14, <1>15, SMTT(30) DEF SocketInv

-----------------------------------------------------------------------------
LEMMA InitGood == Init => SocketInv
<1> SUFFICES ASSUME Init PROVE SocketInv
  OBVIOUS
<1> DEFINE newOut == NewByteStream(OutBuffer)
           newIn  == NewByteStream(InBuffer)
<1>1. /\ GoodStream(newOut) /\ newOut.capacity = OutBuffer /\ newOut.stream = <<>>
      /\ ~ newOut.end_flag /\ ~ newOut.error /\ newOut \in ByteStreamType(Byte)
      /\ GoodStream(newIn) /\ newIn.capacity = InBuffer /\ newIn.stream = <<>>
      /\ ~ newIn.end_flag /\ ~ newIn.error /\ newIn \in ByteStreamType(Byte)
      /\ PipeRoom \in Nat /\ OutLen \in Nat /\ InLen \in Nat
      /\ 1 \in 0..MaxSegs
  BY NewStreamGood, StreamFields, SocketAssumption
<1>2. conn.state \in {"SYN_SENT", "LISTEN"} /\ conn.out = newOut /\ conn.in = newIn
      /\ ~ conn.finAcked
  BY Zenon DEF Init
<1>3. owner.out = newOut /\ owner.in = newIn /\ owner.at \in {"accept", "connect"}
      /\ owner.rules = Rules /\ owner.ready = {} /\ owner.hung = {}
      /\ ~ owner.inputEof /\ ~ owner.socketEof /\ ~ owner.outputClosed
  BY DEF Init, Rules
<1>4. /\ thread.at = "poll" /\ thread.rules = Rules /\ thread.ready = {} /\ thread.hung = {}
      /\ ~ thread.eof /\ ~ thread.outbound_shutdown
  BY DEF Init, Rules
<1>5. /\ peer.got = <<>> /\ peer.sent = 0 /\ pair.up = <<>> /\ pair.down = <<>>
      /\ pair.upShut = FALSE /\ pair.downShut = FALSE /\ stdin = 0 /\ stdout = <<>>
      /\ abort = FALSE /\ fate = "running"
  BY DEF Init
<1> HIDE DEF newOut, newIn
<1>6. conn \in ConnType
  BY <1>1, Zenon DEF Init, ConnType, newOut, newIn
<1>7. thread \in ThreadType
  BY Zenon DEF Init, ThreadType, Rules
<1>8. owner \in OwnerType
  <2>1. owner.at \in {"accept", "connect"} /\ 1..4 \in SUBSET Rules /\ {} \in SUBSET Rules
    BY <1>3 DEF Rules
  <2> QED BY <1>1, <2>1, Zenon DEF Init, OwnerType, newOut, newIn
<1>9. pair \in PairType /\ peer \in [got : Seq(Byte), sent : 0..InLen]
  <2>1. <<>> \in Seq(Byte) /\ 0 \in 0..InLen
    BY <1>1
  <2>2. /\ pair = [up |-> <<>>, down |-> <<>>, upShut |-> FALSE, downShut |-> FALSE]
        /\ peer = [got |-> <<>>, sent |-> 0]
    BY DEF Init
  <2> QED BY <2>1, <2>2 DEF PairType
<1>10. Shape
  <2>1. Buffer(newOut, OutBuffer) /\ Buffer(newIn, InBuffer) /\ Len(pair.up) = 0 /\ Len(pair.down) = 0
    BY <1>1, <1>5 DEF Buffer, GoodStream
  <2>2. stdin \in 0..OutLen /\ stdout \in Seq(Byte)
    BY <1>1, <1>5
  <2>3. Len(pair.up) <= PipeRoom /\ Len(pair.down) <= PipeRoom
    BY <1>1, <2>1
  <2>4. GoodConn(conn) /\ Buffer(owner.out, OutBuffer) /\ Buffer(owner.in, InBuffer)
    BY <1>2, <1>3, <1>6, <2>1 DEF GoodConn
  <2>5. /\ thread.ready \cup thread.hung \subseteq thread.rules
        /\ owner.ready \cup owner.hung \subseteq owner.rules
    BY <1>3, <1>4, SMTT(30)
  <2> QED BY <1>5, <1>7, <1>8, <1>9, <2>2, <2>3, <2>4, <2>5, Zenon DEF Shape
<1>11. Control
  BY <1>1, <1>2, <1>3, <1>4, <1>5, SMTT(30) DEF Control, Rules, Active
<1>12. Outbound
  BY <1>1, <1>2, <1>3, <1>4, <1>5, SMTT(20) DEF Outbound, Rules
<1>13. Inbound
  BY <1>1, <1>2, <1>3, <1>5 DEF Inbound, Rules
<1>14. Conserved
  <2>1. BytesFrom(0, 0) = <<>>
    BY BytesFromParts
  <2>2. <<>> \o <<>> = <<>>
    OBVIOUS
  <2> QED BY <1>1, <1>2, <1>3, <1>5, <2>1, <2>2, Zenon DEF Conserved
<1> QED BY <1>3, <1>5, <1>10, <1>11, <1>12, <1>13, <1>14 DEF SocketInv, Leaving, NoFailure

LEMMA ThreadServeKeeps ==
    ASSUME SocketInv, NEW r \in 1..4, ThreadServe(r)
    PROVE  SocketInv'
<1>1. Turn(thread, r) /\ UNCHANGED <<owner, stdin, stdout, abort>>
  BY DEF ThreadServe
<1>2. CASE r \in thread.hung
  BY <1>1, <1>2, ThreadHungUpKeeps DEF ThreadServe
<1>3. CASE r \notin thread.hung /\ r = 1 /\ Rule1
  <2>1. thread' = Served(thread, 1) /\ UNCHANGED <<pair, fate>> /\ segment_received
    BY <1>3 DEF Rule1
  <2>2. CASE Open \/ AckEnd \/ Reset \/ Repeated
    BY <1>1, <1>3, <2>1, <2>2, QuietSegmentKeeps
  <2>3. CASE BringByte
    BY <1>1, <1>3, <2>1, <2>3, BringByteKeeps
  <2>4. CASE BringEnd
    BY <1>1, <1>3, <2>1, <2>4, BringEndKeeps, SMTT(30)
  <2>5. CASE AckByte
    BY <1>1, <1>3, <2>1, <2>5, AckByteKeeps
  <2> QED BY <2>1, <2>2, <2>3, <2>4, <2>5 DEF segment_received
<1>4. CASE r \notin thread.hung /\ r = 2 /\ Rule2
  BY <1>1, <1>4, Rule2Keeps
<1>5. CASE r \notin thread.hung /\ r = 3 /\ Rule3
  BY <1>1, <1>5, Rule3Keeps
<1>6. CASE r \notin thread.hung /\ r = 4 /\ Rule4
  BY <1>1, <1>6, Rule4Keeps
<1> QED BY <1>2, <1>3, <1>4, <1>5, <1>6, SMTT(30) DEF ThreadServe

LEMMA OwnerServeKeeps ==
    ASSUME SocketInv, NEW r \in 1..4, OwnerServe(r)
    PROVE  SocketInv'
<1>1. Turn(owner, r) /\ UNCHANGED <<conn, peer, thread, abort>>
  BY DEF OwnerServe
<1>2. CASE r \in owner.hung
  BY <1>1, <1>2, OwnerHungUpKeeps DEF OwnerServe
<1>3. CASE r \notin owner.hung /\ r = 1 /\ CopyRule1
  BY <1>1, <1>3, CopyRule1Keeps, SMTT(30)
<1>4. CASE r \notin owner.hung /\ r = 2 /\ CopyRule2
  BY <1>1, <1>4, CopyRule2Keeps
<1>5. CASE r \notin owner.hung /\ r = 3 /\ CopyRule3
  BY <1>1, <1>5, CopyRule3Keeps
<1>6. CASE r \notin owner.hung /\ r = 4 /\ CopyRule4
  BY <1>1, <1>6, CopyRule4Keeps
<1> QED BY <1>2, <1>3, <1>4, <1>5, <1>6 DEF OwnerServe

LEMMA StutterKeeps == SocketInv /\ UNCHANGED vars => SocketInv'
<1> SUFFICES ASSUME SocketInv, UNCHANGED vars PROVE SocketInv'
  OBVIOUS
<1>1. UNCHANGED <<conn, peer, thread, pair, owner, stdin, stdout, abort, fate>>
  BY DEF vars
<1>2. Shape'
  BY <1>1 DEF SocketInv, Shape
<1>3. Control'
  BY <1>1 DEF SocketInv, Control, Active
<1>4. Outbound'
  BY <1>1, SMTT(30) DEF SocketInv, Outbound, Stopped
<1>5. Inbound'
  BY <1>1 DEF SocketInv, Inbound, Stopped
<1>6. Leaving' /\ Conserved' /\ NoFailure'
  BY <1>1, Zenon DEF SocketInv, Leaving, Conserved, NoFailure
<1> QED BY <1>2, <1>3, <1>4, <1>5, <1>6 DEF SocketInv

LEMMA StepKeeps == SocketInv /\ [Next]_vars => SocketInv'
<1> SUFFICES ASSUME SocketInv, [Next]_vars PROVE SocketInv'
  OBVIOUS
<1>1. CASE StartThread
  BY <1>1, StartThreadKeeps
<1>2. ASSUME NEW arrived \in BOOLEAN, NEW queued \in BOOLEAN, ThreadPoll(arrived, queued)
      PROVE  SocketInv'
  BY <1>2, ThreadPollKeeps
<1>3. ASSUME NEW r \in 1..4, ThreadServe(r) PROVE SocketInv'
  BY <1>3, ThreadServeKeeps
<1>4. CASE ThreadTick
  BY <1>4, ThreadTickKeeps
<1>5. CASE ThreadExit
  BY <1>5, ThreadExitKeeps
<1>6. ASSUME NEW full \in BOOLEAN, OwnerPoll(full) PROVE SocketInv'
  BY <1>6, OwnerPollKeeps
<1>7. ASSUME NEW r \in 1..4, OwnerServe(r) PROVE SocketInv'
  BY <1>7, OwnerServeKeeps
<1>8. CASE OwnerTurn
  BY <1>8, OwnerTurnKeeps
<1>9. CASE WaitUntilClosed
  BY <1>9, WaitUntilClosedKeeps
<1>10. CASE Join
  BY <1>10, JoinKeeps
<1>11. CASE Abandon
  BY <1>11, AbandonKeeps
<1>12. CASE UNCHANGED vars
  BY <1>12, StutterKeeps
<1> QED BY <1>1, <1>2, <1>3, <1>4, <1>5, <1>6, <1>7, <1>8, <1>9, <1>10, <1>11, <1>12, SMTT(30)
        DEF Next, ThreadStep, OwnerStep

(* The invariant: the state of both loops, of the pipe between them and of *)
(* the connection, after every callback and every result of poll().        *)
THEOREM SocketInvariant == Spec => []SocketInv
BY InitGood, StepKeeps, PTL DEF Spec

(* Loops serve only rules they still have, and the buffers, the pipe and   *)
(* segments_out keep their bounds, for all sizes of them.                  *)
THEOREM SocketTypeCorrect == Spec => []TypeOK
<1>1. SocketInv => TypeOK
  <2> SUFFICES ASSUME SocketInv PROVE TypeOK
    OBVIOUS
  <2>1. IsLoop(thread)
    BY Fields DEF SocketInv, IsLoop, LoopType, ThreadType, Rules
  <2>2. IsLoop(owner)
    BY Fields DEF SocketInv, IsLoop, LoopType, OwnerType, Rules
  <2>3. \A s \in {conn.out, conn.in, owner.out, owner.in} :
          s.size = Len(s.stream) /\ s.size <= s.capacity
    BY Fields, StreamFields, SMTT(30) DEF SocketInv
  <2>4. peer.sent \in 0..InLen /\ conn.segs \in 0..MaxSegs
    BY Fields DEF SocketInv
  <2> QED BY <2>1, <2>2, <2>3, <2>4 DEF TypeOK, SocketInv, Shape
<1> QED BY <1>1, SocketInvariant, PTL

(* Between standard input and the peer, and between the peer and standard  *)
(* output, bidirectional_stream_copy, the pipe and the four rules of       *)
(* _initialize_TCP lose, repeat and reorder nothing, and an end of file    *)
(* is passed on only behind the last byte unless the connection failed.    *)
THEOREM SocketStreamsIntact == Spec => []StreamsIntact
<1>1. SocketInv => StreamsIntact
  <2> SUFFICES ASSUME SocketInv, owner.outputClosed, ~ conn.in.error
               PROVE  Len(stdout) = InLen
    BY Zenon DEF StreamsIntact, SocketInv, Conserved, Outbound
  <2>1. GoodStream(owner.in) /\ stdout \in Seq(Byte) /\ InLen \in Nat
    BY Fields, SocketAssumption, Zenon DEF SocketInv, Shape
  <2>2. /\ owner.in.size = 0 /\ peer.sent = InLen
        /\ conn.in.stream = <<>> /\ pair.up = <<>>
    BY DEF SocketInv, Inbound, eof
  <2>3. owner.in.stream = <<>>
    BY <2>1, <2>2, StreamEmpty
  <2>4. stdout \o <<>> = stdout
    BY <2>1
  <2>5. stdout \o <<>> \o <<>> \o <<>> = BytesFrom(0, InLen)
    BY <2>2, <2>3 DEF SocketInv, Conserved
  <2>6. stdout = BytesFrom(0, InLen)
    BY <2>4, <2>5
  <2> QED BY <2>1, <2>6, BytesFromParts
<1> QED BY <1>1, SocketInvariant, PTL

(* Neither event loop throws, and nobody writes to a pipe that is shut     *)
(* down unless the connection was reset.                                   *)
THEOREM SocketNoFailure == Spec => []NoFailure
<1>1. SocketInv => NoFailure
  BY DEF SocketInv
<1> QED BY <1>1, SocketInvariant, PTL
=============================================================================
