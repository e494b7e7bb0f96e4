--------------------------- MODULE ByteStreamProofs ---------------------------
(***************************************************************************)
(* Facts about bytes, sequences of them and ByteStream that the proofs of  *)
(* the sender, the reassembler and the socket rest on.                     *)
(***************************************************************************)
EXTENDS ByteStreamOps, SequenceTheorems, WellFoundedInduction, TLAPS

(* A nonempty set of numbers has a least one. *)
LEMMA LeastNat ==
    ASSUME NEW T, T \subseteq Nat, T # {}
    PROVE  \E x \in T : \A y \in T : x <= y
<1>1. PICK x \in T : \A y \in T : ~(<<y, x>> \in OpToRel(<, Nat))
  BY NatLessThanWellFounded, WFMin, Zenon
<1>2. ASSUME NEW y \in T PROVE x <= y
  <2>1. ~(<<y, x>> \in OpToRel(<, Nat))
    BY <1>1, Zenon
  <2>2. ~(y < x)
    BY <2>1, SMTT(30) DEF OpToRel
  <2> QED BY <2>2
<1> QED BY <1>2

(* A sequence is what is taken from its front followed by what is left. *)
LEMMA TakenAndLeft ==
    ASSUME NEW S, NEW q \in Seq(S), NEW n \in 0 .. Len(q)
    PROVE  /\ SubSeq(q, 1, n) \in Seq(S) /\ Len(SubSeq(q, 1, n)) = n
           /\ SubSeq(q, n + 1, Len(q)) \in Seq(S)
           /\ Len(SubSeq(q, n + 1, Len(q))) = Len(q) - n
           /\ SubSeq(q, 1, n) \o SubSeq(q, n + 1, Len(q)) = q
<1>1. Len(q) \in Nat /\ \A i \in 1 .. Len(q) : q[i] \in S
  BY LenProperties, ElementOfSeq
<1>2. SubSeq(q, 1, n) \in Seq(S) /\ Len(SubSeq(q, 1, n)) = n
  BY <1>1, SubSeqProperties
<1>3. /\ SubSeq(q, n + 1, Len(q)) \in Seq(S)
      /\ Len(SubSeq(q, n + 1, Len(q))) = Len(q) - n
  BY <1>1, SubSeqProperties
<1>4. SubSeq(q, 1, n) \o SubSeq(q, n + 1, Len(q)) = SubSeq(q, 1, Len(q))
  <2>1. 1 \in 1 .. Len(q) + 1 /\ n \in 1 - 1 .. Len(q) /\ Len(q) \in n .. Len(q)
    BY <1>1
  <2> QED BY <2>1, ConcatAdjacentSubSeq, Zenon
<1>5. SubSeq(q, 1, Len(q)) = q
  BY SubSeqFull
<1> QED BY <1>2, <1>3, <1>4, <1>5, Zenon

LEMMA Joined == \A a, b, c \in Seq(Byte) : (a \o b) \o c = a \o (b \o c)
<1> TAKE a, b, c \in Seq(Byte)
<1> QED OBVIOUS

LEMMA HeadPassedOn ==
    ASSUME NEW a \in Seq(Byte), NEW q \in Seq(Byte), q # <<>>
    PROVE  /\ Append(a, Head(q)) \in Seq(Byte)
           /\ Append(a, Head(q)) \o SubSeq(q, 2, Len(q)) = a \o q
<1>1. Head(q) \in Byte /\ Tail(q) \in Seq(Byte)
  BY HeadTailProperties
<1>2. Tail(q) = SubSeq(q, 2, Len(q))
  BY TailIsSubSeq
<1>3. <<Head(q)>> \in Seq(Byte) /\ <<Head(q)>> \o Tail(q) = q
  BY <1>1
<1>4. Append(a, Head(q)) = a \o <<Head(q)>>
  BY <1>1, AppendIsConcat
<1>5. (a \o <<Head(q)>>) \o Tail(q) = a \o (<<Head(q)>> \o Tail(q))
  BY <1>1, <1>3, Joined, Zenon
<1> QED BY <1>1, <1>2, <1>3, <1>4, <1>5, AppendProperties, Zenon

(* The bytes of a stream, in two parts. *)
LEMMA BytesFromParts ==
    ASSUME NEW a \in Nat, NEW n \in Nat, NEW m \in Nat
    PROVE  /\ BytesFrom(a, n) \in Seq(Byte) /\ Len(BytesFrom(a, n)) = n
           /\ \A j \in 1 .. n : BytesFrom(a, n)[j] = a + j - 1
           /\ BytesFrom(a, n + m) = BytesFrom(a, n) \o BytesFrom(a + n, m)
<1>1. ASSUME NEW b \in Nat, NEW k \in Nat
      PROVE  /\ BytesFrom(b, k) \in Seq(Byte) /\ Len(BytesFrom(b, k)) = k
             /\ \A j \in 1 .. k : BytesFrom(b, k)[j] = b + j - 1
  BY DEF BytesFrom, Byte
<1> DEFINE u == BytesFrom(a, n + m)
           v == BytesFrom(a, n)
           w == BytesFrom(a + n, m)
<1>2. /\ u \in Seq(Byte) /\ Len(u) = n + m
      /\ \A j \in 1 .. n + m : u[j] = a + j - 1
  BY <1>1
<1>3. /\ v \in Seq(Byte) /\ Len(v) = n
      /\ \A j \in 1 .. n : v[j] = a + j - 1
  BY <1>1
<1>4. /\ w \in Seq(Byte) /\ Len(w) = m
      /\ \A j \in 1 .. m : w[j] = a + n + j - 1
  <2>1. a + n \in Nat
    OBVIOUS
  <2> QED BY <1>1, <2>1
<1> HIDE DEF u, v, w
<1>5. /\ v \o w \in Seq(Byte) /\ Len(v \o w) = n + m
      /\ \A i \in 1 .. n + m : (v \o w)[i] = IF i <= n THEN v[i] ELSE w[i - n]
  BY <1>3, <1>4, ConcatProperties, ZenonT(60)
<1>6. \A i \in 1 .. n + m : (v \o w)[i] = u[i]
  BY <1>2, <1>3, <1>4, <1>5
<1>7. u = v \o w
  BY <1>2, <1>5, <1>6, SeqEqual, Zenon
<1> QED BY <1>1, <1>7, Zenon DEF u, v, w
(* The bytes that are next go behind those that are there. *)
LEMMA NextAdded ==
    ASSUME NEW old \in Seq(Byte), NEW q \in Seq(Byte), NEW n \in Nat, NEW m \in Nat
    PROVE  old \o q = BytesFrom(0, n)
             => old \o (q \o BytesFrom(n, m)) = BytesFrom(0, n + m)
<1> DEFINE t == BytesFrom(n, m)
<1>1. t \in Seq(Byte)
  BY BytesFromParts
<1>2. BytesFrom(0, n + m) = BytesFrom(0, n) \o t
  <2>1. BytesFrom(0, n + m) = BytesFrom(0, n) \o BytesFrom(0 + n, m)
    BY BytesFromParts, Zenon
  <2>2. 0 + n = n
    OBVIOUS
  <2> QED BY <2>1, <2>2
<1> HIDE DEF t
<1>3. (old \o q) \o t = old \o (q \o t)
  BY <1>1, Joined, Zenon
<1> QED BY <1>2, <1>3, Zenon DEF t

-----------------------------------------------------------------------------
(* The counters of a stream agree with what it holds. *)
StreamFits(st) == st.size = Len(st.stream) /\ st.size <= st.capacity

GoodStream(st) == st \in ByteStreamType(Byte) /\ StreamFits(st)

LEMMA StreamFields ==
    ASSUME NEW st, GoodStream(st)
    PROVE  /\ st \in ByteStreamType(Byte) /\ st.end_flag \in BOOLEAN
           /\ st.capacity \in Nat /\ st.size \in Nat /\ st.stream \in Seq(Byte)
           /\ st.bytes_w \in Nat /\ st.bytes_r \in Nat /\ st.error \in BOOLEAN
           /\ st.size = Len(st.stream) /\ st.size <= st.capacity
  BY DEF GoodStream, StreamFits, ByteStreamType

LEMMA NewStreamGood ==
    ASSUME NEW c \in Nat
    PROVE  /\ GoodStream(NewByteStream(c))
           /\ NewByteStream(c).capacity = c /\ NewByteStream(c).stream = <<>>
           /\ NewByteStream(c).size = 0 /\ NewByteStream(c).bytes_w = 0
           /\ NewByteStream(c).bytes_r = 0
           /\ ~NewByteStream(c).end_flag /\ ~NewByteStream(c).error
<1>1. NewByteStream(c) \in ByteStreamType(Byte)
  BY DEF NewByteStream, ByteStreamType
<1>2. Len(<<>>) = 0
  OBVIOUS
<1> QED BY <1>1, <1>2 DEF GoodStream, StreamFits, NewByteStream

LEMMA StreamEmpty ==
    ASSUME NEW st, GoodStream(st)
    PROVE  /\ (st.stream = <<>>) <=> (st.size = 0)
           /\ remaining_capacity(st) = st.capacity - st.size
           /\ remaining_capacity(st) \in 0 .. st.capacity
<1>1. Len(<<>>) = 0 /\ st.stream \in Seq(Byte)
  BY StreamFields
<1>2. (st.stream = <<>>) <=> (Len(st.stream) = 0)
  BY <1>1, EmptySeq
<1>3. remaining_capacity(st) \in 0 .. st.capacity
  BY StreamFields DEF remaining_capacity
<1> QED BY <1>2, <1>3, StreamFields DEF remaining_capacity

(* pop_output(n) removes the first n bytes and nothing else. *)
LEMMA PopEffect ==
    ASSUME NEW st, GoodStream(st), NEW n \in 0 .. st.size
    PROVE  /\ GoodStream(pop_output(st, n))
           /\ pop_output(st, n).stream = SubSeq(st.stream, n + 1, Len(st.stream))
           /\ pop_output(st, n).size = st.size - n
           /\ pop_output(st, n).bytes_r = st.bytes_r + n
           /\ pop_output(st, n).bytes_w = st.bytes_w
           /\ pop_output(st, n).capacity = st.capacity
           /\ pop_output(st, n).end_flag = st.end_flag
           /\ pop_output(st, n).error = st.error
<1> DEFINE rest == SubSeq(st.stream, n + 1, Len(st.stream))
           u    == pop_output(st, n)
<1>0. st \in ByteStreamType(Byte)
  BY StreamFields
<1>1. rest \in Seq(Byte) /\ Len(rest) = st.size - n
  BY StreamFields, TakenAndLeft
<1>2. st.size - n \in Nat /\ st.bytes_r + n \in Nat /\ st.size - n <= st.capacity
  BY StreamFields
<1>3. u = [st EXCEPT !.stream = rest, !.size = st.size - n, !.bytes_r = st.bytes_r + n]
  BY DEF pop_output
<1> HIDE DEF rest, u
<1>4. /\ u.stream = rest /\ u.size = st.size - n /\ u.bytes_r = st.bytes_r + n
      /\ u.bytes_w = st.bytes_w /\ u.capacity = st.capacity
      /\ u.end_flag = st.end_flag /\ u.error = st.error
  BY <1>3, StreamFields DEF ByteStreamType
<1>5. u \in ByteStreamType(Byte)
  BY <1>0, <1>1, <1>2, <1>3, Zenon DEF ByteStreamType
<1>6. GoodStream(u)
  BY <1>1, <1>2, <1>4, <1>5 DEF GoodStream, StreamFits
<1> QED BY <1>4, <1>6 DEF rest, u

(* write(data) appends the first Accepted bytes of data, as many as fit. *)
LEMMA WriteEffect ==
    ASSUME NEW st, GoodStream(st), NEW data \in Seq(Byte)
    PROVE  /\ GoodStream(write(st, data))
           /\ Accepted(st, Len(data)) \in 0 .. Len(data)
           /\ write(st, data).stream
                = st.stream \o SubSeq(data, 1, Accepted(st, Len(data)))
           /\ write(st, data).size = st.size + Accepted(st, Len(data))
           /\ write(st, data).bytes_w = st.bytes_w + Accepted(st, Len(data))
           /\ write(st, data).bytes_r = st.bytes_r
           /\ write(st, data).capacity = st.capacity
           /\ write(st, data).end_flag = st.end_flag
           /\ write(st, data).error = st.error
<1> DEFINE n   == Accepted(st, Len(data))
           all == st.stream \o SubSeq(data, 1, n)
           u   == write(st, data)
<1>0. st \in ByteStreamType(Byte)
  BY StreamFields
<1>1. n \in 0 .. Len(data) /\ n \in Nat /\ st.size + n <= st.capacity
  BY StreamFields, LenProperties DEF Accepted, SmallerOf, remaining_capacity
<1>2. u = [st EXCEPT !.stream = all, !.size = st.size + n, !.bytes_w = st.bytes_w + n]
  BY DEF write
<1> HIDE DEF n
<1>3. SubSeq(data, 1, n) \in Seq(Byte) /\ Len(SubSeq(data, 1, n)) = n
  BY <1>1, TakenAndLeft
<1>4. all \in Seq(Byte) /\ Len(all) = st.size + n
  BY <1>3, StreamFields, ConcatProperties
<1> HIDE DEF all, u
<1>5. st.size + n \in Nat /\ st.bytes_w + n \in Nat
  BY <1>1, StreamFields
<1>6. /\ u.stream = all /\ u.size = st.size + n /\ u.bytes_w = st.bytes_w + n
      /\ u.bytes_r = st.bytes_r /\ u.capacity = st.capacity
      /\ u.end_flag = st.end_flag /\ u.error = st.error
  BY <1>2, StreamFields DEF ByteStreamType
<1>7. u \in ByteStreamType(Byte)
  BY <1>0, <1>2, <1>4, <1>5, Zenon DEF ByteStreamType
<1>8. GoodStream(u)
  BY <1>1, <1>4, <1>6, <1>7 DEF GoodStream, StreamFits
<1> QED BY <1>1, <1>6, <1>8 DEF n, all, u

(* All of data is taken if the stream is open and has room for it. *)
LEMMA WriteAll ==
    ASSUME NEW st, GoodStream(st), NEW data \in Seq(Byte),
           ~st.end_flag, Len(data) <= remaining_capacity(st)
    PROVE  /\ Accepted(st, Len(data)) = Len(data)
           /\ write(st, data).stream = st.stream \o data
           /\ write(st, data).size = st.size + Len(data)
<1>1. Len(data) \in Nat
  BY LenProperties
<1>2. Accepted(st, Len(data)) = Len(data)
  BY <1>1, StreamFields DEF Accepted, SmallerOf, remaining_capacity
<1>3. SubSeq(data, 1, Len(data)) = data
  BY SubSeqFull
<1> QED BY <1>2, <1>3, WriteEffect, ZenonT(60)

LEMMA EndInputEffect ==
    ASSUME NEW st, GoodStream(st)
    PROVE  /\ GoodStream(end_input(st)) /\ end_input(st).end_flag
           /\ end_input(st).stream = st.stream /\ end_input(st).size = st.size
           /\ end_input(st).bytes_w = st.bytes_w /\ end_input(st).bytes_r = st.bytes_r
           /\ end_input(st).capacity = st.capacity /\ end_input(st).error = st.error
<1> DEFINE u == end_input(st)
<1>0. st \in ByteStreamType(Byte)
  BY StreamFields
<1>1. u \in ByteStreamType(Byte)
  BY <1>0, Zenon DEF end_input, ByteStreamType
<1>2. /\ u.end_flag /\ u.stream = st.stream /\ u.size = st.size
      /\ u.bytes_w = st.bytes_w /\ u.bytes_r = st.bytes_r
      /\ u.capacity = st.capacity /\ u.error = st.error
  BY StreamFields DEF end_input, ByteStreamType
<1> HIDE DEF u
<1>3. GoodStream(u)
  BY <1>1, <1>2, StreamFields DEF GoodStream, StreamFits
<1> QED BY <1>2, <1>3 DEF u

LEMMA SetErrorEffect ==
    ASSUME NEW st, GoodStream(st)
    PROVE  /\ GoodStream(set_error(st)) /\ set_error(st).error
           /\ set_error(st).stream = st.stream /\ set_error(st).size = st.size
           /\ set_error(st).capacity = st.capacity
           /\ set_error(st).end_flag = st.end_flag
<1> DEFINE u == set_error(st)
<1>0. st \in ByteStreamType(Byte)
  BY StreamFields
<1>1. u \in ByteStreamType(Byte)
  BY <1>0, Zenon DEF set_error, ByteStreamType
<1>2. /\ u.error /\ u.stream = st.stream /\ u.size = st.size
      /\ u.capacity = st.capacity /\ u.end_flag = st.end_flag
  BY StreamFields DEF set_error, ByteStreamType
<1> HIDE DEF u
<1>3. GoodStream(u)
  BY <1>1, <1>2, StreamFields DEF GoodStream, StreamFits
<1> QED BY <1>2, <1>3 DEF u

(* A stream that holds the next bytes of its logical stream still does after
   some are read. *)
LEMMA PopIntact ==
    ASSUME NEW st, GoodStream(st), StreamIntact(st), NEW n \in 0 .. st.size
    PROVE  StreamIntact(pop_output(st, n))
<1> DEFINE u == pop_output(st, n)
<1>1. /\ GoodStream(u) /\ u.stream = SubSeq(st.stream, n + 1, Len(st.stream))
      /\ u.size = st.size - n /\ u.bytes_r = st.bytes_r + n /\ u.bytes_w = st.bytes_w
      /\ u.capacity = st.capacity
  BY PopEffect
<1>2. /\ st.size \in Nat /\ st.stream \in Seq(Byte) /\ st.bytes_r \in Nat /\ st.bytes_w \in Nat
      /\ st.size = Len(st.stream) /\ st.size <= st.capacity /\ n \in Nat
      /\ st.bytes_w = st.bytes_r + st.size
  BY StreamFields DEF StreamIntact
<1> HIDE DEF u
<1>3. u.size = Len(u.stream) /\ u.size <= u.capacity
  BY <1>1, StreamFields
<1>4. u.bytes_w = u.bytes_r + u.size
  BY <1>1, <1>2
<1>5. ASSUME NEW j \in 1 .. Len(u.stream) PROVE u.stream[j] = u.bytes_r + j - 1
  <2>1. n + j \in 1 .. Len(st.stream) /\ j \in Int
    BY <1>1, <1>2, <1>3
  <2>2. u.stream[j] = st.stream[n + j]
    BY <1>1, <1>2, <1>3, <2>1
  <2>3. st.stream[n + j] = st.bytes_r + (n + j) - 1
    BY <2>1 DEF StreamIntact
  <2> QED BY <1>1, <1>2, <2>1, <2>2, <2>3, SMTT(30)
<1> QED BY <1>3, <1>4, <1>5 DEF StreamIntact, u

(* ... and after the next of them are written. *)
LEMMA WriteIntact ==
    ASSUME NEW st, GoodStream(st), StreamIntact(st), NEW n \in Nat
    PROVE  StreamIntact(write(st, BytesFrom(st.bytes_w, n)))
<1> DEFINE data == BytesFrom(st.bytes_w, n)
           u    == write(st, data)
           k    == Accepted(st, Len(data))
<1>1. /\ st.size \in Nat /\ st.stream \in Seq(Byte) /\ st.bytes_r \in Nat /\ st.bytes_w \in Nat
      /\ st.size = Len(st.stream) /\ st.bytes_w = st.bytes_r + st.size
  BY StreamFields DEF StreamIntact
<1>2. /\ data \in Seq(Byte) /\ Len(data) = n
      /\ \A j \in 1 .. n : data[j] = st.bytes_w + j - 1
  BY <1>1, BytesFromParts, Zenon
<1> HIDE DEF data
<1>3. /\ GoodStream(u) /\ k \in 0 .. Len(data) /\ u.stream = st.stream \o SubSeq(data, 1, k)
      /\ u.size = st.size + k /\ u.bytes_r = st.bytes_r /\ u.bytes_w = st.bytes_w + k
  BY <1>2, WriteEffect, Zenon
<1> HIDE DEF u, k
<1>4. u.size = Len(u.stream) /\ u.size <= u.capacity
  BY <1>3, StreamFields, Zenon
<1>5. u.bytes_w = u.bytes_r + u.size
  BY <1>1, <1>2, <1>3
<1>6. ASSUME NEW j \in 1 .. Len(u.stream) PROVE u.stream[j] = u.bytes_r + j - 1
  <2> DEFINE z == st.size
             head == SubSeq(data, 1, k)
  <2>0. /\ z \in Nat /\ k \in 0 .. n /\ Len(u.stream) = z + k /\ z = Len(st.stream)
        /\ data \in Seq(Byte) /\ st.stream \in Seq(Byte) /\ Len(data) = n
        /\ u.stream = st.stream \o head
    BY <1>1, <1>2, <1>3, <1>4, Zenon
  <2>a. head \in Seq(Byte) /\ Len(head) = k /\ \A i \in 1 .. k : head[i] = data[i]
    BY <2>0
  <2> HIDE DEF z, head
  <2>1. j \in Int /\ 1 <= j /\ j <= z + k /\ k \in Nat /\ k <= n
    BY <2>0
  <2>2. CASE j <= z
    <3>1. j \in 1 .. Len(st.stream)
      BY <2>0, <2>1, <2>2
    <3>2. u.stream[j] = st.stream[j]
      BY <2>0, <2>a, <3>1
    <3>3. st.stream[j] = st.bytes_r + j - 1
      BY <3>1 DEF StreamIntact
    <3> QED BY <1>3, <3>2, <3>3, Zenon
  <2>3. CASE j > z
    <3>1. j - z \in 1 .. k /\ j - z \in 1 .. n
      BY <2>0, <2>1, <2>3
    <3>2. u.stream[j] = head[j - z]
      BY <2>0, <2>a, <2>1, <2>3, <3>1
    <3>3. u.stream[j] = data[j - z]
      BY <2>a, <3>1, <3>2
    <3>4. data[j - z] = st.bytes_w + (j - z) - 1
      BY <1>2, <3>1
    <3>5. st.bytes_w = st.bytes_r + z /\ u.bytes_r = st.bytes_r
      BY <1>1, <1>3 DEF z
    <3>6. st.bytes_r \in Int /\ z \in Int /\ j \in Int
      BY <1>1, <2>0, <2>1
    <3>7. st.bytes_r + z + (j - z) - 1 = st.bytes_r + j - 1
      BY <3>6
    <3> QED BY <3>3, <3>4, <3>5, <3>7
  <2> QED BY <2>0, <2>1, <2>2, <2>3
<1> QED BY <1>4, <1>5, <1>6 DEF StreamIntact, u, data
=============================================================================
