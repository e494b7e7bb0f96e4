----------------------- MODULE StreamReassemblerProofs -----------------------
(***************************************************************************)
(* The StreamReassembler gives its reader the logical stream, for every    *)
(* capacity and stream length and whatever substrings arrive.              *)
(*                                                                         *)
(* The proof follows push_substring: clipping and merging keep the map     *)
(* sound, the capacity loop only takes bytes away, assembly writes what    *)
(* continues the output, and the output ends with the last byte.           *)
(***************************************************************************)
EXTENDS StreamReassembler, ByteStreamProofs, FiniteSetTheorems

(* The sum of the stored lengths, as the capacity check adds them up. *)
LEMMA StoredBytesType ==
    ASSUME NEW held, IsFiniteSet(DOMAIN held), \A k \in DOMAIN held : Len(held[k]) \in Nat
    PROVE  StoredBytes(held) \in Nat
<1> DEFINE S == DOMAIN held
           pick(s) == CHOOSE x \in s : TRUE
           step(g) == [s \in SUBSET S |->
                         IF s = {} THEN 0 ELSE Len(held[pick(s)]) + g[s \ {pick(s)}]]
           fits(g, n) == \A s \in SUBSET S : Cardinality(s) <= n => g[s] = step(g)[s]
           iter == CHOOSE g : g = step(g)
<1>1. StoredBytes(held) = iter[S]
  BY DEF StoredBytes, MapThenSumSet, MapThenFoldSet
<1>2. ASSUME NEW s \in SUBSET S, s # {}
      PROVE  /\ pick(s) \in s /\ Len(held[pick(s)]) \in Nat /\ s \ {pick(s)} \in SUBSET S
             /\ Cardinality(s) \in Nat /\ Cardinality(s \ {pick(s)}) = Cardinality(s) - 1
  <2>1. pick(s) \in s
    BY <1>2, Zenon
  <2> HIDE DEF pick
  <2>2. IsFiniteSet(s)
    BY FS_Subset
  <2>3. Cardinality(s) \in Nat /\ Cardinality(s \ {pick(s)}) = Cardinality(s) - 1
    BY <2>1, <2>2, FS_CardinalityType, FS_RemoveElement
  <2> QED BY <2>1, <2>3
<1>3. ASSUME NEW s \in SUBSET S PROVE Cardinality(s) \in Nat
  BY FS_Subset, FS_CardinalityType
<1>4. ASSUME NEW n \in Nat PROVE \E g \in [SUBSET S -> Nat] : fits(g, n)
  <2> DEFINE bad == {m \in Nat : ~\E g \in [SUBSET S -> Nat] : fits(g, m)}
  <2> SUFFICES ASSUME bad # {} PROVE FALSE
    BY Zenon
  <2>1. PICK m \in bad : \A y \in bad : m <= y
    <3>1. bad \subseteq Nat
      OBVIOUS
    <3> HIDE DEF bad
    <3> QED BY <3>1, LeastNat, Zenon
  <2>2. CASE m = 0
    <3> DEFINE g == [s \in SUBSET S |-> 0]
    <3>1. g \in [SUBSET S -> Nat]
      OBVIOUS
    <3>2. ASSUME NEW s \in SUBSET S, Cardinality(s) <= m PROVE g[s] = step(g)[s]
      <4>1. s = {}
        BY <1>3, <2>2, <3>2, FS_Subset, FS_EmptySet
      <4> QED BY <4>1
    <3> QED BY <2>1, <3>1, <3>2, Zenon
  <2>3. CASE m # 0
    <3>1. m \in Nat /\ m - 1 \in Nat /\ m - 1 \notin bad
      <4>1. m \in Nat /\ m - 1 \in Nat
        BY <2>1, <2>3
      <4>2. ~(m <= m - 1)
        BY <4>1
      <4> QED BY <2>1, <4>1, <4>2, Zenon
    <3>2. PICK g \in [SUBSET S -> Nat] : fits(g, m - 1)
      BY <3>1, Zenon
    <3> DEFINE h == step(g)
    <3> HIDE DEF pick
    <3>3. h \in [SUBSET S -> Nat]
      BY <1>2
    <3>4. ASSUME NEW s \in SUBSET S, Cardinality(s) <= m PROVE h[s] = step(h)[s]
      <4>1. CASE s = {}
        BY <4>1
      <4>2. CASE s # {}
        <5> DEFINE t == s \ {pick(s)}
        <5>1. t \in SUBSET S /\ Cardinality(t) <= m - 1
          <6>1. /\ t \in SUBSET S /\ Cardinality(s) \in Nat
                /\ Cardinality(t) = Cardinality(s) - 1 /\ m \in Nat
            BY <1>2, <3>1, <4>2, Zenon
          <6> HIDE DEF t
          <6> QED BY <3>4, <6>1
        <5>2. g[t] = h[t]
          BY <3>2, <5>1, Zenon
        <5>3. h[s] = Len(held[pick(s)]) + g[t]
          BY <4>2
        <5>4. step(h)[s] = Len(held[pick(s)]) + h[t]
          BY <4>2
        <5> QED BY <5>2, <5>3, <5>4
      <4> QED BY <4>1, <4>2
    <3> QED BY <2>1, <3>3, <3>4, Zenon
  <2> QED BY <2>2, <2>3
<1>5. \E g : g = step(g)
  <2> DEFINE n == Cardinality(S)
  <2>1. n \in Nat /\ \A s \in SUBSET S : Cardinality(s) <= n
    BY <1>3, FS_Subset
  <2>2. PICK g \in [SUBSET S -> Nat] : fits(g, n)
    BY <1>4, <2>1, Zenon
  <2>3. \A s \in SUBSET S : g[s] = step(g)[s]
    BY <2>1, <2>2, Zenon
  <2> HIDE DEF pick
  <2>4. g = step(g)
    BY <2>3, Zenon
  <2> QED BY <2>4, Zenon
<1>6. iter = step(iter)
  <2> HIDE DEF step
  <2> QED BY <1>5, Zenon
<1> HIDE DEF iter, pick
<1>7. ASSUME NEW s \in SUBSET S, s # {}
      PROVE  iter[s] = Len(held[pick(s)]) + iter[s \ {pick(s)}]
  BY <1>6, <1>7, Zenon
<1>8. iter[{}] = 0
  BY <1>6
<1>9. \A s \in SUBSET S : iter[s] \in Nat
  <2> DEFINE bad == {Cardinality(s) : s \in {t \in SUBSET S : iter[t] \notin Nat}}
  <2> SUFFICES ASSUME bad # {} PROVE FALSE
    OBVIOUS
  <2>1. PICK m \in bad : \A y \in bad : m <= y
    <3>1. bad \subseteq Nat
      BY <1>3
    <3> HIDE DEF bad
    <3> QED BY <3>1, LeastNat, Zenon
  <2>2. PICK s \in SUBSET S : m = Cardinality(s) /\ iter[s] \notin Nat
    BY <2>1
  <2>3. s # {}
    <3>1. 0 \in Nat
      OBVIOUS
    <3> QED BY <1>8, <2>2, <3>1, Zenon
  <2> DEFINE t == s \ {pick(s)}
  <2>4. t \in SUBSET S /\ Cardinality(t) = m - 1 /\ m \in Nat /\ Len(held[pick(s)]) \in Nat
    BY <1>2, <2>2, <2>3, Zenon
  <2>5. iter[t] \in Nat
    <3>1. Cardinality(t) \notin bad
      <4>1. ~(m <= m - 1)
        BY <2>4
      <4> QED BY <2>1, <2>4, <4>1
    <3> QED BY <2>4, <3>1, Zenon
  <2>6. iter[s] = Len(held[pick(s)]) + iter[t]
    BY <1>7, <2>3, Zenon
  <2> HIDE DEF t
  <2> QED BY <2>2, <2>4, <2>5, <2>6
<1> QED BY <1>1, <1>9

-----------------------------------------------------------------------------
(* What the map holds, in the middle of a call too: strings of the logical
   stream, each at its own place and no place twice. *)
RightPlace(k, str) ==
    /\ k \in Nat /\ str \in Seq(Byte) /\ k + Len(str) <= StreamLen
    /\ \A p \in Positions(k, str) : ByteAt(k, str, p) = p

Sound(held) ==
    /\ \A k \in DOMAIN held : RightPlace(k, held[k])
    /\ \A j, k \in DOMAIN held :
          j # k => Positions(j, held[j]) \cap Positions(k, held[k]) = {}

Ahead(held, willing) == \A k \in DOMAIN held : k > willing

(* A reassembler, whatever its map. *)
ReassemblerType(held) ==
    [output : ByteStreamType(Byte), capacity : Nat, willing : Nat, reassembler : {held},
     end_flag : BOOLEAN, total_write : Nat, bytes_writed : Nat]

IsReassembler(t) == t \in ReassemblerType(t.reassembler)

(* The fields that have nothing to do with the map. *)
Counted(t) ==
    /\ IsReassembler(t) /\ GoodStream(t.output) /\ StreamIntact(t.output)
    /\ t.capacity = Capacity /\ t.output.capacity = Capacity
    /\ t.willing \in 0 .. StreamLen
    /\ t.willing = t.output.bytes_w /\ t.bytes_writed = t.willing
    /\ t.end_flag \in BOOLEAN /\ t.total_write = IF t.end_flag THEN StreamLen ELSE 0
    /\ t.output.end_flag => t.end_flag /\ t.willing = StreamLen

(* The inductive invariant. *)
Whole(t) ==
    /\ Counted(t) /\ Sound(t.reassembler) /\ Ahead(t.reassembler, t.willing)
    /\ t.end_flag /\ t.willing = StreamLen => t.output.end_flag

ReassemblerInv == Whole(r)

LEMMA PlaceFacts ==
    ASSUME NEW k, NEW str, RightPlace(k, str)
    PROVE  /\ k \in Nat /\ str \in Seq(Byte) /\ Len(str) \in Nat
           /\ k + Len(str) <= StreamLen /\ k <= StreamLen
           /\ \A p : p \in Positions(k, str) <=> p \in Int /\ k <= p /\ p < k + Len(str)
           /\ \A p \in Positions(k, str) : ByteAt(k, str, p) = p /\ p \in Nat
<1>1. k \in Nat /\ str \in Seq(Byte) /\ Len(str) \in Nat /\ k + Len(str) <= StreamLen
  BY LenProperties DEF RightPlace
<1>2. k <= StreamLen
  BY <1>1, ReassemblerAssumption
<1>3. \A p : p \in Positions(k, str) <=> p \in Int /\ k <= p /\ p < k + Len(str)
  BY <1>1 DEF Positions
<1>4. \A p \in Positions(k, str) : ByteAt(k, str, p) = p /\ p \in Nat
  BY <1>1, <1>3 DEF RightPlace
<1> QED BY <1>1, <1>2, <1>3, <1>4

(* The substring a peer sends is in its place. *)
LEMMA PushedPlace ==
    ASSUME NEW i \in Nat, NEW n \in Nat, i + n <= StreamLen
    PROVE  RightPlace(i, BytesFrom(i, n)) /\ Len(BytesFrom(i, n)) = n
<1> DEFINE d == BytesFrom(i, n)
<1>1. d \in Seq(Byte) /\ Len(d) = n /\ \A j \in 1 .. n : d[j] = i + j - 1
  BY BytesFromParts, Zenon
<1> HIDE DEF d
<1>2. ASSUME NEW p \in Positions(i, d) PROVE ByteAt(i, d, p) = p
  <2>1. p \in Int /\ p - i + 1 \in 1 .. n
    BY <1>1 DEF Positions
  <2>2. d[p - i + 1] = i + (p - i + 1) - 1
    BY <1>1, <2>1
  <2> QED BY <2>1, <2>2 DEF ByteAt
<1> QED BY <1>1, <1>2 DEF RightPlace, d

(* ... and a part of a string in its place is in its place. *)
LEMMA PartPlace ==
    ASSUME NEW k, NEW str, RightPlace(k, str), NEW c \in 0 .. Len(str), NEW e \in c .. Len(str)
    PROVE  /\ RightPlace(k + c, SubSeq(str, c + 1, e))
           /\ Len(SubSeq(str, c + 1, e)) = e - c
<1> DEFINE u == SubSeq(str, c + 1, e)
<1>1. /\ k \in Nat /\ str \in Seq(Byte) /\ Len(str) \in Nat /\ k + Len(str) <= StreamLen
      /\ \A p : p \in Positions(k, str) <=> p \in Int /\ k <= p /\ p < k + Len(str)
      /\ \A p \in Positions(k, str) : ByteAt(k, str, p) = p
  BY PlaceFacts
<1>2. c \in Nat /\ e \in Nat /\ c <= e /\ e <= Len(str)
  BY <1>1
<1>3. u \in Seq(Byte) /\ Len(u) = e - c /\ \A j \in 1 .. e - c : u[j] = str[c + j]
  BY <1>1, <1>2
<1> HIDE DEF u
<1>4. ASSUME NEW p \in Positions(k + c, u) PROVE ByteAt(k + c, u, p) = p
  <2>1. p \in Int /\ k + c <= p /\ p < k + e
    BY <1>1, <1>2, <1>3 DEF Positions
  <2>2. p \in Positions(k, str)
    BY <1>1, <1>2, <2>1
  <2>3. str[p - k + 1] = p
    BY <1>1, <2>2 DEF ByteAt
  <2> DEFINE j == p - (k + c) + 1
  <2>4. j \in 1 .. e - c /\ c + j = p - k + 1
    BY <1>1, <1>2, <2>1
  <2> HIDE DEF j
  <2>5. u[j] = p
    BY <1>3, <2>3, <2>4
  <2> QED BY <2>5 DEF ByteAt, j
<1>5. k + c \in Nat /\ (k + c) + Len(u) <= StreamLen
  BY <1>1, <1>2, <1>3, ReassemblerAssumption
<1> QED BY <1>3, <1>4, <1>5 DEF RightPlace, u

(* Merging a string with the stored ones it overlaps gives a string in its
   place that covers the new one and nothing the others did not cover. *)
LEMMA MergedPlace ==
    ASSUME NEW held, Sound(held), NEW k, NEW str, RightPlace(k, str), Len(str) > 0,
           NEW over, over = {j \in DOMAIN held : Overlaps(j, held[j], k, str)}
    PROVE  /\ RightPlace(MergeStart(over, k), Merged(held, over, k, str))
           /\ MergeStart(over, k) <= k
           /\ MergeStart(over, k) = k \/ MergeStart(over, k) \in over
           /\ k + Len(str) <= MergeStart(over, k) + Len(Merged(held, over, k, str))
           /\ \A p \in Positions(MergeStart(over, k), Merged(held, over, k, str)) :
                 p \in Positions(k, str) \/ \E j \in over : p \in Positions(j, held[j])
<1> DEFINE past(j) == j + Len(held[j]) > k + Len(str)
           start == MergeStart(over, k)
           end   == MergeEnd(held, over, k, str)
           covers(p) == \E j \in over : p \in Positions(j, held[j])
           source(p) == CHOOSE j \in over : p \in Positions(j, held[j])
           byte(p) == IF covers(p) THEN ByteAt(source(p), held[source(p)], p)
                      ELSE ByteAt(k, str, p)
           new   == Merged(held, over, k, str)
<1>1. /\ k \in Nat /\ Len(str) \in Nat /\ k + Len(str) <= StreamLen
      /\ \A p : p \in Positions(k, str) <=> p \in Int /\ k <= p /\ p < k + Len(str)
      /\ \A p \in Positions(k, str) : ByteAt(k, str, p) = p /\ p \in Nat
  BY PlaceFacts
<1>2. ASSUME NEW j \in over
      PROVE  /\ j \in Nat /\ Len(held[j]) \in Nat /\ j + Len(held[j]) <= StreamLen
             /\ \A p : p \in Positions(j, held[j]) <=> p \in Int /\ j <= p /\ p < j + Len(held[j])
             /\ \A p \in Positions(j, held[j]) : ByteAt(j, held[j], p) = p /\ p \in Nat
             /\ j <= k + Len(str) - 1 /\ k <= j + Len(held[j]) - 1
  <2>1. RightPlace(j, held[j]) /\ Overlaps(j, held[j], k, str)
    BY DEF Sound
  <2>2. j <= k + Len(str) - 1 /\ k <= j + Len(held[j]) - 1
    BY <2>1 DEF Overlaps
  <2> QED BY <2>1, <2>2, PlaceFacts
<1>3. start = k \/ (start \in over /\ start < k)
  BY Zenon DEF MergeStart
<1>4. \/ end = k + Len(str)
      \/ \E j \in over : past(j) /\ end = j + Len(held[j])
  <2>1. CASE \E j \in over : past(j)
    <3> DEFINE j == CHOOSE j \in over : past(j)
    <3>1. j \in over /\ past(j)
      BY <2>1, Zenon
    <3>2. end = j + Len(held[j])
      BY <2>1, Zenon DEF MergeEnd
    <3> QED BY <3>1, <3>2, Zenon
  <2>2. CASE ~\E j \in over : past(j)
    BY <2>2, Zenon DEF MergeEnd
  <2> QED BY <2>1, <2>2
<1>5. new = [i \in 1 .. end - start |-> byte(start + i - 1)]
  BY Zenon DEF Merged
<1> HIDE DEF start, end
<1>6. start \in Nat /\ start <= k /\ (start < k => start \in over)
  BY <1>1, <1>2, <1>3
<1>7. end \in Nat /\ k + Len(str) <= end /\ end <= StreamLen
  BY <1>1, <1>2, <1>4
<1>8. ASSUME NEW p \in start .. end - 1
      PROVE  p \in Nat /\ (p \in Positions(k, str) \/ covers(p))
  <2>1. p \in Int /\ start <= p /\ p < end /\ p \in Nat
    BY <1>6, <1>7
  <2>2. CASE p < k
    <3>1. start \in over
      BY <1>1, <1>6, <2>1, <2>2
    <3>2. /\ k <= start + Len(held[start]) - 1 /\ Len(held[start]) \in Nat
          /\ p \in Positions(start, held[start])
               <=> p \in Int /\ start <= p /\ p < start + Len(held[start])
      BY <1>2, <3>1
    <3>3. p \in Positions(start, held[start])
      BY <1>1, <1>6, <2>1, <2>2, <3>2
    <3> QED BY <2>1, <3>1, <3>3
  <2>3. CASE k <= p /\ p < k + Len(str)
    BY <1>1, <2>1, <2>3
  <2>4. CASE ~(p < k + Len(str))
    <3>1. end # k + Len(str)
      BY <1>1, <1>7, <2>1, <2>4
    <3>2. PICK j \in over : past(j) /\ end = j + Len(held[j])
      BY <1>4, <3>1
    <3>3. /\ j <= k + Len(str) - 1 /\ j \in Nat
          /\ p \in Positions(j, held[j]) <=> p \in Int /\ j <= p /\ p < j + Len(held[j])
      BY <1>2
    <3>4. p \in Positions(j, held[j])
      BY <1>1, <2>1, <2>4, <3>2, <3>3
    <3> QED BY <2>1, <3>4
  <2> QED BY <1>1, <2>1, <2>2, <2>3, <2>4
<1>9. ASSUME NEW p \in start .. end - 1 PROVE byte(p) = p
  <2>1. CASE covers(p)
    <3>1. source(p) \in over /\ p \in Positions(source(p), held[source(p)])
      BY <2>1, Zenon
    <3> HIDE DEF source
    <3>2. ByteAt(source(p), held[source(p)], p) = p
      BY <1>2, <3>1
    <3> QED BY <2>1, <3>2
  <2>2. CASE ~covers(p)
    <3>1. p \in Positions(k, str)
      BY <1>8, <2>2
    <3> QED BY <1>1, <2>2, <3>1
  <2> QED BY <2>1, <2>2
<1> HIDE DEF byte, new
<1>10. /\ new \in Seq(Byte) /\ Len(new) = end - start
       /\ \A i \in 1 .. end - start : new[i] = start + i - 1
  <2>1. end - start \in Nat
    BY <1>1, <1>6, <1>7
  <2>2. ASSUME NEW i \in 1 .. end - start PROVE byte(start + i - 1) = start + i - 1
                                                /\ start + i - 1 \in Byte
    <3>1. start + i - 1 \in start .. end - 1 /\ start + i - 1 \in Nat
      BY <1>6, <1>7
    <3> QED BY <1>9, <3>1 DEF Byte
  <2> QED BY <1>5, <2>1, <2>2
<1>11. RightPlace(start, new)
  <2>1. ASSUME NEW p \in Positions(start, new) PROVE ByteAt(start, new, p) = p
    <3>1. p \in Int /\ p - start + 1 \in 1 .. end - start
      BY <1>6, <1>7, <1>10 DEF Positions
    <3>2. new[p - start + 1] = start + (p - start + 1) - 1
      BY <1>10, <3>1
    <3> QED BY <1>6, <3>1, <3>2 DEF ByteAt
  <2> QED BY <1>6, <1>7, <1>10, <2>1 DEF RightPlace
<1>12. ASSUME NEW p \in Positions(start, new) PROVE p \in Positions(k, str) \/ covers(p)
  <2>1. p \in start .. end - 1
    BY <1>6, <1>7, <1>10 DEF Positions
  <2> QED BY <1>8, <2>1
<1>13. start <= k /\ (start = k \/ start \in over) /\ k + Len(str) <= start + Len(new)
  BY <1>1, <1>3, <1>6, <1>7, <1>10
<1> QED BY <1>11, <1>12, <1>13 DEF start, new

(* The first half of push_substring keeps the map sound. The string it stores is
   the only one that may start at or before the next byte wanted, and starts
   exactly there, and has all that was pushed, when the substring has that byte. *)
StoredWell(t, i, data, u) ==
    \E held, at :
        /\ u = [t EXCEPT !.reassembler = held] /\ Sound(held) /\ at \in DOMAIN held
        /\ Ahead([k \in DOMAIN held \ {at} |-> held[k]], t.willing)
        /\ i <= t.willing /\ t.willing < i + Len(data)
             => at = t.willing /\ at + Len(held[at]) >= i + Len(data)

LEMMA StoreSound ==
    ASSUME NEW t, Counted(t), Sound(t.reassembler), Ahead(t.reassembler, t.willing),
           NEW i, NEW data, RightPlace(i, data), Len(data) > 0
    PROVE  \A u \in StoreSubstring(t, data, i) : StoredWell(t, i, data, u)
<1> TAKE u \in StoreSubstring(t, data, i)
<1> DEFINE old  == t.reassembler
           keys == DOMAIN old
           want == t.willing
           cut  == IF i < want /\ i + Len(data) - 1 >= want THEN want - i ELSE 0
           str  == SubSeq(data, cut + 1, Len(data))
           k    == i + cut
           over == {j \in keys : Overlaps(j, old[j], k, str)}
           new  == Merged(old, over, k, str)
           at   == MergeStart(over, k)
           late == {j \in keys \ over : Len(old[j]) = 0 /\ at < j /\ j < at + Len(new)}
<1>1. PICK gone \in SUBSET late :
          u = [t EXCEPT !.reassembler = [j \in (keys \ (over \cup gone)) \cup {at} |->
                                           IF j = at THEN new ELSE old[j]]]
  BY Zenon DEF StoreSubstring
<1>2. i \in Nat /\ data \in Seq(Byte) /\ Len(data) \in Nat /\ want \in Nat
  BY PlaceFacts, ReassemblerAssumption DEF Counted
<1>3. /\ cut \in 0 .. Len(data) /\ cut < Len(data) /\ Len(data) \in cut .. Len(data)
      /\ i <= want /\ want < i + Len(data) => k = want
  <2> HIDE DEF want
  <2> QED BY <1>2
<1> HIDE DEF cut
<1>4. RightPlace(k, str) /\ Len(str) = Len(data) - cut
  BY <1>3, PartPlace
<1> HIDE DEF str
<1>5. Len(str) > 0 /\ k \in Nat /\ k + Len(str) = i + Len(data)
  BY <1>2, <1>3, <1>4
<1> HIDE DEF k
<1>6. /\ RightPlace(at, new) /\ at <= k /\ (at = k \/ at \in over)
      /\ k + Len(str) <= at + Len(new)
      /\ \A p \in Positions(at, new) :
            p \in Positions(k, str) \/ \E j \in over : p \in Positions(j, old[j])
  <2>1. over = {j \in keys : Overlaps(j, old[j], k, str)}
    OBVIOUS
  <2> HIDE DEF over
  <2> QED BY <1>4, <1>5, <2>1, MergedPlace, ZenonT(60)
<1> DEFINE stay == (keys \ (over \cup gone)) \cup {at}
           held == [j \in stay |-> IF j = at THEN new ELSE old[j]]
<1>7. ASSUME NEW j \in stay, j # at
      PROVE  j \in keys /\ j \notin over /\ held[j] = old[j] /\ RightPlace(j, old[j]) /\ j > want
  BY <1>7 DEF Sound, Ahead
<1>8. held[at] = new /\ DOMAIN held = stay /\ at \in stay
  OBVIOUS
<1>9. over \subseteq keys /\ \A j \in keys \ over : ~Overlaps(j, old[j], k, str)
  OBVIOUS
<1> HIDE DEF new, at, over, late, held, stay
<1>10. ASSUME NEW j \in stay, j # at
       PROVE  Positions(j, old[j]) \cap Positions(at, new) = {}
  <2> SUFFICES ASSUME NEW p \in Positions(j, old[j]), p \in Positions(at, new) PROVE FALSE
    OBVIOUS
  <2>1. CASE p \in Positions(k, str)
    <3>1. p \in Int /\ k <= p /\ p < k + Len(str) /\ Len(str) \in Nat
      BY <1>4, <2>1, PlaceFacts
    <3>2. p \in Int /\ j <= p /\ p < j + Len(old[j]) /\ j \in Nat /\ Len(old[j]) \in Nat
      BY <1>7, <1>10, PlaceFacts
    <3>3. Overlaps(j, old[j], k, str)
      BY <1>5, <3>1, <3>2, SMTT(30) DEF Overlaps
    <3> QED BY <1>7, <1>9, <1>10, <3>3
  <2>2. CASE ~(p \in Positions(k, str))
    <3>1. PICK l \in over : p \in Positions(l, old[l])
      BY <1>6, <2>2
    <3>2. l \in keys /\ j \in keys /\ l # j
      BY <1>7, <1>9, <1>10
    <3> QED BY <3>1, <3>2, Zenon DEF Sound
  <2> QED BY <2>1, <2>2
<1>11. Sound(held)
  <2>1. ASSUME NEW j \in stay PROVE RightPlace(j, held[j])
    BY <1>6, <1>7, <1>8
  <2>2. ASSUME NEW j \in stay, NEW l \in stay, j # l
        PROVE  Positions(j, held[j]) \cap Positions(l, held[l]) = {}
    <3>1. CASE j = at
      <4>1. l # at /\ held[j] = new /\ held[l] = old[l]
        BY <1>7, <1>8, <2>2, <3>1
      <4>2. Positions(l, old[l]) \cap Positions(at, new) = {}
        BY <1>10, <4>1
      <4> QED BY <3>1, <4>1, <4>2
    <3>2. CASE l = at
      <4>1. j # at /\ held[l] = new /\ held[j] = old[j]
        BY <1>7, <1>8, <2>2, <3>2
      <4>2. Positions(j, old[j]) \cap Positions(at, new) = {}
        BY <1>10, <4>1
      <4> QED BY <3>2, <4>1, <4>2
    <3>3. CASE j # at /\ l # at
      <4>1. j \in keys /\ l \in keys /\ held[j] = old[j] /\ held[l] = old[l]
        BY <1>7, <3>3
      <4> QED BY <2>2, <4>1, Zenon DEF Sound
    <3> QED BY <3>1, <3>2, <3>3
  <2> QED BY <1>8, <2>1, <2>2 DEF Sound
<1>12. Ahead([j \in DOMAIN held \ {at} |-> held[j]], want)
  BY <1>7, <1>8 DEF Ahead
<1>13. i <= want /\ want < i + Len(data) => at = want /\ at + Len(held[at]) >= i + Len(data)
  <2> SUFFICES ASSUME i <= want, want < i + Len(data)
               PROVE  at = want /\ at + Len(held[at]) >= i + Len(data)
    OBVIOUS
  <2>1. k = want
    BY <1>3
  <2>2. at \notin over
    <3> SUFFICES ASSUME at \in over PROVE FALSE
      OBVIOUS
    <3>1. at \in keys
      BY <1>9
    <3>2. at > want /\ at \in Nat
      BY <3>1 DEF Ahead, Sound, RightPlace
    <3> QED BY <1>2, <1>6, <2>1, <3>2
  <2>3. at = want
    BY <1>6, <2>1, <2>2
  <2>4. Len(new) \in Nat /\ Len(str) \in Nat
    BY <1>4, <1>6, PlaceFacts
  <2> HIDE DEF want
  <2> QED BY <1>2, <1>5, <1>6, <1>8, <2>1, <2>3, <2>4
<1>14. u = [t EXCEPT !.reassembler = held]
  BY <1>1 DEF held, stay
<1> QED BY <1>8, <1>11, <1>12, <1>13, <1>14, Zenon DEF StoredWell

LEMMA ReassemblerFields ==
    ASSUME NEW t, IsReassembler(t), NEW held
    PROVE  /\ IsReassembler([t EXCEPT !.reassembler = held])
           /\ [t EXCEPT !.reassembler = held].reassembler = held
           /\ [t EXCEPT !.reassembler = held].output = t.output
           /\ [t EXCEPT !.reassembler = held].capacity = t.capacity
           /\ [t EXCEPT !.reassembler = held].willing = t.willing
           /\ [t EXCEPT !.reassembler = held].end_flag = t.end_flag
           /\ [t EXCEPT !.reassembler = held].total_write = t.total_write
           /\ [t EXCEPT !.reassembler = held].bytes_writed = t.bytes_writed
           /\ [t EXCEPT !.reassembler = t.reassembler] = t
  BY DEF IsReassembler, ReassemblerType

LEMMA CountedWithMap ==
    ASSUME NEW t, Counted(t), NEW held PROVE Counted([t EXCEPT !.reassembler = held])
<1> DEFINE u == [t EXCEPT !.reassembler = held]
<1>1. /\ IsReassembler(u) /\ u.output = t.output /\ u.capacity = t.capacity
      /\ u.willing = t.willing /\ u.end_flag = t.end_flag
      /\ u.total_write = t.total_write /\ u.bytes_writed = t.bytes_writed
  BY ReassemblerFields DEF Counted
<1> HIDE DEF u
<1>2. Counted(u)
  BY <1>1 DEF Counted
<1> QED BY <1>2 DEF u

LEMMA SoundIsFinite ==
    ASSUME NEW held, Sound(held)
    PROVE  StoredBytes(held) \in Nat
<1>1. \A k \in DOMAIN held : k \in Nat /\ k <= StreamLen /\ Len(held[k]) \in Nat
  BY PlaceFacts DEF Sound
<1>2. DOMAIN held \in SUBSET Nat /\ \A k \in DOMAIN held : k <= StreamLen
  BY <1>1
<1>3. IsFiniteSet(DOMAIN held)
  BY <1>2, ReassemblerAssumption, FS_BoundedSetOfNaturals
<1> QED BY <1>1, <1>3, StoredBytesType

(* The capacity loop shortens one entry, or adds an empty one; never the one
   that starts at the next byte wanted. *)
TrimmedWell(u, at, v) ==
    \E rest : /\ v = [u EXCEPT !.reassembler = rest] /\ Sound(rest)
              /\ at = u.willing => at \in DOMAIN rest /\ rest[at] = u.reassembler[at]

LEMMA TrimSound ==
    ASSUME NEW u, Counted(u), Sound(u.reassembler), NEW at \in DOMAIN u.reassembler,
           NEW oldKeys, \A k \in oldKeys : k \in Nat /\ u.willing < k /\ k <= StreamLen
    PROVE  \A v \in TrimToCapacity(u, oldKeys) : TrimmedWell(u, at, v)
<1> TAKE v \in TrimToCapacity(u, oldKeys)
<1> DEFINE held == u.reassembler
           excess == u.output.size + StoredBytes(held) - u.capacity
           greatest == {k \in oldKeys : \A j \in oldKeys : AsInt(j) <= AsInt(k)}
           str(k) == IF k \in DOMAIN held THEN held[k] ELSE <<>>
           cut(k) == SubSeq(str(k), 1, Len(str(k)) - excess)
           less(k) == [j \in DOMAIN held \cup {k} |-> IF j = k THEN cut(k) ELSE held[j]]
<1>1. u = [u EXCEPT !.reassembler = held]
  BY ReassemblerFields, Zenon DEF Counted
<1>2. TrimToCapacity(u, oldKeys) =
        IF excess <= 0 \/ oldKeys = {} THEN {u}
        ELSE {[u EXCEPT !.reassembler = less(k)] : k \in greatest}
  BY Zenon DEF TrimToCapacity
<1>3. excess \in Int
  <2>1. u.output.size \in Nat /\ Capacity \in Nat /\ u.capacity = Capacity
    BY StreamFields, ReassemblerAssumption DEF Counted
  <2> QED BY <2>1, SoundIsFinite
<1> HIDE DEF excess, held
<1>4. CASE excess <= 0 \/ oldKeys = {}
  <2>1. v = [u EXCEPT !.reassembler = held]
    BY <1>1, <1>2, <1>4
  <2> QED BY <2>1 DEF held, TrimmedWell
<1>5. CASE ~(excess <= 0 \/ oldKeys = {})
  <2>1. PICK k \in greatest : v = [u EXCEPT !.reassembler = less(k)]
    <3> HIDE DEF less, greatest
    <3> QED BY <1>2, <1>5
  <2>2. k \in oldKeys /\ k \in Nat /\ u.willing < k /\ k <= StreamLen
    BY <2>1
  <2>3. RightPlace(k, <<>>)
    BY <2>2 DEF RightPlace, Positions
  <2>4. RightPlace(k, str(k)) /\ (k \notin DOMAIN held => str(k) = <<>>)
        /\ (k \in DOMAIN held => str(k) = held[k])
    BY <2>3 DEF Sound, held
  <2> DEFINE s == str(k)
             e == Len(s) - excess
  <2> HIDE DEF str
  <2>5. s \in Seq(Byte) /\ Len(s) \in Nat /\ e \in Int /\ e < Len(s)
    BY <1>3, <1>5, <2>4, PlaceFacts
  <2>6. /\ RightPlace(k, cut(k)) /\ Len(cut(k)) <= Len(s)
    <3>1. CASE e <= 0
      <4>1. cut(k) = <<>> /\ Len(<<>>) = 0
        BY <2>5, <3>1
      <4> HIDE DEF cut, s
      <4> QED BY <2>3, <2>5, <4>1
    <3>2. CASE e > 0
      <4>1. 0 \in 0 .. Len(s) /\ e \in 0 .. Len(s)
        BY <2>5, <3>2
      <4> HIDE DEF s, e
      <4>2. RightPlace(k + 0, SubSeq(s, 0 + 1, e)) /\ Len(SubSeq(s, 0 + 1, e)) = e - 0
        BY <2>4, <4>1, PartPlace DEF s
      <4>3. k + 0 = k /\ 0 + 1 = 1 /\ e - 0 = e
        BY <2>2, <2>5
      <4>4. SubSeq(s, 1, e) = cut(k)
        BY DEF s, e
      <4> HIDE DEF cut
      <4>5. RightPlace(k, cut(k)) /\ Len(cut(k)) = e
        BY <4>2, <4>3, <4>4, Zenon
      <4> QED BY <2>5, <4>5
    <3> QED BY <2>5, <3>1, <3>2
  <2> HIDE DEF cut, s, e
  <2> DEFINE rest == less(k)
  <2>7. /\ DOMAIN rest = DOMAIN held \cup {k} /\ rest[k] = cut(k)
        /\ \A j \in DOMAIN held : j # k => rest[j] = held[j]
    OBVIOUS
  <2> HIDE DEF rest, less
  <2>8. ASSUME NEW p \in Positions(k, cut(k))
        PROVE  k \in DOMAIN held /\ p \in Positions(k, held[k])
    <3>1. p \in Int /\ k <= p /\ p < k + Len(cut(k)) /\ Len(cut(k)) \in Nat
      BY <2>6, PlaceFacts
    <3>2. Len(s) # 0 /\ p < k + Len(s)
      BY <2>2, <2>5, <2>6, <3>1
    <3>3. k \in DOMAIN held /\ s = held[k]
      BY <2>4, <3>2 DEF s
    <3>4. RightPlace(k, held[k])
      BY <3>3 DEF Sound, held
    <3> QED BY <3>1, <3>2, <3>3, <3>4, PlaceFacts
  <2>9. Sound(rest)
    <3>1. ASSUME NEW j \in DOMAIN rest PROVE RightPlace(j, rest[j])
      BY <2>6, <2>7 DEF Sound, held
    <3>2. ASSUME NEW j \in DOMAIN held, j # k
          PROVE  Positions(j, rest[j]) \cap Positions(k, rest[k]) = {}
      <4> SUFFICES ASSUME NEW p \in Positions(j, held[j]), p \in Positions(k, cut(k))
                   PROVE  FALSE
        BY <2>7, <3>2
      <4>1. k \in DOMAIN held /\ p \in Positions(k, held[k])
        BY <2>8
      <4> QED BY <3>2, <4>1 DEF Sound, held
    <3>3. ASSUME NEW j \in DOMAIN rest, NEW l \in DOMAIN rest, j # l
          PROVE  Positions(j, rest[j]) \cap Positions(l, rest[l]) = {}
      <4>1. CASE j = k
        <5>1. l \in DOMAIN held /\ l # k
          BY <2>7, <3>3, <4>1
        <5>2. Positions(l, rest[l]) \cap Positions(k, rest[k]) = {}
          BY <3>2, <5>1
        <5> QED BY <4>1, <5>2
      <4>2. CASE l = k
        <5>1. j \in DOMAIN held /\ j # k
          BY <2>7, <3>3, <4>2
        <5> QED BY <3>2, <4>2, <5>1
      <4>3. CASE j # k /\ l # k
        <5>1. j \in DOMAIN held /\ l \in DOMAIN held /\ rest[j] = held[j] /\ rest[l] = held[l]
          BY <2>7, <4>3
        <5> QED BY <3>3, <5>1 DEF Sound, held
      <4> QED BY <4>1, <4>2, <4>3
    <3> QED BY <3>1, <3>3 DEF Sound
  <2>10. v = [u EXCEPT !.reassembler = rest]
    BY <2>1 DEF rest
  <2>11. at = u.willing => at \in DOMAIN rest /\ rest[at] = held[at]
    <3>1. u.willing \in Nat
      BY ReassemblerAssumption DEF Counted
    <3>2. at = u.willing => at # k
      BY <2>2, <3>1
    <3> QED BY <2>7, <3>2 DEF held
  <2> QED BY <2>9, <2>10, <2>11 DEF held, TrimmedWell
<1> QED BY <1>4, <1>5

(* The assembly loop stops at the first byte that is not stored. *)
LEMMA FrontierFacts ==
    ASSUME NEW held, Sound(held), NEW w \in 0 .. StreamLen, NEW f, f = Frontier(held, w)
    PROVE  /\ f \in w .. StreamLen
           /\ \A q \in w .. f - 1 : Covered(held, q)
           /\ \A m \in Nat : (\A q \in w .. m - 1 : Covered(held, q)) => f >= m
<1> DEFINE ends == {w} \cup {k + Len(held[k]) : k \in DOMAIN held}
           stop(p) == /\ p >= w
                      /\ ~Covered(held, p)
                      /\ \A q \in w .. p - 1 : Covered(held, q)
           free == {p \in Nat : p >= w /\ ~Covered(held, p)}
<1>1. w \in Nat /\ StreamLen \in Nat /\ w <= StreamLen
  BY ReassemblerAssumption
<1>2. ASSUME NEW k \in DOMAIN held
      PROVE  /\ k \in Nat /\ Len(held[k]) \in Nat /\ k + Len(held[k]) <= StreamLen
             /\ \A p : p \in Positions(k, held[k]) <=> p \in Int /\ k <= p /\ p < k + Len(held[k])
  BY PlaceFacts DEF Sound
<1>3. StreamLen \in free
  <2>1. ASSUME NEW k \in DOMAIN held PROVE ~(StreamLen \in Positions(k, held[k]))
    <3>1. /\ k \in Nat /\ Len(held[k]) \in Nat /\ k + Len(held[k]) <= StreamLen
          /\ StreamLen \in Positions(k, held[k])
                => StreamLen < k + Len(held[k])
      BY <1>2
    <3> QED BY <1>1, <3>1
  <2> QED BY <1>1, <2>1 DEF Covered
<1>4. PICK x \in free : \A y \in free : x <= y
  <2>1. free \subseteq Nat /\ free # {}
    BY <1>3
  <2> HIDE DEF free
  <2> QED BY <2>1, LeastNat, Zenon
<1>5. x \in Nat /\ x >= w /\ ~Covered(held, x) /\ x <= StreamLen
  BY <1>3, <1>4
<1>6. ASSUME NEW q \in w .. x - 1 PROVE Covered(held, q)
  <2>1. q \in Nat /\ q >= w /\ ~(x <= q)
    BY <1>1, <1>5
  <2>2. q \notin free
    BY <1>4, <2>1
  <2> QED BY <2>1, <2>2
<1>7. x \in ends
  <2>1. CASE x = w
    BY <2>1
  <2>2. CASE x # w
    <3>1. x - 1 \in w .. x - 1 /\ x - 1 \in Int
      BY <1>1, <1>5, <2>2
    <3>2. PICK k \in DOMAIN held : x - 1 \in Positions(k, held[k])
      BY <1>6, <3>1 DEF Covered
    <3>3. x \notin Positions(k, held[k])
      BY <1>5 DEF Covered
    <3>4. x = k + Len(held[k])
      <4>1. /\ k \in Nat /\ Len(held[k]) \in Nat
            /\ x - 1 \in Int /\ k <= x - 1 /\ x - 1 < k + Len(held[k])
            /\ ~(x \in Int /\ k <= x /\ x < k + Len(held[k]))
        BY <1>2, <3>2, <3>3
      <4> QED BY <1>5, <4>1
    <3> QED BY <3>4
  <2> QED BY <2>1, <2>2
<1>8. f = CHOOSE p \in ends : stop(p)
  BY Zenon DEF Frontier
<1>9. x \in ends /\ stop(x)
  BY <1>5, <1>6, <1>7
<1>10. f \in ends /\ stop(f)
  <2> HIDE DEF ends, stop
  <2> QED BY <1>8, <1>9, Zenon
<1>11. f \in Nat /\ f <= StreamLen
  BY <1>1, <1>2, <1>10
<1>12. ASSUME NEW m \in Nat, \A q \in w .. m - 1 : Covered(held, q) PROVE f >= m
  <2>1. f \notin w .. m - 1
    BY <1>10, <1>12
  <2> QED BY <1>1, <1>10, <1>11, <2>1
<1> QED BY <1>1, <1>10, <1>11, <1>12

(* ... and what it writes up to there is the stream. *)
Readied(held, w, n) ==
    [i \in 1 .. n |->
       LET p == w + i - 1
           k == CHOOSE k \in DOMAIN held : p \in Positions(k, held[k])
       IN  ByteAt(k, held[k], p)]

LEMMA ReadiedBytes ==
    ASSUME NEW held, Sound(held), NEW w \in 0 .. StreamLen, NEW n \in Nat,
           \A q \in w .. w + n - 1 : Covered(held, q)
    PROVE  Readied(held, w, n) = BytesFrom(w, n)
<1> DEFINE source(p) == CHOOSE k \in DOMAIN held : p \in Positions(k, held[k])
<1>1. ASSUME NEW i \in 1 .. n
      PROVE  ByteAt(source(w + i - 1), held[source(w + i - 1)], w + i - 1) = w + i - 1
  <2> DEFINE p == w + i - 1
  <2>1. p \in w .. w + n - 1
    BY ReassemblerAssumption
  <2> HIDE DEF p
  <2>2. source(p) \in DOMAIN held /\ p \in Positions(source(p), held[source(p)])
    BY <2>1, Zenon DEF Covered
  <2> HIDE DEF source
  <2>3. RightPlace(source(p), held[source(p)])
    BY <2>2 DEF Sound
  <2>4. ByteAt(source(p), held[source(p)], p) = p
    BY <2>2, <2>3 DEF RightPlace
  <2> QED BY <2>4 DEF p
<1> HIDE DEF source
<1>2. [i \in 1 .. n |-> ByteAt(source(w + i - 1), held[source(w + i - 1)], w + i - 1)]
        = BytesFrom(w, n)
  BY <1>1 DEF BytesFrom
<1> QED BY <1>2 DEF source, Readied

(* The second half of push_substring: the output gains the stored bytes that
   follow it, all of them or as many as fit. *)
LEMMA AssembleWhole ==
    ASSUME NEW t, Counted(t), Sound(t.reassembler)
    PROVE  /\ Counted(Assemble(t)) /\ Sound(Assemble(t).reassembler)
           /\ Ahead(Assemble(t).reassembler, Assemble(t).willing)
           /\ Assemble(t).end_flag = t.end_flag
           /\ \A m \in Nat :
                 (\A q \in t.willing .. m - 1 : Covered(t.reassembler, q)) =>
                    \/ Assemble(t).willing >= m
                    \/ Assemble(t).willing = t.willing + remaining_capacity(t.output)
<1> DEFINE held == t.reassembler
           want == t.willing
           run  == Frontier(held, want) - want
           n    == Accepted(t.output, run)
           next == want + n
           bytes == Readied(held, want, run)
           left == [k \in {j \in DOMAIN held : j > next} |-> held[k]]
           out  == write(t.output, bytes)
           count == t.bytes_writed + n
           u    == [t EXCEPT !.output = out, !.willing = next, !.bytes_writed = count,
                             !.reassembler = left]
<1>1. Assemble(t) = u
  BY DEF Assemble, Readied
<1>2. /\ want \in 0 .. StreamLen /\ want \in Nat /\ StreamLen \in Nat
      /\ GoodStream(t.output) /\ StreamIntact(t.output) /\ want = t.output.bytes_w
  BY ReassemblerAssumption DEF Counted
<1>3. /\ run \in Nat /\ want + run <= StreamLen
      /\ \A q \in want .. want + run - 1 : Covered(held, q)
      /\ \A m \in Nat : (\A q \in want .. m - 1 : Covered(held, q)) => want + run >= m
  <2> DEFINE f == Frontier(held, want)
  <2>1. /\ f \in want .. StreamLen
        /\ \A q \in want .. f - 1 : Covered(held, q)
        /\ \A m \in Nat : (\A q \in want .. m - 1 : Covered(held, q)) => f >= m
    BY <1>2, FrontierFacts, ZenonT(60)
  <2> HIDE DEF f, want, held
  <2>2. f - want \in Nat /\ want + (f - want) = f
    BY <1>2, <2>1
  <2> QED BY <1>2, <2>1, <2>2 DEF f
<1> HIDE DEF run
<1>4. bytes = BytesFrom(want, run)
  BY <1>2, <1>3, ReadiedBytes
<1>5. BytesFrom(want, run) \in Seq(Byte) /\ Len(BytesFrom(want, run)) = run
  BY <1>2, <1>3, BytesFromParts, Zenon
<1> HIDE DEF bytes
<1>6. /\ n \in 0 .. run /\ GoodStream(out) /\ out.bytes_w = t.output.bytes_w + n
      /\ out.capacity = t.output.capacity /\ out.end_flag = t.output.end_flag
  BY <1>2, <1>4, <1>5, WriteEffect
<1>7. StreamIntact(out)
  BY <1>2, <1>3, <1>4, WriteIntact
<1>8. n = run \/ n = remaining_capacity(t.output)
  <2>1. CASE t.output.end_flag
    <3>1. want = StreamLen
      BY <2>1 DEF Counted
    <3> QED BY <1>2, <1>3, <1>6, <3>1
  <2>2. CASE ~t.output.end_flag
    BY <2>2 DEF Accepted, SmallerOf
  <2> QED BY <2>1, <2>2
<1> HIDE DEF n, out
<1>9. n \in Nat /\ next \in 0 .. StreamLen /\ next \in Nat /\ want <= next
  <2> HIDE DEF want
  <2> QED BY <1>2, <1>3, <1>6
<1>10. IsReassembler(t) /\ t.bytes_writed = want /\ count \in Nat
       /\ out \in ByteStreamType(Byte)
  BY <1>2, <1>6, <1>9, StreamFields DEF Counted
<1> HIDE DEF next, left, count
<1>11. /\ IsReassembler(u) /\ u.output = out /\ u.willing = next /\ u.bytes_writed = count
       /\ u.reassembler = left /\ u.capacity = t.capacity /\ u.end_flag = t.end_flag
       /\ u.total_write = t.total_write
  BY <1>9, <1>10, Zenon DEF IsReassembler, ReassemblerType
<1> HIDE DEF u
<1>12. count = next /\ next = out.bytes_w
  BY <1>2, <1>6, <1>10 DEF count, next
<1>13. out.end_flag => t.end_flag /\ next = StreamLen
  <2>1. out.end_flag => t.end_flag /\ want = StreamLen
    BY <1>6 DEF Counted
  <2> QED BY <1>2, <1>9, <2>1
<1>14. Counted(u)
  <2>1. /\ t.capacity = Capacity /\ t.output.capacity = Capacity /\ t.end_flag \in BOOLEAN
        /\ t.total_write = IF t.end_flag THEN StreamLen ELSE 0
    BY DEF Counted
  <2> QED BY <1>6, <1>7, <1>9, <1>11, <1>12, <1>13, <2>1 DEF Counted
<1>15. Sound(left) /\ Ahead(left, next)
  BY DEF Sound, Ahead, left
<1>16. ASSUME NEW m \in Nat, \A q \in want .. m - 1 : Covered(held, q)
       PROVE  next >= m \/ next = want + remaining_capacity(t.output)
  <2>1. want + run >= m
    BY <1>3, <1>16
  <2> QED BY <1>8, <2>1 DEF next
<1> QED BY <1>1, <1>11, <1>14, <1>15, <1>16

LEMMA EndWhole ==
    ASSUME NEW t, Counted(t), Sound(t.reassembler), Ahead(t.reassembler, t.willing)
    PROVE  Whole(EndIfComplete(t)) /\ EndIfComplete(t).willing = t.willing
<1>1. /\ t.total_write = IF t.end_flag THEN StreamLen ELSE 0
      /\ t.bytes_writed = t.willing /\ GoodStream(t.output) /\ StreamIntact(t.output)
      /\ IsReassembler(t) /\ t.end_flag \in BOOLEAN
      /\ t.capacity = Capacity /\ t.output.capacity = Capacity
      /\ t.willing \in 0 .. StreamLen /\ t.willing = t.output.bytes_w
  BY DEF Counted
<1>2. CASE t.end_flag /\ t.bytes_writed = t.total_write
  <2> DEFINE out == end_input(t.output)
             u   == [t EXCEPT !.output = out]
  <2>1. EndIfComplete(t) = u
    BY <1>2 DEF EndIfComplete
  <2>2. /\ GoodStream(out) /\ out \in ByteStreamType(Byte) /\ out.end_flag
        /\ out.stream = t.output.stream /\ out.size = t.output.size
        /\ out.bytes_w = t.output.bytes_w /\ out.bytes_r = t.output.bytes_r
        /\ out.capacity = t.output.capacity
    BY <1>1, EndInputEffect, StreamFields, SMTT(30)
  <2> HIDE DEF out
  <2>3. StreamIntact(out)
    BY <1>1, <2>2 DEF StreamIntact
  <2>4. /\ IsReassembler(u) /\ u.output = out /\ u.willing = t.willing
        /\ u.bytes_writed = t.bytes_writed /\ u.reassembler = t.reassembler
        /\ u.capacity = t.capacity /\ u.end_flag = t.end_flag
        /\ u.total_write = t.total_write
    BY <1>1, <2>2 DEF IsReassembler, ReassemblerType
  <2> HIDE DEF u
  <2>5. t.willing = StreamLen
    BY <1>1, <1>2
  <2>6. Counted(u)
    BY <1>1, <1>2, <2>2, <2>3, <2>4, <2>5 DEF Counted
  <2> QED BY <2>1, <2>2, <2>4, <2>6 DEF Whole
<1>3. CASE ~(t.end_flag /\ t.bytes_writed = t.total_write)
  <2>1. EndIfComplete(t) = t
    BY <1>3 DEF EndIfComplete
  <2>2. ~(t.end_flag /\ t.willing = StreamLen)
    BY <1>1, <1>3
  <2> QED BY <2>1, <2>2 DEF Whole
<1> QED BY <1>2, <1>3

(* Noting that the last substring has been seen. *)
SeenLast(t, last, n) ==
    IF last THEN [t EXCEPT !.end_flag = TRUE, !.total_write = n] ELSE t

LEMMA LastSeen ==
    ASSUME NEW t, Whole(t), NEW last \in BOOLEAN, NEW n, last => n = StreamLen
    PROVE  /\ Counted(SeenLast(t, last, n))
           /\ SeenLast(t, last, n).reassembler = t.reassembler
           /\ SeenLast(t, last, n).willing = t.willing
           /\ SeenLast(t, last, n).output = t.output
<1> DEFINE u == SeenLast(t, last, n)
<1>1. CASE last
  <2>1. u = [t EXCEPT !.end_flag = TRUE, !.total_write = StreamLen]
    BY <1>1 DEF SeenLast
  <2>2. IsReassembler(t) /\ StreamLen \in Nat
    BY ReassemblerAssumption DEF Whole, Counted
  <2>3. /\ IsReassembler(u) /\ u.output = t.output /\ u.willing = t.willing
        /\ u.bytes_writed = t.bytes_writed /\ u.reassembler = t.reassembler
        /\ u.capacity = t.capacity /\ u.end_flag /\ u.end_flag \in BOOLEAN
        /\ u.total_write = StreamLen
    BY <2>1, <2>2, Zenon DEF IsReassembler, ReassemblerType
  <2>4. Counted(u)
    BY <2>3 DEF Whole, Counted
  <2> QED BY <2>3, <2>4
<1>2. CASE ~last
  BY <1>2 DEF Whole, SeenLast
<1> QED BY <1>1, <1>2

(* push_substring, with any substring of the stream, in any state. *)
LEMMA PushWhole ==
    ASSUME NEW t, Whole(t), NEW i \in 0 .. StreamLen, NEW n \in 0 .. StreamLen,
           NEW last \in BOOLEAN, i + n <= StreamLen, last => i + n = StreamLen,
           NEW v \in push_substring(t, BytesFrom(i, n), i, last)
    PROVE  /\ Whole(v)
           /\ i <= t.willing /\ t.willing < i + n
                => v.willing >= i + n \/ v.willing = t.willing + remaining_capacity(t.output)
<1> DEFINE data == BytesFrom(i, n)
           u == SeenLast(t, last, i + Len(data))
<1>1. i \in Nat /\ n \in Nat
  BY ReassemblerAssumption
<1>2. RightPlace(i, data) /\ Len(data) = n
  BY <1>1, PushedPlace
<1> HIDE DEF data
<1>3. /\ Counted(u) /\ u.reassembler = t.reassembler /\ u.willing = t.willing
      /\ u.output = t.output
  <2>1. last => i + Len(data) = StreamLen
    BY <1>2
  <2> QED BY <2>1, LastSeen
<1>4. push_substring(t, data, i, last) =
        IF Len(data) = 0 THEN {EndIfComplete(u)}
        ELSE {EndIfComplete(Assemble(x)) :
                x \in UNION {TrimToCapacity(y, DOMAIN t.reassembler) :
                               y \in StoreSubstring(u, data, i)}}
  BY Zenon DEF push_substring, SeenLast
<1> HIDE DEF u
<1>5. Sound(t.reassembler) /\ Ahead(t.reassembler, t.willing) /\ t.willing \in Nat
  BY ReassemblerAssumption DEF Whole, Counted
<1>6. CASE Len(data) = 0
  <2>1. v = EndIfComplete(u)
    BY <1>4, <1>6 DEF data
  <2>2. Whole(v)
    BY <1>3, <1>5, <2>1, EndWhole
  <2>3. ~(i <= t.willing /\ t.willing < i + n)
    BY <1>1, <1>2, <1>5, <1>6
  <2> QED BY <2>2, <2>3
<1>7. CASE Len(data) # 0
  <2>1. PICK y \in StoreSubstring(u, data, i) :
          \E x \in TrimToCapacity(y, DOMAIN t.reassembler) : v = EndIfComplete(Assemble(x))
    BY <1>4, <1>7 DEF data
  <2>2. PICK x \in TrimToCapacity(y, DOMAIN t.reassembler) : v = EndIfComplete(Assemble(x))
    BY <2>1
  <2>3. Len(data) > 0
    BY <1>1, <1>2, <1>7
  <2>4. PICK held, at :
             /\ y = [u EXCEPT !.reassembler = held] /\ Sound(held) /\ at \in DOMAIN held
             /\ Ahead([k \in DOMAIN held \ {at} |-> held[k]], u.willing)
             /\ i <= u.willing /\ u.willing < i + Len(data)
                  => at = u.willing /\ at + Len(held[at]) >= i + Len(data)
    <3>1. Sound(u.reassembler) /\ Ahead(u.reassembler, u.willing)
      BY <1>3, <1>5
    <3>2. StoredWell(u, i, data, y)
      BY <1>2, <1>3, <2>3, <3>1, StoreSound
    <3> QED BY <3>2, Zenon DEF StoredWell
  <2>5. /\ Counted(y) /\ y.reassembler = held /\ y.willing = t.willing
        /\ y.output = t.output
    <3>1. Counted(y)
      BY <1>3, <2>4, CountedWithMap, SMTT(30)
    <3>2. IsReassembler(u)
      BY <1>3 DEF Counted
    <3> QED BY <1>3, <2>4, <3>1, <3>2, ReassemblerFields
  <2>6. \A k \in DOMAIN t.reassembler : k \in Nat /\ y.willing < k /\ k <= StreamLen
    <3>1. \A k \in DOMAIN t.reassembler : k \in Nat /\ k <= StreamLen
      BY <1>5, PlaceFacts DEF Sound
    <3>2. \A k \in DOMAIN t.reassembler : k > t.willing
      BY <1>5 DEF Ahead
    <3> QED BY <1>5, <2>5, <3>1, <3>2, SMTT(30)
  <2>7. PICK rest :
             /\ x = [y EXCEPT !.reassembler = rest] /\ Sound(rest)
             /\ at = y.willing => at \in DOMAIN rest /\ rest[at] = y.reassembler[at]
    <3>1. Sound(y.reassembler) /\ at \in DOMAIN y.reassembler
      BY <2>4, <2>5
    <3>2. TrimmedWell(y, at, x)
      BY <2>5, <2>6, <3>1, TrimSound
    <3> QED BY <3>2, Zenon DEF TrimmedWell
  <2>8. /\ Counted(x) /\ x.reassembler = rest /\ x.willing = t.willing
        /\ x.output = t.output
    <3>1. Counted(x)
      BY <2>5, <2>7, CountedWithMap
    <3>2. IsReassembler(y)
      BY <2>5 DEF Counted
    <3> QED BY <2>5, <2>7, <3>1, <3>2, ReassemblerFields
  <2> DEFINE z == Assemble(x)
  <2>9. /\ Counted(z) /\ Sound(z.reassembler) /\ Ahead(z.reassembler, z.willing)
        /\ \A m \in Nat :
              (\A q \in t.willing .. m - 1 : Covered(rest, q)) =>
                 z.willing >= m \/ z.willing = t.willing + remaining_capacity(t.output)
    BY <2>7, <2>8, AssembleWhole, Zenon
  <2> HIDE DEF z
  <2>10. Whole(v) /\ v.willing = z.willing
    BY <2>2, <2>9, EndWhole DEF z
  <2>11. ASSUME i <= t.willing, t.willing < i + n, NEW q \in t.willing .. (i + n) - 1
         PROVE  Covered(rest, q)
    <3>1. at = t.willing /\ at + Len(held[at]) >= i + n
      BY <1>2, <1>3, <2>4, <2>11
    <3>2. at \in DOMAIN rest /\ at + Len(rest[at]) >= i + n
      BY <2>5, <2>7, <3>1
    <3>3. RightPlace(at, rest[at])
      BY <2>7, <3>2 DEF Sound
    <3>4. q \in Positions(at, rest[at])
      <4>1. /\ at \in Nat /\ Len(rest[at]) \in Nat
            /\ q \in Positions(at, rest[at])
                 <=> q \in Int /\ at <= q /\ q < at + Len(rest[at])
        BY <3>3, PlaceFacts
      <4> QED BY <1>1, <1>5, <3>1, <3>2, <4>1
    <3> QED BY <3>2, <3>4 DEF Covered
  <2>12. i + n \in Nat
    BY <1>1
  <2> QED BY <2>9, <2>10, <2>11, <2>12
<1> QED BY <1>6, <1>7

(* The application's reads leave all that has been written in order. *)
LEMMA ReadWhole ==
    ASSUME NEW t, Whole(t), NEW n \in Nat
    PROVE  Whole([t EXCEPT !.output = read(@, n)])
<1> DEFINE m   == ReadSize(t.output, n)
           out == pop_output(t.output, m)
           u   == [t EXCEPT !.output = out]
<1>1. Counted(t) /\ GoodStream(t.output) /\ StreamIntact(t.output) /\ IsReassembler(t)
  BY DEF Whole, Counted
<1>2. m \in 0 .. t.output.size
  <2>1. t.output.size \in Nat
    BY <1>1, StreamFields
  <2> QED BY <2>1 DEF ReadSize, SmallerOf
<1>3. [t EXCEPT !.output = read(@, n)] = u
  BY DEF read
<1> HIDE DEF m
<1>4. /\ GoodStream(out) /\ out.bytes_w = t.output.bytes_w
      /\ out.capacity = t.output.capacity /\ out.end_flag = t.output.end_flag
      /\ StreamIntact(out)
  BY <1>1, <1>2, PopEffect, PopIntact
<1>5. out \in ByteStreamType(Byte)
  BY <1>4, StreamFields
<1> HIDE DEF out
<1>6. /\ IsReassembler(u) /\ u.output = out /\ u.willing = t.willing
      /\ u.bytes_writed = t.bytes_writed /\ u.reassembler = t.reassembler
      /\ u.capacity = t.capacity /\ u.end_flag = t.end_flag
      /\ u.total_write = t.total_write
  BY <1>1, <1>5 DEF IsReassembler, ReassemblerType
<1> HIDE DEF u
<1>7. Counted(u)
  BY <1>1, <1>4, <1>6 DEF Counted
<1>8. Whole(u)
  BY <1>4, <1>6, <1>7 DEF Whole
<1> QED BY <1>3, <1>8

LEMMA InitWhole == Init => Whole(r)
<1> SUFFICES ASSUME Init PROVE Whole(r)
  OBVIOUS
<1> DEFINE out  == NewByteStream(Capacity)
           held == [k \in {} |-> <<>>]
<1>1. /\ r.output = out /\ r.capacity = Capacity /\ r.willing = 0
      /\ r.reassembler = held /\ r.end_flag = FALSE
      /\ r.total_write = 0 /\ r.bytes_writed = 0
  BY DEF Init, NewReassembler
<1>2. /\ GoodStream(out) /\ out.capacity = Capacity /\ out.stream = <<>> /\ out.size = 0
      /\ out.bytes_w = 0 /\ out.bytes_r = 0 /\ ~out.end_flag /\ out \in ByteStreamType(Byte)
  BY ReassemblerAssumption, NewStreamGood, StreamFields
<1> HIDE DEF out
<1>3. StreamIntact(out)
  BY <1>2, ReassemblerAssumption DEF StreamIntact
<1>4. DOMAIN held = {}
  OBVIOUS
<1>5. IsReassembler(r)
  <2>1. r = [output |-> out, capacity |-> Capacity, willing |-> 0, reassembler |-> held,
             end_flag |-> FALSE, total_write |-> 0, bytes_writed |-> 0]
    BY DEF Init, NewReassembler, out
  <2> HIDE DEF held
  <2> QED BY <1>1, <1>2, <2>1, ReassemblerAssumption DEF IsReassembler, ReassemblerType
<1>6. Sound(r.reassembler) /\ Ahead(r.reassembler, r.willing)
  BY <1>1, <1>4 DEF Sound, Ahead
<1> HIDE DEF held
<1>7. Counted(r)
  <2>1. 0 \in 0 .. StreamLen
    BY ReassemblerAssumption
  <2> QED BY <1>1, <1>2, <1>3, <1>5, <2>1, Zenon DEF Counted
<1> QED BY <1>1, <1>6, <1>7 DEF Whole

LEMMA StepWhole ==
    ASSUME Whole(r), [Next]_r PROVE Whole(r)'
<1>1. ASSUME NEW i \in 0 .. StreamLen, NEW n \in 0 .. StreamLen, NEW last \in BOOLEAN,
             Push(i, n, last)
      PROVE  Whole(r)'
  BY <1>1, PushWhole DEF Push, Substring
<1>2. ASSUME NEW n \in 1 .. Capacity, Read(n) PROVE Whole(r)'
  <2>1. n \in Nat
    BY ReassemblerAssumption
  <2> QED BY <1>2, <2>1, ReadWhole DEF Read
<1>3. CASE UNCHANGED r
  BY <1>3
<1> QED BY <1>1, <1>2, <1>3 DEF Next

(* The map, the counters and the output hold together after every call. *)
THEOREM ReassemblerInvariant == Spec => []ReassemblerInv
<1>1. Init => ReassemblerInv
  BY InitWhole DEF ReassemblerInv
<1>2. ReassemblerInv /\ [Next]_r => ReassemblerInv'
  BY StepWhole DEF ReassemblerInv
<1> QED BY <1>1, <1>2, PTL DEF Spec

(* Every field keeps its type and its range: no index or counter leaves the
   stream. *)
THEOREM ReassemblerTypeCorrect == Spec => []TypeOK
<1>1. ReassemblerInv => TypeOK
  <2> SUFFICES ASSUME Whole(r) PROVE TypeOK
    BY DEF ReassemblerInv
  <2> DEFINE out == r.output
             Bytes == 0 .. StreamLen - 1
  <2>1. /\ GoodStream(out) /\ StreamIntact(out) /\ out.bytes_w = r.willing
        /\ r.willing \in 0 .. StreamLen /\ StreamLen \in Nat
        /\ r.capacity = Capacity /\ out.capacity = Capacity
        /\ r.bytes_writed = r.willing /\ r.end_flag \in BOOLEAN
        /\ r.total_write = IF r.end_flag THEN StreamLen ELSE 0
    BY ReassemblerAssumption DEF Whole, Counted
  <2>2. /\ out \in ByteStreamType(Byte) /\ out.stream \in Seq(Byte) /\ out.size \in Nat
        /\ out.bytes_r \in Nat /\ out.size = Len(out.stream)
        /\ out.bytes_w = out.bytes_r + out.size
    BY <2>1, StreamFields DEF StreamIntact
  <2>3. out.stream \in Seq(Bytes)
    <3>1. ASSUME NEW j \in 1 .. Len(out.stream) PROVE out.stream[j] \in Bytes
      <4>1. out.stream[j] = out.bytes_r + j - 1
        BY <2>1 DEF StreamIntact
      <4> HIDE DEF out
      <4> QED BY <2>1, <2>2, <4>1
    <3> HIDE DEF out, Bytes
    <3> QED BY <2>2, <3>1
  <2> HIDE DEF Bytes
  <2>4. out \in ByteStreamType(Bytes)
    <3> HIDE DEF out
    <3> QED BY <2>2, <2>3 DEF ByteStreamType
  <2>5. ASSUME NEW k \in DOMAIN Held PROVE k \in 1 .. StreamLen /\ Held[k] \in Seq(Bytes)
    <3> DEFINE str == Held[k]
    <3>1. RightPlace(k, str) /\ k > r.willing
      BY DEF Whole, Sound, Ahead, Held
    <3> HIDE DEF str
    <3>2. /\ k \in Nat /\ str \in Seq(Byte) /\ Len(str) \in Nat
          /\ k + Len(str) <= StreamLen /\ k <= StreamLen
          /\ \A p : p \in Positions(k, str) <=> p \in Int /\ k <= p /\ p < k + Len(str)
          /\ \A p \in Positions(k, str) : ByteAt(k, str, p) = p
      BY <3>1, PlaceFacts
    <3>3. ASSUME NEW j \in 1 .. Len(str) PROVE str[j] \in Bytes
      <4> DEFINE p == k + j - 1
      <4>1. p \in Int /\ k <= p /\ p < k + Len(str) /\ p - k + 1 = j
        BY <3>2
      <4> HIDE DEF p
      <4>2. str[j] = p
        BY <3>2, <4>1 DEF ByteAt
      <4> QED BY <2>1, <3>2, <4>1, <4>2 DEF Bytes
    <3>4. str \in Seq(Bytes)
      BY <3>2, <3>3
    <3> QED BY <2>1, <3>1, <3>2, <3>4 DEF str
  <2> QED BY <2>1, <2>4, <2>5 DEF TypeOK, Bytes
<1> QED BY <1>1, ReassemblerInvariant, PTL

(* The reader of stream_out() gets the logical stream: no byte lost, repeated,
   moved or altered, in whatever order, overlap and repetition push_substring
   was given its pieces; and the counters ackno() and push_substring use agree. *)
THEOREM ReassemblerOutputIsPrefix == Spec => []OutputIsPrefix
<1>1. ReassemblerInv => OutputIsPrefix
  BY DEF ReassemblerInv, Whole, Counted, OutputIsPrefix
<1> QED BY <1>1, ReassemblerInvariant, PTL

(* Between calls the map holds strings of the stream, each at its index, ahead
   of the next byte wanted and apart from one another. *)
THEOREM ReassemblerStoredSound == Spec => []StoredSound
<1>1. ReassemblerInv => StoredSound
  BY Zenon DEF ReassemblerInv, Whole, Sound, RightPlace, Ahead, StoredSound, StoredAhead,
         StoredCorrect, StoredDisjoint, Held
<1> QED BY <1>1, ReassemblerInvariant, PTL

(* end_input() is called when the last byte has been written, and only then. *)
THEOREM ReassemblerEndsExactly == Spec => []EndsExactly
<1>1. ReassemblerInv => EndsExactly
  BY DEF ReassemblerInv, Whole, Counted, EndsExactly
<1> QED BY <1>1, ReassemblerInvariant, PTL

(* A substring that has the next byte wanted is written by the call that brings
   it, all of it or all the output has room for: the capacity loop never gives
   it up for stored ones. *)
THEOREM ReassemblerNextByte == Spec => []NextByteAccepted
<1>1. ReassemblerInv => NextByteAccepted
  BY PushWhole DEF ReassemblerInv, NextByteAccepted, Substring
<1> QED BY <1>1, ReassemblerInvariant, PTL
=============================================================================
