------------------------ MODULE StreamReassemblerOps ------------------------
(***************************************************************************)
(* libsponge/stream_reassembler.{hh,cc}.  A reassembler is a record:       *)
(* `reassembler' is the unordered_map from index to string, a function     *)
(* from a finite set of indices to sequences of bytes.  push_substring     *)
(* returns the set of states the call may leave, because two things in it  *)
(* depend on the hash table's iteration order and on an unstable sort.     *)
(*                                                                         *)
(* The loops of the code are given in closed form; ReassemblerLoops has    *)
(* them iteration by iteration, and a run compares the two.                *)
(***************************************************************************)
EXTENDS ByteStreamOps, WrappingIntegers, FiniteSetsExt

NewReassembler(capacity) ==
    [output |-> NewByteStream(capacity), capacity |-> capacity, willing |-> 0,
     reassembler |-> [k \in {} |-> <<>>], end_flag |-> FALSE,
     total_write |-> 0, bytes_writed |-> 0]

(* The stream indices a string stored (or pushed) at index k covers. *)
Positions(k, str) == k .. k + Len(str) - 1

ByteAt(k, str, p) == str[p - k + 1]

(* The overlap test of push_substring, on inclusive ends. *)
Overlaps(k1, str1, k2, str2) ==
    /\ k1 <= k2 + Len(str2) - 1
    /\ k2 <= k1 + Len(str1) - 1

(* The result of merging the string at index k with the stored strings that
   overlap it: stored bytes win. Stored strings are disjoint, so at most one
   reaches past either end. *)
MergeStart(over, k) ==
    IF \E j \in over : j < k THEN CHOOSE j \in over : j < k ELSE k

MergeEnd(held, over, k, str) ==
    LET past(j) == j + Len(held[j]) > k + Len(str)
    IN  IF \E j \in over : past(j)
        THEN LET j == CHOOSE j \in over : past(j) IN j + Len(held[j])
        ELSE k + Len(str)

Merged(held, over, k, str) ==
    LET start == MergeStart(over, k)
    IN  [i \in 1 .. MergeEnd(held, over, k, str) - start |->
           LET p == start + i - 1
           IN  IF \E j \in over : p \in Positions(j, held[j])
               THEN LET j == CHOOSE j \in over : p \in Positions(j, held[j])
                    IN  ByteAt(j, held[j], p)
               ELSE ByteAt(k, str, p)]

(* Mutant: the strings merged into the new one stay in the map. *)
StoreSubstring_noErase(r, data, index) ==
    LET held == r.reassembler
        keys == DOMAIN held
        over == {j \in keys : Overlaps(j, held[j], index, data)}
        at   == MergeStart(over, index)
    IN  {[r EXCEPT !.reassembler =
            [j \in keys \cup {at} |->
               IF j = at THEN Merged(held, over, index, data) ELSE held[j]]]}

(* Clip what is already in the output off the new string, merge it with every
   stored string it overlaps, store the result. A stored empty string that
   only the merged string reaches is erased or not, as the hash order has it. *)
StoreSubstring(r, data, index) ==
    LET held == r.reassembler
        keys == DOMAIN held
        cut  == IF index < r.willing /\ index + Len(data) - 1 >= r.willing
                THEN r.willing - index ELSE 0
        str  == SubSeq(data, cut + 1, Len(data))
        k    == index + cut
        over == {j \in keys : Overlaps(j, held[j], k, str)}
        new  == Merged(held, over, k, str)
        at   == MergeStart(over, k)
        late == {j \in keys \ over : Len(held[j]) = 0 /\ at < j /\ j < at + Len(new)}
    IN  {[r EXCEPT !.reassembler =
            [j \in (keys \ (over \cup gone)) \cup {at} |->
               IF j = at THEN new ELSE held[j]]] : gone \in SUBSET late}

StoredBytes(held) == MapThenSumSet(LAMBDA k : Len(held[k]), DOMAIN held)

(* std::greater<int> compares the 64-bit indices as 32-bit signed integers. *)
AsInt(k) == IF k % Mod >= Half THEN (k % Mod) - Mod ELSE k % Mod

(* The capacity loop: it stops after the first, greatest key that was stored
   before this call. That entry loses the excess from its end and stays in
   the map even when nothing of it is left (or it was merged away). *)
TrimToCapacity(r, oldKeys) ==
    LET held   == r.reassembler
        excess == r.output.size + StoredBytes(held) - r.capacity
        greatest == {k \in oldKeys : \A j \in oldKeys : AsInt(j) <= AsInt(k)}
        cut(k) == LET str == IF k \in DOMAIN held THEN held[k] ELSE <<>>
                  IN  SubSeq(str, 1, Len(str) - excess)
    IN  IF excess <= 0 \/ oldKeys = {}
        THEN {r}
        ELSE {[r EXCEPT !.reassembler =
                 [j \in DOMAIN held \cup {k} |-> IF j = k THEN cut(k) ELSE held[j]]] :
              k \in greatest}

Covered(held, p) == \E k \in DOMAIN held : p \in Positions(k, held[k])

(* The first index from `willing' on that no stored string covers. *)
Frontier(held, willing) ==
    CHOOSE p \in {willing} \cup {k + Len(held[k]) : k \in DOMAIN held} :
        /\ p >= willing
        /\ ~Covered(held, p)
        /\ \A q \in willing .. p - 1 : Covered(held, q)

(* Mutant: entries that were written stay in the map. *)
Assemble_keepsEntries(r) ==
    LET n == Accepted(r.output, Frontier(r.reassembler, r.willing) - r.willing)
    IN  [r EXCEPT !.output = write(@, BytesFrom(r.willing, n)),
                  !.willing = @ + n,
                  !.bytes_writed = @ + n]

(* Mutant: bytes are written only when all that are ready fit. *)
Assemble_allOrNothing(r) ==
    LET held == r.reassembler
        run  == Frontier(held, r.willing) - r.willing
        n    == IF run <= remaining_capacity(r.output) THEN run ELSE 0
        next == r.willing + n
    IN  [r EXCEPT !.output = write(@, BytesFrom(r.willing, n)),
                  !.willing = next,
                  !.bytes_writed = next,
                  !.reassembler = [k \in {j \in DOMAIN held : j > next} |-> held[k]]]

(* Mutant: all bytes that are ready count as written, whether they fitted or
   not. *)
Assemble_countsRefused(r) ==
    LET held == r.reassembler
        run  == Frontier(held, r.willing) - r.willing
        next == r.willing + run
    IN  [r EXCEPT !.output = write(@, BytesFrom(r.willing, run)),
                  !.willing = next,
                  !.bytes_writed = next,
                  !.reassembler = [k \in {j \in DOMAIN held : j > next} |-> held[k]]]

(* The assembly loop: write the stored bytes that continue the output, as many
   as fit, and erase every entry that starts at or before the new `willing',
   the part of it that did not fit included. *)
Assemble(r) ==
    LET held  == r.reassembler
        run   == Frontier(held, r.willing) - r.willing
        bytes == [i \in 1 .. run |->
                    LET p == r.willing + i - 1
                        k == CHOOSE k \in DOMAIN held : p \in Positions(k, held[k])
                    IN  ByteAt(k, held[k], p)]
        n     == Accepted(r.output, run)
        next  == r.willing + n
    IN  [r EXCEPT !.output = write(@, bytes),
                  !.willing = next,
                  !.bytes_writed = @ + n,
                  !.reassembler = [k \in {j \in DOMAIN held : j > next} |-> held[k]]]

(* Mutant: the output ends one byte too soon. *)
EndIfComplete_offByOne(r) ==
    IF r.end_flag /\ r.bytes_writed + 1 >= r.total_write
    THEN [r EXCEPT !.output = end_input(@)]
    ELSE r

(* Mutant: the output ends as soon as the last substring has been seen. *)
EndIfComplete_early(r) ==
    IF r.end_flag THEN [r EXCEPT !.output = end_input(@)] ELSE r

EndIfComplete(r) ==
    IF r.end_flag /\ r.bytes_writed = r.total_write
    THEN [r EXCEPT !.output = end_input(@)]
    ELSE r

push_substring(r, data, index, last) ==
    LET r1 == IF last
              THEN [r EXCEPT !.end_flag = TRUE, !.total_write = index + Len(data)]
              ELSE r
    IN  IF Len(data) = 0
        THEN {EndIfComplete(r1)}
        ELSE {EndIfComplete(Assemble(s)) :
                s \in UNION {TrimToCapacity(t, DOMAIN r.reassembler) :
                               t \in StoreSubstring(r1, data, index)}}

unassembled_bytes(r) ==
    Cardinality(UNION {Positions(k, r.reassembler[k]) : k \in DOMAIN r.reassembler})

empty(r) == r.output.size + Cardinality(DOMAIN r.reassembler) = 0
=============================================================================
