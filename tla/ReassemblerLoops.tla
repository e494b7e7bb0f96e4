--------------------------- MODULE ReassemblerLoops ---------------------------
(***************************************************************************)
(* The loops of push_substring, iteration by iteration, for every order in *)
(* which the hash table may list its entries.                              *)
(***************************************************************************)
EXTENDS StreamReassembler

(* One round of the merge loop (stream_reassembler.cc:72-87); `copy' is the
   string being merged, `map' the hash table. *)
MergeStep(acc, key) ==
    LET str  == acc.map[key]
        lo   == SmallerOf(acc.index, key)
        ends == {acc.index + Len(acc.copy), key + Len(str)}
        put(p) == IF p \in Positions(key, str) THEN ByteAt(key, str, p)
                  ELSE IF p \in Positions(acc.index, acc.copy)
                  THEN ByteAt(acc.index, acc.copy, p) ELSE -1
    IN  IF \/ acc.index + Len(acc.copy) - 1 < key
           \/ key + Len(str) - 1 < acc.index
        THEN acc
        ELSE [copy  |-> [i \in 1 .. Max(ends) - lo |-> put(lo + i - 1)],
              index |-> lo,
              map   |-> [k \in DOMAIN acc.map \ {key} |-> acc.map[k]]]

(* The capacity check, and the only round of its loop, at the first key of the
   sorted ones (stream_reassembler.cc:90-109): operator[] creates an entry that
   is missing, and a count below zero is a huge one to substr(). *)
TrimRound(s, key) ==
    LET held   == s.reassembler
        excess == s.output.size + StoredBytes(held) - s.capacity
        str    == IF key \in DOMAIN held THEN held[key] ELSE <<>>
        whole  == Len(str) <= excess
        remain == IF whole THEN excess - Len(str) ELSE excess
        again  == IF whole THEN <<>> ELSE str
        count  == (Len(again) - remain) % Lim
    IN  [s EXCEPT !.reassembler =
           [k \in DOMAIN held \cup {key} |->
              IF k = key THEN SubSeq(again, 1, SmallerOf(count, Len(again))) ELSE held[k]]]

TrimLoop(s, keys) ==
    IF s.output.size + StoredBytes(s.reassembler) <= s.capacity \/ keys = {} THEN {s}
    ELSE {TrimRound(s, k) : k \in {k \in keys : \A j \in keys : ~ AsInt(j) > AsInt(k)}}

(* One round of the inner assembly loop, at the entry stored at `key'
   (stream_reassembler.cc:115-139). *)
AssembleStep(s, key) ==
    LET str == s.reassembler[key]
        tmp == SubSeq(str, s.willing - key + 1, Len(str))
        n   == Accepted(s.output, Len(tmp))
        rest == [s EXCEPT !.reassembler = [k \in DOMAIN @ \ {key} |-> @[k]]]
    IN  IF key > s.willing THEN s
        ELSE IF key + Len(str) - 1 < s.willing THEN rest
        ELSE [rest EXCEPT !.output = write(@, tmp), !.willing = @ + n,
                          !.bytes_writed = @ + n]

(* The two inner loops take each entry once, in any order. *)
RECURSIVE MergeLoop(_, _)
MergeLoop(acc, keys) ==
    IF keys = {} THEN {acc}
    ELSE UNION {MergeLoop(MergeStep(acc, k), keys \ {k}) : k \in keys}

RECURSIVE AssemblePass(_, _)
AssemblePass(s, keys) ==
    IF keys = {} THEN {s}
    ELSE UNION {AssemblePass(AssembleStep(s, k), keys \ {k}) : k \in keys}

(* The outer loop ends with the first pass that writes nothing. *)
RECURSIVE AssembleLoop(_)
AssembleLoop(s) ==
    UNION {IF t.willing = s.willing THEN {t} ELSE AssembleLoop(t) :
           t \in AssemblePass(s, DOMAIN s.reassembler)}

PushByLoops(s, data, index, last) ==
    LET s1   == IF last
                THEN [s EXCEPT !.end_flag = TRUE, !.total_write = index + Len(data)]
                ELSE s
        cut  == IF index < s.willing /\ index + Len(data) - 1 >= s.willing
                THEN s.willing - index ELSE 0
        acc0 == [copy |-> SubSeq(data, cut + 1, Len(data)), index |-> index + cut,
                 map |-> s.reassembler]
        merged  == MergeLoop(acc0, DOMAIN s.reassembler)
        stored  == {[s1 EXCEPT !.reassembler =
                       [k \in DOMAIN a.map \cup {a.index} |->
                          IF k = a.index THEN a.copy ELSE a.map[k]]] : a \in merged}
        trimmed == UNION {TrimLoop(t, DOMAIN s.reassembler) : t \in stored}
    IN  {EndIfComplete(t) : t \in UNION {AssembleLoop(u) : u \in trimmed}}

(* The output stream is a BufferList: the strings written, the first of them
   without the prefix that was read already. *)
RECURSIVE concatenate(_)
concatenate(bufs) == IF bufs = <<>> THEN <<>> ELSE Head(bufs) \o concatenate(Tail(bufs))

RECURSIVE remove_prefix(_, _)
remove_prefix(bufs, n) ==
    IF n = 0 THEN bufs
    ELSE IF n < Len(Head(bufs))
    THEN <<SubSeq(Head(bufs), n + 1, Len(Head(bufs)))>> \o Tail(bufs)
    ELSE remove_prefix(Tail(bufs), n - Len(Head(bufs)))

(* The lists a stream with contents s may be held in. *)
RECURSIVE BufferLists(_)
BufferLists(s) ==
    IF s = <<>> THEN {<<>>}
    ELSE UNION {{<<SubSeq(s, 1, k)>> \o rest : rest \in BufferLists(SubSeq(s, k + 1, Len(s)))} :
                k \in 1 .. Len(s)}

(* In every reachable state and for every substring, the closed form used by
   the model leaves exactly the states the loops of the code can leave; and
   popping bytes off the output is the same for every list of buffers. *)
LoopsAgree ==
    /\ \A i, n \in 0 .. StreamLen, last \in BOOLEAN :
          n > 0 /\ Substring(i, n, last) =>
              push_substring(r, BytesFrom(i, n), i, last)
                = PushByLoops(r, BytesFrom(i, n), i, last)
    /\ \A n \in 0 .. Len(r.output.stream), bufs \in BufferLists(r.output.stream) :
          concatenate(remove_prefix(bufs, n)) = pop_output(r.output, n).stream
=============================================================================
