-------------------------- MODULE StreamReassembler --------------------------
(***************************************************************************)
(* A StreamReassembler fed with arbitrary, overlapping, repeated and       *)
(* reordered substrings of one logical stream of StreamLen bytes, while an *)
(* application reads its output.                                           *)
(***************************************************************************)
EXTENDS StreamReassemblerOps

CONSTANTS
    Capacity,   \* capacity given to the constructor
    StreamLen   \* number of bytes in the logical stream

ASSUME ReassemblerAssumption == Capacity \in Nat \ {0} /\ StreamLen \in Nat

VARIABLE r

Init == r = NewReassembler(Capacity)

(* The n bytes at index i are a substring of the stream; `last' may be set only
   on one that ends it. *)
Substring(i, n, last) ==
    /\ i + n <= StreamLen
    /\ last => i + n = StreamLen

Push(i, n, last) ==
    /\ Substring(i, n, last)
    /\ r' \in push_substring(r, BytesFrom(i, n), i, last)

(* The application reads n bytes of stream_out(). *)
Read(n) ==
    /\ r.output.size > 0
    /\ r' = [r EXCEPT !.output = read(@, n)]

Next ==
    \/ \E i, n \in 0 .. StreamLen, last \in BOOLEAN : Push(i, n, last)
    \/ \E n \in 1 .. Capacity : Read(n)

(* The peer retransmits every byte until it is acknowledged, and the
   application keeps reading. *)
Fairness ==
    /\ \A i \in 0 .. StreamLen - 1 : WF_r(Push(i, 1, i + 1 = StreamLen))
    /\ WF_r(Read(1))

Spec == Init /\ [][Next]_r

FairSpec == Spec /\ Fairness

Held == r.reassembler

TypeOK ==
    /\ r.output \in ByteStreamType(0 .. StreamLen - 1)
    /\ r.capacity = Capacity /\ r.output.capacity = Capacity
    /\ r.willing \in 0 .. StreamLen
    /\ r.total_write \in 0 .. StreamLen
    /\ r.bytes_writed \in 0 .. StreamLen
    /\ r.end_flag \in BOOLEAN
    /\ DOMAIN Held \subseteq 1 .. StreamLen
    /\ \A k \in DOMAIN Held : Held[k] \in Seq(0 .. StreamLen - 1)

(* The application reads the logical stream: no byte lost, repeated, moved or
   altered, whatever order push_substring got them in. The three counters of
   what has been written never part (ackno() uses the stream's, push_substring
   the other two). *)
OutputIsPrefix ==
    /\ StreamIntact(r.output)
    /\ r.willing = r.output.bytes_w
    /\ r.willing = r.bytes_writed

StoredAhead == \A k \in DOMAIN Held : k > r.willing

StoredCorrect ==
    \A k \in DOMAIN Held : \A p \in Positions(k, Held[k]) : ByteAt(k, Held[k], p) = p

StoredDisjoint ==
    \A j, k \in DOMAIN Held :
        j # k => Positions(j, Held[j]) \cap Positions(k, Held[k]) = {}

(* Between calls every stored entry lies ahead of the next byte wanted, holds
   the bytes of the indices it is stored at, and shares no index with another
   (the merge loop of push_substring relies on the last). *)
StoredSound == StoredAhead /\ StoredCorrect /\ StoredDisjoint

(* The output ends when the last byte has been written, and only then. *)
EndsExactly ==
    r.output.end_flag <=> (r.end_flag /\ r.willing = StreamLen)

(* A substring that has the next byte wanted is never given up in favour of
   stored ones: whatever is stored and in whatever order the hash table lists
   it, push_substring writes all of it the output has room for before it
   returns. *)
NextByteAccepted ==
    \A i, n \in 0 .. StreamLen, last \in BOOLEAN :
        Substring(i, n, last) /\ i <= r.willing /\ r.willing < i + n =>
            \A t \in push_substring(r, BytesFrom(i, n), i, last) :
                \/ t.willing >= i + n
                \/ t.willing = r.willing + remaining_capacity(r.output)

(* Every byte of the stream reaches the application, then end of file. *)
StreamCompletes == <>(eof(r.output) /\ r.output.bytes_r = StreamLen)

(* "The StreamReassembler will stay within the memory limits of the
   `capacity'" (stream_reassembler.hh:27-34): bytes assembled and not read,
   and bytes stored, together never exceed it. *)
WithinCapacity == r.output.size + unassembled_bytes(r) <= r.capacity
=============================================================================
