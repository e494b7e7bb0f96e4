----------------------------- MODULE RouterOps -----------------------------
(***************************************************************************)
(* The router's decision (libsponge/router.cc).                            *)
(*                                                                         *)
(* A 32-bit address is its four bytes, most significant first, so that a   *)
(* mask is applied byte by byte.  A route is a record with the prefix, its *)
(* length, the next hop (Direct when the network is attached) and the      *)
(* number of the interface.                                                *)
(***************************************************************************)
EXTENDS Integers, Sequences, SequencesExt

Quad == 1..4

Direct == <<>>

Route(prefix, length, hop, interface) ==
  [prefix |-> prefix, length |-> length, next_hop |-> hop, interface |-> interface]

(* The part of a run of n leading ones that falls into byte i.             *)
OnesIn(n, i) == IF n >= 8 * i THEN 8 ELSE IF n <= 8 * (i - 1) THEN 0 ELSE n - 8 * (i - 1)

(* Mutant: the run of ones is one bit short.                               *)
construct_binary_with_ones_short(n) ==
  [i \in Quad |-> 256 - 2 ^ (8 - OnesIn(n - 1, i))]

construct_binary_with_ones(n) == [i \in Quad |-> 256 - 2 ^ (8 - OnesIn(n, i))]

(* a & mask, where every byte of mask is a run of leading ones.            *)
BitAnd(a, mask) == [i \in Quad |-> a[i] - (a[i] % (256 - mask[i]))]

Matches(r, dst) ==
  BitAnd(r.prefix, construct_binary_with_ones(r.length))
    = BitAnd(dst, construct_binary_with_ones(r.length))

(* The loop of route_one_datagram keeps a later route of equal length.     *)
Better(r, best) == r.length >= best.maxPrefix

(* The index the loop over the table ends with, 0 when no route matches.   *)
Selected(table, dst) ==
  FoldLeftDomain(LAMBDA best, i :
                   IF Matches(table[i], dst) /\ Better(table[i], best)
                     THEN [index |-> i, maxPrefix |-> table[i].length]
                     ELSE best,
                 [index |-> 0, maxPrefix |-> 0], table).index

next_hop(r, dst) == IF r.next_hop = Direct THEN dst ELSE r.next_hop

-----------------------------------------------------------------------------
(* What "matches" means, without masks: the first n of the 32 bits agree.  *)

Bit(a, k) == (a[(k - 1) \div 8 + 1] \div 2 ^ (7 - ((k - 1) % 8))) % 2

AgreeOn(a, b, n) == \A k \in 1..n : Bit(a, k) = Bit(b, k)
=============================================================================
