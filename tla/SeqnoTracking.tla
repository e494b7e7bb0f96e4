---------------------------- MODULE SeqnoTracking -------------------------
(***************************************************************************)
(* A stream position is sent over and over as a wrapped number; the other  *)
(* end recovers it with the position it recovered last as the checkpoint.  *)
(* This is the use unwrap is documented for ("a recent absolute 64-bit     *)
(* sequence number").                                                      *)
(***************************************************************************)
EXTENDS WrappingIntegers

VARIABLES isn, pos, checkpoint

vars == <<isn, pos, checkpoint>>

(* Positions stop one turn short of 2^64: the last turn overflows uint64_t. *)
MaxPos == Lim - Mod - 1

TypeOK ==
    /\ isn \in WrappingInt32
    /\ pos \in 0 .. MaxPos
    /\ checkpoint \in UInt64

Init ==
    /\ isn \in WrappingInt32
    /\ pos = 0
    /\ checkpoint = 0

(* The next number sent is less than half a turn away, in either direction. *)
Send(x) ==
    /\ Distance(x, pos) < Half
    /\ pos' = x
    /\ checkpoint' = unwrap(wrap(x, isn), isn, checkpoint)
    /\ UNCHANGED isn

Next == \E x \in 0 .. MaxPos : Send(x)

Spec == Init /\ [][Next]_vars

(* The position recovered by unwrap never drifts from the one that was sent,
   however many times the 32-bit number wraps. *)
TracksPosition == checkpoint = pos

(* unwrap returns the candidate closest to the checkpoint, for every wrapped
   number and every checkpoint reached (wrapping_integers.cc:28). *)
UnwrapClosest ==
    \A n \in WrappingInt32 :
        IsClosest(unwrap(n, isn, checkpoint), n, isn, checkpoint)
=============================================================================
