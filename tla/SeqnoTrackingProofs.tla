------------------------- MODULE SeqnoTrackingProofs -------------------------
(***************************************************************************)
(* A receiver that unwraps with its last position as checkpoint follows    *)
(* the sender, for every word size and however often the number wraps.     *)
(***************************************************************************)
EXTENDS SeqnoTracking, WrappingIntegersProofs

(* The recovered position never drifts from the one sent, for every word size
   and however often the 32-bit number wraps. *)
THEOREM TracksPositionAlways == Spec => [](TypeOK /\ TracksPosition)
<1> DEFINE Inv == TypeOK /\ TracksPosition
<1>1. Init => Inv
  BY ModHalf, WidthAssumption DEF Init, TypeOK, TracksPosition, MaxPos, UInt64
<1>2. Inv /\ [Next]_vars => Inv'
  <2> SUFFICES ASSUME Inv, [Next]_vars PROVE Inv'
    OBVIOUS
  <2>1. ASSUME NEW x \in 0 .. MaxPos, Send(x) PROVE Inv'
    <3>1. x \in UInt64
      BY ModHalf, WidthAssumption DEF UInt64, MaxPos
    <3>2. checkpoint' = x
      BY <2>1, <3>1, UnwrapRoundTrip DEF Send, TypeOK, TracksPosition
    <3> QED BY <2>1, <3>1, <3>2 DEF Send, TypeOK, TracksPosition
  <2>2. CASE UNCHANGED vars
    BY <2>2 DEF vars, TypeOK, TracksPosition
  <2> QED BY <2>1, <2>2 DEF Next
<1> QED BY <1>1, <1>2, PTL DEF Spec

(* In every state the receiver reaches, unwrap gives it the closest candidate
   for whatever number arrives next. *)
THEOREM UnwrapClosestAlways == Spec => []UnwrapClosest
<1>1. TypeOK /\ TracksPosition => UnwrapClosest
  BY UnwrapIsClosest DEF TypeOK, TracksPosition, UnwrapClosest, MaxPos
<1> QED BY <1>1, TracksPositionAlways, PTL
=============================================================================
