---------------------------- MODULE MCTCPNetwork ----------------------------
(* TCPNetwork for TLC.  The opener's sequence numbers wrap while it sends. *)
EXTENDS TCPNetwork, TLC

MCIsn == Opener :> Mod - 2 @@ Listener :> 3

(* A stream that fills the listener's window, and a longer one. *)
OneWay == Opener :> 2 @@ Listener :> 0
OneWayLong == Opener :> 4 @@ Listener :> 0
=============================================================================
