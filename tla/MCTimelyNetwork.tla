-------------------------- MODULE MCTimelyNetwork --------------------------
(* TimelyNetwork for TLC. *)
EXTENDS TimelyNetwork, TLC

MCIsn == Opener :> Mod - 2 @@ Listener :> 3

OneWay == Opener :> 2 @@ Listener :> 0
=============================================================================
