--------------------------- MODULE TimelyNetwork ---------------------------
(***************************************************************************)
(* TCPNetwork under the scheduling its event loops give: whatever is ready *)
(* is handled, applications keep up with their timers, and the two clocks  *)
(* advance together while both connections are up.                         *)
(***************************************************************************)
EXTENDS TCPNetwork

CONSTANT MaxDrift    \* ticks by which one clock may be ahead of the other

ASSUME DriftAssumption == MaxDrift \in Nat

VARIABLE ahead       \* ticks of the opener minus ticks of the listener

timelyVars == <<conn, net, faults, ahead>>

(* p's application has nothing left to do. *)
AppIdle(p) ==
    /\ inbound_stream(conn[p]).size = 0
    /\ Open(p) => Ended(p) \/ remaining_capacity(outbound_stream(conn[p])) = 0

TimelyTick(p, ms) ==
    LET drift == ahead + (IF p = Opener THEN 1 ELSE -1)
    IN  /\ \A q \in Peer : AppIdle(q)
        /\ Tick(p, ms)
        /\ IF active(conn[Other(p)]) /\ conn[Other(p)].sender.state # "INIT"
           THEN ahead' = drift /\ drift \in -MaxDrift .. MaxDrift
           ELSE UNCHANGED ahead

TimelyInit == Init /\ ahead = 0

Closed == \A p \in Peer : ~active(conn[p])

Terminated == Closed /\ UNCHANGED timelyVars

TimelyNext ==
    \/ Event /\ UNCHANGED ahead
    \/ \E p \in Peer, ms \in Ticks : TimelyTick(p, ms)
    \/ Terminated

(* _tcp_loop polls every descriptor at least every TCP_TICK_MS and then calls
   tick, until its connection is closed; what the network does not lose it
   delivers.  So the system goes on taking steps until both sides are closed:
   weak fairness of TimelyNext.  That a step is possible in every state with an
   open connection is what the absence of deadlock shows. *)
Fairness == []<>Closed \/ []<><<TRUE>>_timelyVars

TimelySpec == TimelyInit /\ [][TimelyNext]_timelyVars /\ Fairness

(* Although segments are lost, duplicated and late, both applications read all
   that the other wrote up to its end, and both connections close: no zero
   window, lost acknowledgment or lost FIN leaves either side waiting forever. *)
DeliversAndCloses ==
    <>[](\A p \in Peer :
            /\ ~active(conn[p])
            /\ eof(inbound_stream(conn[p]))
            /\ inbound_stream(conn[p]).bytes_r = StreamLen[Other(p)])
=============================================================================
