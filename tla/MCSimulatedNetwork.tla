------------------------- MODULE MCSimulatedNetwork -------------------------
(* Datagrams of the kinds network_simulator() sends: to a host behind the    *)
(* router, to the two ends of the address range of one route, past its end,  *)
(* to a host on the same network; one with just enough time to live, and one *)
(* whose time to live runs out.                                              *)
EXTENDS SimulatedNetwork

Send(from, dst, ttl, at) == [from |-> from, dst |-> dst, ttl |-> ttl, at |-> at]

MCScript ==
  <<Send("applesauce", <<192, 168, 0, 2>>, 64, "cherrypie"),
    Send("cherrypie", <<143, 195, 192, 0>>, 2, "hs_router"),
    Send("cherrypie", <<143, 195, 223, 255>>, 64, "hs_router"),
    Send("cherrypie", <<143, 195, 224, 0>>, 64, "default_router"),
    Send("dm42", <<198, 178, 229, 43>>, 64, "dm43"),
    Send("applesauce", <<1, 2, 3, 4>>, 1, "nobody")>>
=============================================================================
