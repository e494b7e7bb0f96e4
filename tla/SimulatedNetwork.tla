-------------------------- MODULE SimulatedNetwork --------------------------
(***************************************************************************)
(* The router, its interfaces and the hosts around it, wired as            *)
(* apps/network_simulator.cc wires them.                                   *)
(*                                                                         *)
(* The program runs its steps in one fixed order: a host sends, then 256   *)
(* rounds of Router::route and of one exchange of frames on every link,    *)
(* then every host checks what it got.  Here the hosts, the router and the *)
(* links take their steps in any order: several datagrams are under way at *)
(* a time, time passes (tick), and a link may garble a frame.              *)
(***************************************************************************)
EXTENDS NetworkInterfaceOps, RouterOps, FiniteSets

CONSTANTS Script,     \* sequence of [from, dst, ttl, at]: what is sent, who expects it
          Ticks,      \* the intervals tick is called with
          MaxSends, MaxTicks, MaxTrouble

ASSUME ScenarioAssumption ==
  /\ {RequestLife, CacheLife} \cup Ticks \subseteq Nat \ {0}
  /\ {MaxSends, MaxTicks, MaxTrouble} \subseteq Nat

VARIABLES iface,      \* every interface, by name: the router's and the hosts'
          expecting,  \* per host, _expecting_to_receive
          failed,     \* the hosts whose check() threw
          sent,       \* history: the set of indices of Script sent so far
          taken,      \* history: per host, the datagrams check() has popped
          clock, ticks, faults,
          heard,      \* history: per interface, when it last heard ARP from an address
          asked       \* history: per interface, when it last asked for an address

vars == <<iface, expecting, failed, sent, taken, clock, ticks, faults, heard, asked>>

-----------------------------------------------------------------------------
(* The constructor of Network: interfaces, hosts, routes and cables.  The  *)
(* random Ethernet addresses are taken to be distinct.                     *)

Ports == <<"default", "eth0", "eth1", "eth2", "uun3", "hs4", "mit5">>

PortAddress ==
  [default |-> <<171, 67, 76, 46>>, eth0 |-> <<10, 0, 0, 1>>, eth1 |-> <<172, 16, 0, 1>>,
   eth2 |-> <<192, 168, 0, 1>>, uun3 |-> <<198, 178, 229, 1>>,
   hs4 |-> <<143, 195, 0, 2>>, mit5 |-> <<128, 30, 76, 255>>]

HostAddress ==
  [applesauce |-> <<10, 0, 0, 2>>, default_router |-> <<171, 67, 76, 1>>,
   cherrypie |-> <<192, 168, 0, 2>>, hs_router |-> <<143, 195, 0, 1>>,
   dm42 |-> <<198, 178, 229, 42>>, dm43 |-> <<198, 178, 229, 43>>]

HostNextHop ==
  [applesauce |-> <<10, 0, 0, 1>>, default_router |-> <<0, 0, 0, 0>>,
   cherrypie |-> <<192, 168, 0, 1>>, hs_router |-> <<0, 0, 0, 0>>,
   dm42 |-> <<198, 178, 229, 1>>, dm43 |-> <<198, 178, 229, 1>>]

Hosts == DOMAIN HostAddress

AddressOf == PortAddress @@ HostAddress

HostOrder == <<"applesauce", "default_router", "cherrypie", "hs_router", "dm42", "dm43">>

EthernetOf ==
  [i \in DOMAIN AddressOf |->
     <<2, 0, 0, 0, 0, CHOOSE k \in 1..13 : (Ports \o HostOrder)[k] = i>>]

Table ==
  <<Route(<<0, 0, 0, 0>>, 0, HostAddress.default_router, 0),
    Route(<<10, 0, 0, 0>>, 8, Direct, 1),
    Route(<<172, 16, 0, 0>>, 16, Direct, 2),
    Route(<<192, 168, 0, 0>>, 24, Direct, 3),
    Route(<<198, 178, 229, 0>>, 24, Direct, 4),
    Route(<<143, 195, 0, 0>>, 17, HostAddress.hs_router, 5),
    Route(<<143, 195, 128, 0>>, 18, HostAddress.hs_router, 5),
    Route(<<143, 195, 192, 0>>, 19, HostAddress.hs_router, 5),
    Route(<<128, 30, 76, 255>>, 16, <<128, 30, 0, 1>>, 6)>>

(* simulate_physical_connections: eth1 and mit5 have no cable.             *)
Links ==
  {<<"default", "default_router">>, <<"eth0", "applesauce">>, <<"eth2", "cherrypie">>,
   <<"hs4", "hs_router">>, <<"uun3", "dm42", "dm43">>}

Linked == UNION {Range(l) : l \in Links}

Init ==
  /\ iface = [i \in DOMAIN AddressOf |-> NewInterface(EthernetOf[i], AddressOf[i])]
  /\ expecting = [h \in Hosts |-> <<>>]
  /\ taken = [h \in Hosts |-> <<>>]
  /\ failed = {} /\ sent = {} /\ clock = 0 /\ ticks = 0 /\ faults = 0
  /\ heard = [i \in DOMAIN AddressOf |-> <<>>]
  /\ asked = [i \in DOMAIN AddressOf |-> <<>>]

-----------------------------------------------------------------------------
(* The requests that appear at the end of an interface's frames_out.       *)
NewRequests(old, new) ==
  SelectSeq(SubSeq(new, Len(old) + 1, Len(new)),
            LAMBDA f : f.type = "ARP" /\ f.payload.opcode = "REQUEST")

NoteRequests ==
  asked' = [i \in DOMAIN iface |->
              [hop \in {f.payload.target_ip :
                          f \in Range(NewRequests(iface[i].frames_out,
                                                  iface'[i].frames_out))} |-> clock]
                @@ asked[i]]

(* Host::send_to, with the expectation the scenario attaches to it.  The   *)
(* order is the scenario's; any of its sends may be left out.              *)
Dgram(k, ttl) ==
  [id |-> k, src |-> HostAddress[Script[k].from], dst |-> Script[k].dst, ttl |-> ttl]

SendTo(k) ==
  /\ Cardinality(sent) < MaxSends /\ \A j \in sent : j < k
  /\ iface' = [iface EXCEPT ![Script[k].from] =
                 send_datagram(@, Dgram(k, Script[k].ttl), HostNextHop[Script[k].from])]
  /\ expecting' = [h \in Hosts |->
                     IF h = Script[k].at
                       THEN Append(expecting[h], Dgram(k, Script[k].ttl - 1))
                       ELSE expecting[h]]
  /\ sent' = sent \cup {k}
  /\ NoteRequests
  /\ UNCHANGED <<failed, taken, clock, ticks, faults, heard>>

(* Router::route_one_datagram on the router's interfaces.                  *)
Forward(ifs, d, r) ==
  [ifs EXCEPT ![Ports[r.interface + 1]] = send_datagram(@, d, next_hop(r, d.dst))]

(* Mutant: a datagram that arrives with a time to live of 1 is sent on.    *)
route_one_datagram_ttl(ifs, d) ==
  IF d.ttl < 1 \/ Selected(Table, d.dst) = 0
    THEN ifs
    ELSE Forward(ifs, [d EXCEPT !.ttl = @ - 1], Table[Selected(Table, d.dst)])

route_one_datagram(ifs, d) ==
  IF d.ttl <= 1 \/ Selected(Table, d.dst) = 0
    THEN ifs
    ELSE Forward(ifs, [d EXCEPT !.ttl = @ - 1], Table[Selected(Table, d.dst)])

Arrived == FlattenSeq([k \in DOMAIN Ports |-> iface[Ports[k]].datagrams_out])

(* Mutant: the first interface's datagrams are routed and every queue is   *)
(* emptied.                                                                *)
RouteAll_first ==
  FoldLeft(route_one_datagram,
           [i \in DOMAIN iface |-> IF i \in Range(Ports)
                                     THEN [iface[i] EXCEPT !.datagrams_out = <<>>]
                                     ELSE iface[i]],
           iface[Ports[2]].datagrams_out)

RouteAll ==
  FoldLeft(route_one_datagram,
           [i \in DOMAIN iface |-> IF i \in Range(Ports)
                                     THEN [iface[i] EXCEPT !.datagrams_out = <<>>]
                                     ELSE iface[i]],
           Arrived)

RunRouter ==
  /\ Arrived # <<>>
  /\ iface' = RouteAll
  /\ NoteRequests
  /\ UNCHANGED <<expecting, failed, sent, taken, clock, ticks, faults, heard>>

-----------------------------------------------------------------------------
(* simulate_physical_connections runs exchange_frames on every link: the   *)
(* frames waiting on both (or all three) ends are copied, delivered, and   *)
(* only these are then removed.                                            *)

Incoming(l, i) ==
  FlattenSeq([j \in DOMAIN l |-> IF l[j] = i THEN <<>> ELSE iface[l[j]].frames_out])

Clear(n, count) == [n EXCEPT !.frames_out = SubSeq(@, count + 1, Len(@))]

(* Mutant: what an interface answers during the exchange is dropped too.   *)
Exchanged_clearAll(l, i) ==
  [FoldLeft(async_recv_frame, iface[i], Incoming(l, i)) EXCEPT !.frames_out = <<>>]

Exchanged(l, i) ==
  Clear(FoldLeft(async_recv_frame, iface[i], Incoming(l, i)), Len(iface[i].frames_out))

HeardFrom(l, i) ==
  {f.payload.sender_ip : f \in {g \in Range(Incoming(l, i)) :
                                  g.type = "ARP" /\ Accepts(iface[i], g)}}

LinkOf(i) == CHOOSE l \in Links : i \in Range(l)

PhysicalConnections ==
  /\ \E i \in Linked : iface[i].frames_out # <<>>
  /\ iface' = [i \in Linked |-> Exchanged(LinkOf(i), i)] @@ iface
  /\ heard' = [i \in Linked |-> [a \in HeardFrom(LinkOf(i), i) |-> clock] @@ heard[i]] @@ heard
  /\ UNCHANGED <<expecting, failed, sent, taken, clock, ticks, faults, asked>>

(* The cable: the oldest frame of an interface arrives as noise, which     *)
(* recv_frame drops.                                                       *)
GarbleFrame(i) ==
  /\ ticks + faults < MaxTrouble /\ iface[i].frames_out # <<>>
  /\ iface' = [iface EXCEPT ![i].frames_out[1].payload = Garbled]
  /\ faults' = faults + 1
  /\ UNCHANGED <<expecting, failed, sent, taken, clock, ticks, heard, asked>>

(* The owners of the interfaces report the time that has passed.           *)
Tick(ms) ==
  /\ ticks < MaxTicks /\ ticks + faults < MaxTrouble
  /\ iface' = [i \in DOMAIN iface |-> interface_tick(iface[i], ms)]
  /\ clock' = clock + ms
  /\ ticks' = ticks + 1
  /\ UNCHANGED <<expecting, failed, sent, taken, faults, heard, asked>>

-----------------------------------------------------------------------------
(* Host::check on every host, when nothing is under way any more.          *)

Quiet == Arrived = <<>> /\ \A i \in Linked : iface[i].frames_out = <<>>

remove_expectation(list, d) == RemoveFirst(list, d)

Outstanding(h) == FoldLeft(remove_expectation, expecting[h], iface[h].datagrams_out)

(* Some datagram met no expectation: fewer were removed than received.     *)
Unexpected(h) == Len(Outstanding(h)) + Len(iface[h].datagrams_out) > Len(expecting[h])

CheckHosts ==
  /\ Quiet /\ sent # {}
  /\ failed' = {h \in Hosts : Unexpected(h) \/ Outstanding(h) # <<>>}
  /\ taken' = [h \in Hosts |-> taken[h] \o iface[h].datagrams_out]
  /\ expecting' = [h \in Hosts |-> Outstanding(h)]
  /\ iface' = [i \in DOMAIN iface |-> IF i \in Hosts
                                        THEN [iface[i] EXCEPT !.datagrams_out = <<>>]
                                        ELSE iface[i]]
  /\ UNCHANGED <<sent, clock, ticks, faults, heard, asked>>

Next ==
  /\ failed = {}
  /\ \/ \E k \in DOMAIN Script : SendTo(k)
     \/ RunRouter
     \/ PhysicalConnections
     \/ \E i \in Linked : GarbleFrame(i)
     \/ \E ms \in Ticks : Tick(ms)
     \/ CheckHosts

Spec == Init /\ [][Next]_vars

(* The simulator's loop runs the router and every link in each round, so   *)
(* the network does not rest while a frame or a datagram is under way.     *)
(* Sends, ticks and faults are bounded, so this is weak fairness of the    *)
(* two steps of the loop.                                                  *)
Fairness == []<>Quiet \/ []<><<TRUE>>_vars

FairSpec == Spec /\ Fairness

-----------------------------------------------------------------------------
(* Properties.                                                             *)

(* Every interface keeps its addresses, its maps hold live entries only,   *)
(* and its queues hold frames and datagrams.                               *)
TypeOK ==
  /\ \A i \in DOMAIN AddressOf :
       /\ iface[i].eth = EthernetOf[i] /\ iface[i].ip = AddressOf[i]
       /\ Range(iface[i].arpRequests) \subseteq 1..RequestLife
       /\ \A a \in DOMAIN iface[i].cacheMap : iface[i].cacheMap[a].ms \in 1..CacheLife
       /\ \A f \in Range(iface[i].frames_out) :
            f.src = EthernetOf[i] /\ f.dst \in Range(EthernetOf) \cup {ETHERNET_BROADCAST}
  /\ failed \subseteq Hosts /\ sent \subseteq DOMAIN Script
  /\ ticks \in 0..MaxTicks /\ faults \in 0..MaxTrouble /\ clock \in Nat

Carried(i) ==
  {f.payload : f \in {g \in Range(iface[i].frames_out) : g.type = "IPv4" /\ g.payload # Garbled}}

(* The places of an interface, or of a host's program, that hold datagram k. *)
PlacesAt(i, k) ==
  {<<"frame", j>> : j \in {x \in DOMAIN iface[i].frames_out :
                             /\ iface[i].frames_out[x].type = "IPv4"
                             /\ iface[i].frames_out[x].payload # Garbled
                             /\ iface[i].frames_out[x].payload.id = k}}
  \cup {<<"received", j>> : j \in {x \in DOMAIN iface[i].datagrams_out :
                                    iface[i].datagrams_out[x].id = k}}
  \cup UNION {{<<a, j>> : j \in {x \in DOMAIN iface[i].datagramQueue[a] :
                                  iface[i].datagramQueue[a][x].id = k}} :
               a \in DOMAIN iface[i].datagramQueue}

Copies(k) ==
  Cardinality(UNION {{i} \X PlacesAt(i, k) : i \in DOMAIN iface}
              \cup UNION {{<<h, <<"taken", j>>>> : j \in {x \in DOMAIN taken[h] : taken[h][x].id = k}} :
                          h \in Hosts})

(* send_datagram, recv_frame and Router::route hand a datagram on without  *)
(* ever doubling it, and lose none whose time to live lasts: through       *)
(* queueing behind ARP, the flush on a reply, expiry and routing each one  *)
(* sent is in exactly one place, as long as no link has lost a frame.      *)
ExactlyOnce ==
  \A k \in sent :
    /\ Copies(k) <= 1
    /\ faults = 0 /\ Script[k].ttl > 1 => Copies(k) = 1

Delivered(h) == taken[h] \o iface[h].datagrams_out

(* Datagrams of one host to one place arrive in the order of send_to, also *)
(* when some wait for ARP and others find the address in the cache.        *)
InOrder ==
  \A h \in Hosts : \A j1, j2 \in DOMAIN Delivered(h) :
    j1 < j2 /\ Delivered(h)[j1].src = Delivered(h)[j2].src
      => Delivered(h)[j1].id < Delivered(h)[j2].id

Outgoing(p) ==
  Carried(p)
    \cup UNION {Range(iface[p].datagramQueue[a]) : a \in DOMAIN iface[p].datagramQueue}

(* A datagram leaves the router by the interface of a matching route than  *)
(* which no matching route is longer, "match" being agreement on the first *)
(* prefix_length bits: the masks of construct_binary_with_ones and the     *)
(* order of the table make no difference.                                  *)
LongestPrefixWins ==
  \A n \in DOMAIN Ports : \A d \in Outgoing(Ports[n]) :
    \E r \in Range(Table) :
      /\ r.interface = n - 1 /\ AgreeOn(r.prefix, d.dst, r.length)
      /\ \A q \in Range(Table) : AgreeOn(q.prefix, d.dst, q.length) => q.length <= r.length

(* The cache maps an address to the interface that owns it, and does so    *)
(* exactly while less than 30 seconds have passed since the last ARP       *)
(* message from that address.                                              *)
MappingsTrue ==
  \A i \in DOMAIN AddressOf :
    /\ DOMAIN iface[i].cacheMap
         = {a \in DOMAIN heard[i] : clock - heard[i][a] < CacheLife}
    /\ \A a \in DOMAIN iface[i].cacheMap :
         \E j \in DOMAIN AddressOf : AddressOf[j] = a /\ iface[i].cacheMap[a].eth = EthernetOf[j]

(* An interface asks for an address only if it has not asked for it in the *)
(* last five seconds, however many datagrams wait for it.                  *)
RequestSpacing ==
  [][\A i \in DOMAIN iface :
       LET new == IF IsPrefix(iface[i].frames_out, iface'[i].frames_out)
                    THEN NewRequests(iface[i].frames_out, iface'[i].frames_out)
                    ELSE <<>>
       IN  /\ \A j \in DOMAIN new :
                new[j].payload.target_ip \in DOMAIN asked[i]
                  => clock - asked[i][new[j].payload.target_ip] >= RequestLife
           /\ \A j1, j2 \in DOMAIN new :
                new[j1].payload.target_ip = new[j2].payload.target_ip => j1 = j2]_vars

(* On a network that loses nothing Host::check throws for no host: each    *)
(* gets what the scenario expects there, with the time to live one less,   *)
(* and nothing else.                                                       *)
ChecksPass == faults = 0 => failed = {}

(* On a network that loses nothing every datagram of the scenario that is  *)
(* expected somewhere arrives there, whatever expires on the way.          *)
Arrives ==
  []<>(faults > 0 \/ \A k \in sent :
         Script[k].at \in Hosts => \E d \in Range(Delivered(Script[k].at)) : d.id = k)
=============================================================================
