------------------------------- MODULE NetTables -------------------------------
(***************************************************************************)
(* The ARP cache and the routing table (src/src/net/net.c).  An address of *)
(* the cache is a number, since a full cache overwrites the slot           *)
(* address % NET_ARP_CACHE_SIZE; an address of the routing table is the    *)
(* set of its one bits, so that masking is intersection.                   *)
(***************************************************************************)
EXTENDS Integers, FiniteSets, Sequences, FiniteSetsExt

CONSTANTS
  NET_ARP_CACHE_SIZE, Addresses, Macs, Lifetimes, MaxTime,
  NET_ROUTE_MAX, Bits, Metrics

VARIABLES
  arp_cache, now,
  learnt,           \* history: what was last learnt of each address
  routes

arp_vars == <<arp_cache, now, learnt>>
net_vars == <<arp_cache, now, learnt, routes>>

ArpSlots == 0 .. NET_ARP_CACHE_SIZE - 1
Invalid == [address |-> 0, mac |-> "none", expires_at |-> 0]
Entry(address, mac, expires_at) == [address |-> address, mac |-> mac, expires_at |-> expires_at]
Expired(e) == e.expires_at <= now

net_arp_cache_expire ==
  /\ arp_cache' = [i \in ArpSlots |-> IF Expired(arp_cache[i]) THEN Invalid ELSE arp_cache[i]]
  /\ UNCHANGED <<now, learnt, routes>>

(* Mutation of ArpSlot: the first free slot is taken, whatever follows it. *)
ArpSlot_first_free(address) ==
  LET free == {i \in ArpSlots : arp_cache[i] = Invalid \/ arp_cache[i].address = address}
  IN  IF free # {} THEN Min(free) ELSE address % NET_ARP_CACHE_SIZE

(* The slot of the address, else the first free one, else one by number.   *)
ArpSlot(address) ==
  LET same == {i \in ArpSlots : arp_cache[i] # Invalid /\ arp_cache[i].address = address}
      free == {i \in ArpSlots : arp_cache[i] = Invalid}
  IN  IF same # {} THEN Min(same)
      ELSE IF free # {} THEN Min(free) ELSE address % NET_ARP_CACHE_SIZE

net_arp_cache_update(address, mac, expires_at) ==
  /\ address # 0 /\ expires_at # 0
  /\ arp_cache' = [arp_cache EXCEPT ![ArpSlot(address)] = Entry(address, mac, expires_at)]
  /\ learnt' = [learnt EXCEPT ![address] = Entry(address, mac, expires_at)]
  /\ UNCHANGED <<now, routes>>

(* The slot a lookup stops at, if any; an expired one is dropped there.    *)
Hits(address) == {i \in ArpSlots : arp_cache[i] # Invalid /\ arp_cache[i].address = address}
Found(address) ==
  IF Hits(address) = {} \/ Expired(arp_cache[Min(Hits(address))]) THEN "none"
  ELSE arp_cache[Min(Hits(address))].mac
net_arp_cache_lookup(address) ==
  /\ Hits(address) # {} /\ Found(address) = "none"
  /\ arp_cache' = [arp_cache EXCEPT ![Min(Hits(address))] = Invalid]
  /\ UNCHANGED <<now, learnt, routes>>

Tick == now < MaxTime /\ now' = now + 1 /\ UNCHANGED <<arp_cache, learnt, routes>>

RouteSlots == 1 .. NET_ROUTE_MAX
NoRoute == [network |-> {}, netmask |-> {}, metric |-> -1]
Route(network, netmask, metric) == [network |-> network, netmask |-> netmask, metric |-> metric]
Unused == {i \in RouteSlots : routes[i] = NoRoute}

net_route_add(network, netmask, metric) ==
  /\ network \ netmask = {} /\ Unused # {}
  /\ routes' = [routes EXCEPT ![Min(Unused)] = Route(network, netmask, metric)]
  /\ UNCHANGED arp_vars

mask_bits(mask) == Cardinality(mask)

(* Mutation of Better: the metric decides before the length of the mask.   *)
Better_metric_first(i, best) ==
  \/ routes[i].metric < routes[best].metric
  \/ /\ routes[i].metric = routes[best].metric
     /\ mask_bits(routes[i].netmask) > mask_bits(routes[best].netmask)

Better(i, best) ==
  \/ mask_bits(routes[i].netmask) > mask_bits(routes[best].netmask)
  \/ /\ mask_bits(routes[i].netmask) = mask_bits(routes[best].netmask)
     /\ routes[i].metric < routes[best].metric

Matches(i, destination) ==
  routes[i] # NoRoute /\ destination \cap routes[i].netmask = routes[i].network

(* The scan keeps the best so far; 0 when none matches.                    *)
net_route_lookup(destination) ==
  LET best[i \in 0 .. NET_ROUTE_MAX] ==
        IF i = 0 THEN 0
        ELSE IF Matches(i, destination) /\ (best[i - 1] = 0 \/ Better(i, best[i - 1]))
             THEN i ELSE best[i - 1]
  IN  best[NET_ROUTE_MAX]

(* The self-test starts both tables anew and leaves its two routes behind. *)
net_self_test ==
  /\ arp_cache' = [i \in ArpSlots |-> Invalid]
  /\ learnt' = [a \in Addresses |-> Invalid]
  /\ routes' = [i \in RouteSlots |-> CASE i = 1 -> Route({}, {}, 2)
                                       [] i = 2 -> Route({1}, {1}, 1)
                                       [] OTHER -> NoRoute]
  /\ UNCHANGED now

(* net_arp_cache_init and net_route_init.                                  *)
NetInit ==
  /\ arp_cache = [i \in ArpSlots |-> Invalid] /\ now = 0
  /\ learnt = [a \in Addresses |-> Invalid]
  /\ routes = [i \in RouteSlots |-> NoRoute]

ArpNext ==
  \/ net_arp_cache_expire \/ Tick
  \/ \E a \in Addresses :
       \/ \E mac \in Macs, t \in Lifetimes : net_arp_cache_update(a, mac, now + t)
       \/ net_arp_cache_lookup(a)

RouteNext ==
  \/ \E network, netmask \in SUBSET Bits, metric \in Metrics :
       net_route_add(network, netmask, metric)
  \/ net_self_test
------------------------------------------------------------------------------
(* A lookup answers what was last learnt of the address and only while it  *)
(* lasts, no address is in two slots, and as long as no more addresses     *)
(* were learnt than there are slots none that still lasts is forgotten.    *)
ArpSound ==
  LET Heard == {a \in Addresses : learnt[a] # Invalid} IN
  /\ \A a \in Addresses :
       /\ Cardinality(Hits(a)) <= 1
       /\ Found(a) # "none" => Found(a) = learnt[a].mac /\ ~Expired(learnt[a])
  /\ Cardinality(Heard) <= NET_ARP_CACHE_SIZE =>
       \A a \in Heard : ~Expired(learnt[a]) => Found(a) = learnt[a].mac

(* The route chosen matches, no matching one is more specific, and none as *)
(* specific is cheaper; there is none only when nothing matches.           *)
RouteBest ==
  \A destination \in SUBSET Bits :
    LET r == net_route_lookup(destination)
        matching == {i \in RouteSlots : Matches(i, destination)}
    IN  IF matching = {} THEN r = 0
        ELSE /\ r \in matching
             /\ \A i \in matching :
                  /\ Cardinality(routes[i].netmask) <= Cardinality(routes[r].netmask)
                  /\ Cardinality(routes[i].netmask) = Cardinality(routes[r].netmask) =>
                       routes[r].metric <= routes[i].metric

=============================================================================
